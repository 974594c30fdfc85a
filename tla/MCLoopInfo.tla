------------------------------ MODULE MCLoopInfo ------------------------------
(* Instances of LoopInfo for TLC: every CFG of three blocks between entry  *)
(* and exit where a block has one or two successors and is reached; the    *)
(* exit may be out of reach, when the program never returns.               *)
EXTENDS LoopInfo, TLC

CONSTANT Size   \* number of blocks between entry and exit

AllBlocks == 0 .. Size + 1
Body == 1 .. Size

OneOrTwo == {S \in SUBSET (1 .. Size + 1) : Cardinality(S) \in {1, 2}}
GraphOf(f) == {<<0, 1>>} \cup UNION {{<<b, c>> : c \in f[b]} : b \in Body}
Connected(g) == Body \subseteq Reached(Succs(g), {0}, {})
AllGraphs == {g \in {GraphOf(f) : f \in [Body -> OneOrTwo]} : Connected(g)}

DominanceProblems == {DominanceProblem(g) : g \in Graphs}
=============================================================================
