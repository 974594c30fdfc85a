-------------------------------- MODULE Loops --------------------------------
(***************************************************************************)
(* Dominance and loops of a graph, said of its paths: what                 *)
(* DOMINANCE_FEATURE, LOOP_HEADERS_FEATURE and LOOP_INFO_FEATURE promise.  *)
(* LoopInfo checks that the code computes them; the analyses that require  *)
(* the features take them from here.  A graph is a set of edges, CALL      *)
(* edges left out; it may hold several CFGs, each with its entry.          *)
(***************************************************************************)
EXTENDS Naturals, Sequences, FiniteSets

CONSTANTS Blocks,    \* basic blocks
          NoBlock    \* the null BasicBlock *

Preds(g) == [b \in Blocks |-> {c \in Blocks : <<c, b>> \in g}]
Succs(g) == [b \in Blocks |-> {c \in Blocks : <<b, c>> \in g}]

(* The blocks that can be reached from those of S without those of `cut':  *)
(* those of every set that holds S and whatever comes after its blocks.    *)
Closed(next, S, cut, T)  == /\ S \ cut \subseteq T
                            /\ \A b \in T : next[b] \ cut \subseteq T
Reached(next, S, cut)    == {b \in Blocks : \A T \in SUBSET Blocks :
                                               Closed(next, S, cut, T) => b \in T}

(* The blocks to which x is on all paths from the entries.                 *)
OnAllPaths(next, entries, x) == Blocks \ Reached(next, entries, {x})

(* The blocks that dominate each block.                                    *)
Dominators(g, entries) ==
    LET D == [x \in Blocks |-> OnAllPaths(Succs(g), entries, x)]
    IN  [b \in Blocks |-> {x \in Blocks : b \in D[x]}]

BackEdges(g, d)  == {e \in g : e[2] \in d[e[1]]}
HeadersOf(g, d)  == {e[2] : e \in BackEdges(g, d)}

(* The loop of h: what reaches one of its back edges without h.            *)
LoopOf(g, d, h) ==
    {h} \cup Reached(Preds(g), {e[1] : e \in {e \in BackEdges(g, d) : e[2] = h}}, {h})
LoopsOf(g, d) == [h \in HeadersOf(g, d) |-> LoopOf(g, d, h)]

(* Of the loops whose headers are in H, the one inside the others and the  *)
(* one around the others.                                                  *)
Inner(d, H) == IF H = {} THEN NoBlock ELSE CHOOSE h \in H : H \subseteq d[h]
Outer(d, H) == IF H = {} THEN NoBlock ELSE CHOOSE h \in H : \A k \in H : h \in d[k]

(* ENCLOSING_LOOP_HEADER: the innermost loop that holds b, for a header    *)
(* beside its own; LOOP_EXIT_EDGE: the outermost loop that e leaves.       *)
Around(loops, b)       == {h \in DOMAIN loops \ {b} : b \in loops[h]}
Enclosing(d, loops, b) == Inner(d, Around(loops, b))
Leaves(loops, e)       == {h \in DOMAIN loops : e[1] \in loops[h] /\ e[2] \notin loops[h]}
ExitOf(d, loops, e)    == Outer(d, Leaves(loops, e))

(* What the analyses read of the CFGs: the edges out of a block, in their  *)
(* order, and into it; the CALL edges, from a block to the entry it calls; *)
(* the entries and the exits of the CFGs, `main' and `end' being those of  *)
(* ENTRY_CFG; and the loops.  `exits' is EXIT_LIST.                        *)
Concat(n, s) == LET C[i \in 0 .. n] == IF i = 0 THEN s[0] ELSE C[i - 1] \o s[i]
                IN  C[n]

Program(next, called, main, end, entries) ==
    LET edges == UNION {{<<b, next[b][i]>> : i \in 1 .. Len(next[b])} : b \in Blocks}
        d     == Dominators(edges, entries)
        loops == LoopsOf(edges, d)
        exit  == [e \in edges |-> ExitOf(d, loops, e)]
        out   == [b \in Blocks |-> [i \in 1 .. Len(next[b]) |-> <<b, next[b][i]>>]]
    IN  [blocks    |-> Reached(Succs(edges), entries, {}),
         out       |-> out,
         ins       |-> [b \in Blocks |-> {e \in edges : e[2] = b}],
         calls     |-> [b \in Blocks |-> [i \in 1 .. Len(called[b]) |-> <<b, called[b][i]>>]],
         main      |-> main,
         end       |-> end,
         entries   |-> entries,
         ends      |-> {b \in Blocks : next[b] = <<>>},
         dom       |-> d,
         loops     |-> loops,
         enclosing |-> [b \in Blocks |-> Enclosing(d, loops, b)],
         exitOf    |-> exit,
         exits     |-> [h \in Blocks |->
                           Concat(Cardinality(Blocks) - 1,
                                  [b \in Blocks |->
                                      SelectSeq(out[b], LAMBDA e : exit[e] = h)])]]
=============================================================================
