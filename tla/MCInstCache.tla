----------------------------- MODULE MCInstCache -----------------------------
(* Instances of InstCache for TLC.  The blocks of a CFG are given with the *)
(* list of their successors; block 0 is the entry of the main CFG.         *)
EXTENDS Reducible, TLC

L == INSTANCE Loops WITH Blocks <- BasicBlocks

EightBlocks == 0 .. 7
All(f) == [b \in BasicBlocks |-> IF b \in DOMAIN f THEN f[b] ELSE <<>>]

(* One CFG that ends at block `end'; another one from block `callee'.      *)
Single(succ, end) == L!Program(All(succ), All(<<>>), 0, end, {0})
Caller(succ, called, end, callee) == L!Program(All(succ), All(called), 0, end, {0, callee})

(* A loop of one block, and one with two ways through.                     *)
SelfLoop == Single(0 :> <<1>> @@ 1 :> <<2>> @@ 2 :> <<2, 3>> @@ 3 :> <<4>>, 4)
IfInLoop == Single(0 :> <<1>> @@ 1 :> <<2, 5>> @@ 2 :> <<3, 4>> @@ 3 :> <<4>> @@ 4 :> <<1>>, 5)
(* A loop in a loop, and code after it; the same, with a way around it.    *)
Nested == Single(0 :> <<1>> @@ 1 :> <<2>> @@ 2 :> <<2, 3>> @@ 3 :> <<1, 4>> @@ 4 :> <<5>>, 5)
NestedIf == Single(0 :> <<1>> @@ 1 :> <<2, 3>> @@ 2 :> <<2, 4>> @@ 3 :> <<4>> @@ 4 :> <<1, 5>>, 5)
(* A loop that is left from its middle by two edges to the same block.     *)
TwoExits == Single(0 :> <<1>> @@ 1 :> <<2, 4>> @@ 2 :> <<3, 4>> @@ 3 :> <<1>> @@ 4 :> <<5>>, 5)

(* A loop with two choices, one after the other.                           *)
TwoIfs == Single(0 :> <<1>> @@ 1 :> <<2, 3>> @@ 2 :> <<3>> @@ 3 :> <<4, 5>> @@ 4 :> <<5>>
                 @@ 5 :> <<1, 6>>, 6)

(* A call, once, of a function with a loop: 4, 5 and 6.                    *)
CallOnce == Caller(0 :> <<1>> @@ 1 :> <<2>> @@ 2 :> <<3>> @@ 4 :> <<5>> @@ 5 :> <<5, 6>>,
                   1 :> <<4>>, 3, 4)
(* A call of a function in a loop.                                         *)
CallInLoop == Caller(0 :> <<1>> @@ 1 :> <<2, 3>> @@ 2 :> <<1>> @@ 4 :> <<5>> @@ 5 :> <<6>>,
                     2 :> <<4>>, 3, 4)

(* A call through a pointer, of one of two functions.                      *)
CallTwo == L!Program(All(0 :> <<1>> @@ 1 :> <<2>> @@ 2 :> <<3>> @@ 4 :> <<5>> @@ 6 :> <<7>>),
                     All(1 :> <<4, 6>>), 0, 3, {0, 4, 6})

(* An edge that leaves two loops at once; the same in a third loop.  The   *)
(* paths that meet after it are at different depths: the deeper one is the *)
(* left operand of the join for one numbering of the blocks, the right one *)
(* for the other.                                                          *)
LeavesTwo  == Single(0 :> <<1>> @@ 1 :> <<2>> @@ 2 :> <<2, 3, 4>> @@ 3 :> <<1, 4>>, 4)
TwoLeft    == Single(0 :> <<1>> @@ 1 :> <<3>> @@ 3 :> <<3, 2, 4>> @@ 2 :> <<1, 4>>, 4)
TwoOfThree == Single(0 :> <<1>> @@ 1 :> <<2>> @@ 2 :> <<3>> @@ 3 :> <<3, 4, 5>>
                     @@ 4 :> <<2, 5>> @@ 5 :> <<1, 6>>, 6)
TwoLeftOfThree == Single(0 :> <<1>> @@ 1 :> <<2>> @@ 2 :> <<4>> @@ 4 :> <<4, 3, 5>>
                         @@ 3 :> <<2, 5>> @@ 5 :> <<1, 6>>, 6)

LoopPrograms == {SelfLoop, IfInLoop, Nested, NestedIf, TwoExits, TwoIfs,
                 CallOnce, CallInLoop, CallTwo}
IfOnly == {IfInLoop}
SeveralAtOnce == {LeavesTwo, TwoLeft, TwoOfThree}
DeeperEachTime == {TwoLeftOfThree}

(* Those without calls are what the theorems are about, and so are all the *)
(* codes, the contents of the set and the levels of first miss.            *)
ASSUME CallFreeAreStructured ==
    \A p \in {SelfLoop, IfInLoop, Nested, NestedIf, TwoExits, TwoIfs} :
        Structured(p) /\ OneLevel(p) /\ EnclosingRight(p)
ASSUME SeveralAreStructured ==
    \A p \in SeveralAtOnce \cup DeeperEachTime : Structured(p) /\ ~OneLevel(p)
ASSUME CodesAreLists == \A p \in Programs : Codes(p) \subseteq OnePerBlock
ASSUME AnyContents == Before \subseteq Lines /\ Blocks \subseteq Tags
ASSUME KnownLevels == FmLevels \subseteq {"inner", "outer", "multi"}

AllTags == 0 .. Size
Foreign == {[i \in Ways |-> Size]}

(* At most one l-block in each block.  None in what the analyses get wrong *)
(* (README): blocks that call, functions called from a loop.               *)
Fetching(p) == {b \in p.blocks : /\ b \notin p.entries \cup p.ends
                                 /\ p.calls[b] = <<>>
                                 /\ p = CallInLoop => b < 3}

(* Cache blocks are numbered by their first use: only their ages matter to *)
(* MUST and PERS.                                                          *)
BodyCode(p) == {c \in [BasicBlocks -> {<<>>} \cup {<<b>> : b \in Blocks}] :
                    \A b \in BasicBlocks : c[b] # <<>> =>
                        /\ b \in Fetching(p)
                        /\ \A k \in 0 .. c[b][1] - 1 : \E d \in 0 .. b - 1 : c[d] = <<k>>}
=============================================================================
