---------------------------- MODULE IterativeDFA ----------------------------
(***************************************************************************)
(* The engine of the iterative data-flow analyses, IterativeDFA::compute() *)
(* of include/otawa/dfa/IterativeDFA.h, for the problems that are given to *)
(* it: what a block generates and kills, and the blocks whose results it   *)
(* takes.  A problem that merges with "all" (Dominance, PostDominance)     *)
(* keeps the facts that hold after all these blocks, and its sets start    *)
(* full; one that merges with "any" (LoopInfoProblem) keeps the facts that *)
(* hold after one of them, and its sets start empty.                       *)
(***************************************************************************)
EXTENDS Naturals, Sequences, FiniteSets

CONSTANTS Blocks,    \* basic blocks of the CFG
          Facts,     \* what the bits of the sets stand for
          Problems   \* problems that the engine may be given

ASSUME BlocksAssumption == IsFiniteSet(Blocks)

(* A template parameter says on which side of a block are those it takes   *)
(* the results of: `from'.  CALL edges are skipped on both sides.          *)
Problem == [merge : {"all", "any"},
            from  : [Blocks -> SUBSET Blocks],
            gen   : [Blocks -> SUBSET Facts],
            kill  : [Blocks -> SUBSET Facts]]

ASSUME ProblemsAssumption == Problems \subseteq Problem

VARIABLES problem,   \* Problem, Iter, gens, kills: not changed by the engine
          outs,      \* outs: result of each block
          todo,      \* todo: queue of the blocks to process
          present    \* present: bit vector of the blocks in todo

dfavars == <<problem, outs, todo, present>>

-----------------------------------------------------------------------------
(* Every order of the elements of S, the edges of a block being in the     *)
(* order in which the CFG was built.                                       *)
Orders(S) == {s \in [1 .. Cardinality(S) -> S] :
                 /\ \A x \in S : \E i \in 1 .. Cardinality(S) : s[i] = x
                 /\ \A i, j \in 1 .. Cardinality(S) : s[i] = s[j] => i = j}

(* IN: reset() then merge() with the results of the blocks before.         *)
In(p, o, b) == IF p.merge = "all"
               THEN {x \in Facts : \A c \in p.from[b] : x \in o[c]}
               ELSE {x \in Facts : \E c \in p.from[b] : x \in o[c]}

Out(p, o, b) == (In(p, o, b) \ p.kill[b]) \cup p.gen[b]

(* Iter::Forward: the blocks that take the result of b.                    *)
After(p, b) == {c \in Blocks : b \in p.from[c]}

Empty(p) == [b \in Blocks |-> IF p.merge = "all" THEN Facts ELSE {}]

-----------------------------------------------------------------------------
(* The engine is built for p and compute() pushes all the blocks.          *)
Start(p, order) == /\ problem = p
                   /\ outs = Empty(p)
                   /\ todo = order
                   /\ present = Blocks

Init == \E p \in Problems, order \in Orders(Blocks) : Start(p, order)

(* Faulty form of the next definition, for the runs that must notice it.   *)
Same_never(b) == FALSE

(* equals() of the new result and the one that is recorded.                *)
Same(b) == Out(problem, outs, b) = outs[b]

(* One turn of the loop, when the result of the block does not change.     *)
Keep == /\ todo # <<>>
        /\ Same(Head(todo))
        /\ todo' = Tail(todo)
        /\ present' = present \ {Head(todo)}
        /\ UNCHANGED <<problem, outs>>

(* Faulty form of the next definition, for the runs that must notice it.   *)
Waked_all(b) == After(problem, b)

(* What a change of b puts in the queue: b itself when it precedes itself, *)
(* as its bit is cleared when it is taken.                                 *)
Waked(b) == After(problem, b) \ (present \ {b})

(* One turn of the loop, when it changes.                                  *)
Change == /\ todo # <<>>
          /\ LET b == Head(todo)
             IN  /\ ~Same(b)
                 /\ outs' = [outs EXCEPT ![b] = Out(problem, outs, b)]
                 /\ \E woken \in Orders(Waked(b)) : todo' = Tail(todo) \o woken
                 /\ present' = (present \ {b}) \cup Waked(b)
          /\ UNCHANGED problem

Step == Keep \/ Change

DFASpec == Init /\ [][Step]_dfavars /\ WF_dfavars(Step)

-----------------------------------------------------------------------------
InTodo == {todo[i] : i \in 1 .. Len(todo)}

DFATypeOK == /\ problem \in Problem
             /\ outs \in [Blocks -> SUBSET Facts]
             /\ todo \in Seq(Blocks)
             /\ present \in SUBSET Blocks

(* The bit vector says what is in the queue, and no block is in it twice,  *)
(* so that the queue never holds more than the blocks of the CFG.          *)
QueueMatches == /\ present = InTodo
                /\ \A i, j \in 1 .. Len(todo) : todo[i] = todo[j] => i = j

(* A solution of the equations of p, and the order in which the engine     *)
(* looks for the best one.                                                 *)
Solves(p, o) == /\ o \in [Blocks -> SUBSET Facts]
                /\ \A b \in Blocks : o[b] = Out(p, o, b)

Better(p, o1, o2) == IF p.merge = "all" THEN \A b \in Blocks : o2[b] \subseteq o1[b]
                                        ELSE \A b \in Blocks : o1[b] \subseteq o2[b]

(* When the queue is empty the engine has a solution, and the best: the    *)
(* largest where the facts must hold on all paths, and the smallest where  *)
(* one path is enough.  Neither depends on the order of the queue, though  *)
(* only the successors of what changed are computed again.                 *)
BestSolution ==
    todo = <<>> => /\ Solves(problem, outs)
                   /\ \A o \in [Blocks -> SUBSET Facts] :
                          Solves(problem, o) => Better(problem, outs, o)
=============================================================================
