--------------------------- MODULE LoopInfo_proofs ---------------------------
(***************************************************************************)
(* Proofs about IterativeDFA and LoopInfo: the engine of the iterative     *)
(* data-flow analyses finds the best solution, and so Dominance,           *)
(* PostDominance and LoopInfoBuilder leave on the blocks of any CFG what   *)
(* its paths say, whatever the order in which the engine takes the blocks  *)
(* and however often the features are built.                               *)
(*                                                                         *)
(* The engine, for any CFG, any problem and any order of the edges (the    *)
(* first part; nothing in it is about LoopInfo).  Two facts are kept by    *)
(* each turn of its loop.  A block that is not in the queue satisfies its  *)
(* equation, since whatever its result was made from puts it back when it  *)
(* changes (Settled).  And no solution is better than the results so far,  *)
(* since Out is monotonic in them (Ahead).  When the queue is empty the    *)
(* first says that the results are a solution, the second that none is     *)
(* better.                                                                 *)
(*                                                                         *)
(* Dominance is a solution of the equations that the engine solves, since  *)
(* a path to a block goes through one of those before it, and it contains  *)
(* every other solution, since the blocks that a solution does not say to  *)
(* be dominated by x are closed under the steps that avoid x.  The engine  *)
(* ends with the largest solution (EndsWithBest), hence with this.         *)
(*                                                                         *)
(* In the same way the headers of the loops around the blocks are the      *)
(* smallest solution of the problem of LoopInfoBuilder.  The headers of    *)
(* the loops around one block all dominate it, hence each other, and the   *)
(* list of the headers has a header before those that dominate it, so that *)
(* the first of them is the innermost and the last the outermost.          *)
(***************************************************************************)
EXTENDS LoopInfo, FiniteSetTheorems, WellFoundedInduction, TLAPS

Settled == \A b \in Blocks : b \notin present => outs[b] = Out(problem, outs, b)

Ahead == \A o : Solves(problem, o) => Better(problem, outs, o)

IInv == DFATypeOK /\ QueueMatches /\ Settled /\ Ahead

-----------------------------------------------------------------------------
\* An order of a finite set is a list of its elements, each once.
LEMMA OrderIsList ==
    ASSUME NEW S, IsFiniteSet(S), NEW s \in Orders(S)
    PROVE  /\ s \in Seq(S)
           /\ Len(s) = Cardinality(S)
           /\ Cardinality(S) \in Nat
           /\ S = {s[i] : i \in 1 .. Len(s)}
           /\ \A i, j \in 1 .. Len(s) : s[i] = s[j] => i = j
<1>1. Cardinality(S) \in Nat
  BY FS_CardinalityType
<1>2. s \in [1 .. Cardinality(S) -> S]
  BY DEF Orders
<1>3. s \in Seq(S) /\ Len(s) = Cardinality(S)
  BY <1>1, <1>2
<1>4. S = {s[i] : i \in 1 .. Len(s)}
  BY <1>2, <1>3 DEF Orders
<1> QED
  BY <1>1, <1>3, <1>4 DEF Orders

\* The result of a block is made of facts.
LEMMA OutType ==
    ASSUME NEW p \in Problem, NEW o \in [Blocks -> SUBSET Facts], NEW b \in Blocks
    PROVE  Out(p, o, b) \in SUBSET Facts
  BY DEF Problem, Out, In

\* Better results before a block give a better result after it.
LEMMA OutMonotonic ==
    ASSUME NEW p \in Problem, NEW o1 \in [Blocks -> SUBSET Facts],
           NEW o2 \in [Blocks -> SUBSET Facts], Better(p, o1, o2),
           NEW b \in Blocks
    PROVE  /\ p.merge = "all" => Out(p, o2, b) \subseteq Out(p, o1, b)
           /\ p.merge # "all" => Out(p, o1, b) \subseteq Out(p, o2, b)
<1>1. \A c \in p.from[b] : c \in Blocks
  BY DEF Problem
<1>2. CASE p.merge = "all"
  BY <1>1, <1>2 DEF Better, Out, In
<1>3. CASE p.merge # "all"
  BY <1>1, <1>3 DEF Better, Out, In
<1> QED
  BY <1>2, <1>3

\* A change of b changes the equation of no block but those after b.
LEMMA OutLocal ==
    ASSUME NEW p \in Problem, NEW o, NEW changed, NEW b \in Blocks,
           NEW c \in Blocks, c \notin After(p, b),
           \A d \in Blocks : d # b => changed[d] = o[d]
    PROVE  Out(p, changed, c) = Out(p, o, c)
<1>1. \A d \in p.from[c] : d \in Blocks /\ d # b
  BY DEF After, Problem
<1> QED
  BY <1>1 DEF Out, In

-----------------------------------------------------------------------------
\* The queue is full and the sets are the best there are.
LEMMA InitHolds == Init => IInv
<1> SUFFICES ASSUME NEW p \in Problems, NEW order \in Orders(Blocks), Start(p, order)
             PROVE  IInv
  BY DEF Init
<1>1. p \in Problem
  BY ProblemsAssumption
<1>2. /\ order \in Seq(Blocks)
      /\ Blocks = {order[i] : i \in 1 .. Len(order)}
      /\ \A i, j \in 1 .. Len(order) : order[i] = order[j] => i = j
  BY OrderIsList, BlocksAssumption
<1>3. DFATypeOK
  BY <1>1, <1>2 DEF Start, DFATypeOK, Empty
<1>4. QueueMatches
  BY <1>2 DEF Start, QueueMatches, InTodo
<1>5. Settled
  BY DEF Start, Settled
<1>6. Ahead
  <2> SUFFICES ASSUME NEW o, Solves(problem, o)
               PROVE  Better(problem, outs, o)
    BY DEF Ahead
  <2>1. o \in [Blocks -> SUBSET Facts]
    BY DEF Solves
  <2> QED
    BY <2>1 DEF Better, Start, Empty
<1> QED
  BY <1>3, <1>4, <1>5, <1>6 DEF IInv

\* What the head of the queue is, and what is left after it.
LEMMA Taken ==
    ASSUME DFATypeOK, QueueMatches, todo # <<>>
    PROVE  /\ Head(todo) \in Blocks
           /\ Tail(todo) \in Seq(Blocks)
           /\ Len(Tail(todo)) = Len(todo) - 1
           /\ Len(todo) \in Nat \ {0}
           /\ \A i \in 1 .. Len(todo) - 1 : Tail(todo)[i] = todo[i + 1]
           /\ present \ {Head(todo)} =
                  {Tail(todo)[i] : i \in 1 .. Len(Tail(todo))}
           /\ \A i, j \in 1 .. Len(Tail(todo)) :
                  Tail(todo)[i] = Tail(todo)[j] => i = j
<1>1. /\ Head(todo) = todo[1]
      /\ Head(todo) \in Blocks
      /\ Tail(todo) \in Seq(Blocks)
      /\ Len(todo) \in Nat \ {0}
      /\ Len(Tail(todo)) = Len(todo) - 1
      /\ \A i \in 1 .. Len(todo) - 1 : Tail(todo)[i] = todo[i + 1]
  BY DEF DFATypeOK
<1>2. \A i, j \in 1 .. Len(todo) : todo[i] = todo[j] => i = j
  BY DEF QueueMatches
<1>3. present = {todo[i] : i \in 1 .. Len(todo)}
  BY DEF QueueMatches, InTodo
<1>4. \A x : x \in present \ {Head(todo)}
             <=> \E i \in 1 .. Len(Tail(todo)) : Tail(todo)[i] = x
  <2> TAKE x
  <2>1. ASSUME x \in present \ {Head(todo)}
        PROVE  \E i \in 1 .. Len(Tail(todo)) : Tail(todo)[i] = x
    <3>1. PICK k \in 1 .. Len(todo) : todo[k] = x
      BY <1>3, <2>1
    <3>2. k # 1 /\ k - 1 \in 1 .. Len(todo) - 1 /\ (k - 1) + 1 = k
      BY <1>1, <2>1, <3>1
    <3> QED
      BY <1>1, <3>1, <3>2
  <2>2. ASSUME NEW i \in 1 .. Len(Tail(todo)), Tail(todo)[i] = x
        PROVE  x \in present \ {Head(todo)}
    <3>1. i \in 1 .. Len(todo) - 1 /\ i + 1 \in 1 .. Len(todo) /\ i + 1 # 1
          /\ 1 \in 1 .. Len(todo)
      BY <1>1
    <3>2. todo[i + 1] = x /\ x \in present
      BY <1>1, <1>3, <2>2, <3>1
    <3>3. todo[1] # todo[i + 1]
      BY <1>2, <3>1
    <3> QED
      BY <1>1, <3>2, <3>3
  <2> QED
    BY <2>1, <2>2
<1>5. ASSUME NEW i \in 1 .. Len(Tail(todo)), NEW j \in 1 .. Len(Tail(todo)),
             Tail(todo)[i] = Tail(todo)[j]
      PROVE  i = j
  <2>1. /\ i \in 1 .. Len(todo) - 1 /\ i + 1 \in 1 .. Len(todo)
        /\ j \in 1 .. Len(todo) - 1 /\ j + 1 \in 1 .. Len(todo)
    BY <1>1
  <2>2. todo[i + 1] = todo[j + 1]
    BY <1>1, <1>5, <2>1
  <2> QED
    BY <1>2, <2>1, <2>2
<1> QED
  BY <1>1, <1>4, <1>5

\* A turn that changes nothing keeps the invariant.
LEMMA KeepHolds == IInv /\ Keep => IInv'
<1> SUFFICES ASSUME IInv, Keep
             PROVE  IInv'
  OBVIOUS
<1>1. /\ Head(todo) \in Blocks
      /\ Tail(todo) \in Seq(Blocks)
      /\ present \ {Head(todo)} = {Tail(todo)[i] : i \in 1 .. Len(Tail(todo))}
      /\ \A i, j \in 1 .. Len(Tail(todo)) : Tail(todo)[i] = Tail(todo)[j] => i = j
  BY Taken DEF IInv, Keep, Same
<1>2. DFATypeOK'
  BY <1>1 DEF IInv, DFATypeOK, Keep, Same
<1>3. QueueMatches'
  BY <1>1 DEF QueueMatches, InTodo, Keep, Same
<1>4. Settled'
  BY DEF IInv, Settled, Keep, Same
<1>5. Ahead'
  BY DEF IInv, Ahead, Keep, Same
<1> QED
  BY <1>2, <1>3, <1>4, <1>5 DEF IInv

\* What is pushed after a change, behind what was in the queue.
LEMMA Pushed ==
    ASSUME NEW left \in Seq(Blocks), NEW W \in SUBSET Blocks,
           NEW woken \in Orders(W),
           NEW P, P = {left[i] : i \in 1 .. Len(left)},
           \A i, j \in 1 .. Len(left) : left[i] = left[j] => i = j,
           W \cap P = {}
    PROVE  /\ left \o woken \in Seq(Blocks)
           /\ P \cup W = {(left \o woken)[i] : i \in 1 .. Len(left \o woken)}
           /\ \A i, j \in 1 .. Len(left \o woken) :
                  (left \o woken)[i] = (left \o woken)[j] => i = j
<1>1. IsFiniteSet(W)
  BY FS_Subset, BlocksAssumption
<1>2. /\ woken \in Seq(W) /\ woken \in Seq(Blocks)
      /\ W = {woken[i] : i \in 1 .. Len(woken)}
      /\ \A i, j \in 1 .. Len(woken) : woken[i] = woken[j] => i = j
  <2>1. /\ woken \in Seq(W)
        /\ W = {woken[i] : i \in 1 .. Len(woken)}
        /\ \A i, j \in 1 .. Len(woken) : woken[i] = woken[j] => i = j
    BY <1>1, OrderIsList
  <2>2. woken \in Seq(Blocks)
    BY <2>1
  <2> QED
    BY <2>1, <2>2
<1> DEFINE s == left \o woken
           n == Len(left)
           m == Len(woken)
<1>3. /\ s \in Seq(Blocks) /\ n \in Nat /\ m \in Nat /\ Len(s) = n + m
      /\ \A i \in 1 .. n : s[i] = left[i]
      /\ \A i \in 1 .. m : s[n + i] = woken[i]
  BY <1>2
<1>4. \A i \in 1 .. Len(s) : i \in 1 .. n \/ (i - n \in 1 .. m /\ n + (i - n) = i)
  BY <1>3
<1>5. \A i \in 1 .. n : left[i] \in P
  OBVIOUS
<1>6. \A i \in 1 .. m : woken[i] \in W
  BY <1>2
<1>7. \A x : x \in P \cup W <=> \E i \in 1 .. Len(s) : s[i] = x
  <2> TAKE x
  <2>1. ASSUME x \in P PROVE \E i \in 1 .. Len(s) : s[i] = x
    <3>1. PICK i \in 1 .. n : left[i] = x
      BY <2>1
    <3> QED
      BY <1>3, <3>1
  <2>2. ASSUME x \in W PROVE \E i \in 1 .. Len(s) : s[i] = x
    <3>1. PICK i \in 1 .. m : woken[i] = x
      BY <1>2, <2>2
    <3>2. n + i \in 1 .. Len(s)
      BY <1>3
    <3> QED
      BY <1>3, <3>1, <3>2
  <2>3. ASSUME NEW i \in 1 .. Len(s), s[i] = x PROVE x \in P \cup W
    <3>1. CASE i \in 1 .. n
      BY <1>3, <1>5, <2>3, <3>1
    <3>2. CASE i - n \in 1 .. m /\ n + (i - n) = i
      BY <1>3, <1>6, <2>3, <3>2
    <3> QED
      BY <1>4, <3>1, <3>2
  <2> QED
    BY <2>1, <2>2, <2>3
<1>8. ASSUME NEW i \in 1 .. Len(s), NEW j \in 1 .. Len(s), s[i] = s[j]
      PROVE  i = j
  <2>1. CASE i \in 1 .. n /\ j \in 1 .. n
    BY <1>3, <1>8, <2>1
  <2>2. CASE i \in 1 .. n /\ j - n \in 1 .. m /\ n + (j - n) = j
    BY <1>3, <1>5, <1>6, <1>8, <2>2
  <2>3. CASE i - n \in 1 .. m /\ n + (i - n) = i /\ j \in 1 .. n
    BY <1>3, <1>5, <1>6, <1>8, <2>3
  <2>4. CASE /\ i - n \in 1 .. m /\ n + (i - n) = i
             /\ j - n \in 1 .. m /\ n + (j - n) = j
    <3>1. woken[i - n] = woken[j - n]
      BY <1>3, <1>8, <2>4
    <3>2. i - n = j - n
      BY <1>2, <2>4, <3>1
    <3> QED
      BY <1>3, <2>4, <3>2
  <2> QED
    BY <1>4, <2>1, <2>2, <2>3, <2>4
<1>9. P \cup W = {s[i] : i \in 1 .. Len(s)}
  <2> HIDE DEF s
  <2> QED
    BY <1>7
<1> QED
  BY <1>3, <1>8, <1>9

\* A turn that changes a result wakes what depends on it, and does not go
\* beyond a solution.
LEMMA ChangeHolds == IInv /\ Change => IInv'
<1> SUFFICES ASSUME IInv, Change
             PROVE  IInv'
  OBVIOUS
<1> DEFINE b == Head(todo)
           left == Tail(todo)
           v == Out(problem, outs, b)
<1>0. DFATypeOK /\ QueueMatches /\ Settled /\ Ahead
  BY DEF IInv
<1>1. /\ b \in Blocks
      /\ left \in Seq(Blocks)
      /\ present \ {b} = {left[i] : i \in 1 .. Len(left)}
      /\ \A i, j \in 1 .. Len(left) : left[i] = left[j] => i = j
  BY <1>0, Taken DEF Change, Same
<1>2. /\ problem \in Problem /\ problem' = problem
      /\ outs \in [Blocks -> SUBSET Facts]
      /\ outs' = [outs EXCEPT ![b] = v]
      /\ present' = (present \ {b}) \cup Waked(b)
  BY <1>0 DEF Change, Same, DFATypeOK
<1>3. v \in SUBSET Facts
  BY <1>1, <1>2, OutType
<1>4. outs' \in [Blocks -> SUBSET Facts]
  BY <1>2, <1>3
<1>5. PICK woken \in Orders(Waked(b)) : todo' = left \o woken
  BY DEF Change, Same
<1>6. Waked(b) \in SUBSET Blocks /\ Waked(b) \cap (present \ {b}) = {}
  BY DEF Waked, After
<1>7. /\ left \o woken \in Seq(Blocks)
      /\ (present \ {b}) \cup Waked(b)
             = {(left \o woken)[i] : i \in 1 .. Len(left \o woken)}
      /\ \A i, j \in 1 .. Len(left \o woken) :
             (left \o woken)[i] = (left \o woken)[j] => i = j
  BY <1>1, <1>6, Pushed
<1>8. DFATypeOK'
  BY <1>0, <1>2, <1>4, <1>5, <1>6, <1>7 DEF DFATypeOK
<1>9. QueueMatches'
  BY <1>2, <1>5, <1>7 DEF QueueMatches, InTodo
<1>10. Settled'
  <2> SUFFICES ASSUME NEW c \in Blocks, c \notin present'
               PROVE  outs'[c] = Out(problem, outs', c)
    BY <1>2 DEF Settled
  <2>1. c \notin After(problem, b) /\ (c # b => c \notin present)
    BY <1>2 DEF Waked
  <2>2. Out(problem, outs', c) = Out(problem, outs, c)
    <3>1. \A d \in Blocks : d # b => outs'[d] = outs[d]
      BY <1>2
    <3>2. b \in Blocks /\ problem \in Problem
      BY <1>1, <1>2
    <3> QED
      BY <2>1, <3>1, <3>2, OutLocal
  <2>3. CASE c = b
    BY <1>2, <2>2, <2>3
  <2>4. CASE c # b
    BY <1>0, <1>2, <2>1, <2>2, <2>4 DEF Settled
  <2> QED
    BY <2>3, <2>4
<1>11. Ahead'
  <2> SUFFICES ASSUME NEW o, Solves(problem, o)
               PROVE  Better(problem, outs', o)
    BY <1>2 DEF Ahead
  <2>1. Better(problem, outs, o)
    BY <1>0 DEF Ahead
  <2>2. o \in [Blocks -> SUBSET Facts] /\ o[b] = Out(problem, o, b)
    BY <1>1 DEF Solves
  <2>3. /\ problem.merge = "all" => o[b] \subseteq v
        /\ problem.merge # "all" => v \subseteq o[b]
    BY <1>1, <1>2, <2>1, <2>2, OutMonotonic
  <2>4. CASE problem.merge = "all"
    BY <1>2, <2>1, <2>3, <2>4 DEF Better
  <2>5. CASE problem.merge # "all"
    BY <1>2, <2>1, <2>3, <2>5 DEF Better
  <2> QED
    BY <2>4, <2>5
<1> QED
  BY <1>8, <1>9, <1>10, <1>11 DEF IInv

-----------------------------------------------------------------------------
\* The invariant holds all along the loop of compute().
THEOREM LoopInvariant == DFASpec => []IInv
<1>1. IInv /\ [Step]_dfavars => IInv'
  <2> SUFFICES ASSUME IInv, [Step]_dfavars
               PROVE  IInv'
    OBVIOUS
  <2>1. CASE Keep
    BY <2>1, KeepHolds
  <2>2. CASE Change
    BY <2>2, ChangeHolds
  <2>3. CASE UNCHANGED dfavars
    BY <2>3 DEF IInv, DFATypeOK, QueueMatches, InTodo, Settled, Ahead, dfavars
  <2> QED
    BY <2>1, <2>2, <2>3 DEF Step
<1> QED
  BY InitHolds, <1>1, PTL DEF DFASpec

\* The bit vector `present' and the queue agree, so that the queue never
\* holds a block twice (compute() pushes only what is not present).
THEOREM QueueOnce == DFASpec => []QueueMatches
<1>1. IInv => QueueMatches
  BY DEF IInv
<1> QED
  BY LoopInvariant, <1>1, PTL

\* compute() ends with the best solution of the equations: the largest for
\* dominance, the smallest for the loops.
THEOREM EndsWithBest == DFASpec => []BestSolution
<1>1. IInv => BestSolution
  <2> SUFFICES ASSUME IInv, todo = <<>>
               PROVE  /\ Solves(problem, outs)
                      /\ \A o \in [Blocks -> SUBSET Facts] :
                             Solves(problem, o) => Better(problem, outs, o)
    BY DEF BestSolution
  <2>1. present = {}
    BY DEF IInv, QueueMatches, InTodo
  <2>2. Solves(problem, outs)
    BY <2>1 DEF IInv, Settled, Solves, DFATypeOK
  <2> QED
    BY <2>2 DEF IInv, Ahead
<1> QED
  BY LoopInvariant, <1>1, PTL

-----------------------------------------------------------------------------

(* The blocks that are on all paths from r to each block.                  *)
OnPathsFrom(next, r) ==
    [b \in Blocks |-> {x \in Blocks : b \in OnAllPaths(next, {r}, x)}]

(* A problem that asks for them, whose blocks take the results of those    *)
(* that `next' leads from.                                                 *)
AsksPaths(p, next, r) ==
    /\ p \in Problem
    /\ p.merge = "all"
    /\ \A b \in Blocks : p.gen[b] = {b} /\ p.kill[b] = IF b = r THEN Blocks ELSE {}
    /\ next \in [Blocks -> SUBSET Blocks]
    /\ \A b, c \in Blocks : b \in p.from[c] <=> c \in next[b]

-----------------------------------------------------------------------------
\* What can be reached is closed, and part of whatever is closed.
LEMMA ReachedLeast ==
    ASSUME NEW next, NEW S \in SUBSET Blocks, NEW cut,
           \A b \in Blocks : next[b] \subseteq Blocks
    PROVE  /\ Closed(next, S, cut, Reached(next, S, cut))
           /\ \A T \in SUBSET Blocks :
                  Closed(next, S, cut, T) => Reached(next, S, cut) \subseteq T
<1>1. \A T \in SUBSET Blocks :
          Closed(next, S, cut, T) => Reached(next, S, cut) \subseteq T
  BY DEF Reached
<1>2. S \ cut \subseteq Reached(next, S, cut)
  BY DEF Reached, Closed
<1>3. ASSUME NEW b \in Reached(next, S, cut), NEW c \in next[b] \ cut
      PROVE  c \in Reached(next, S, cut)
  <2>1. b \in Blocks /\ c \in Blocks
    BY <1>3 DEF Reached
  <2>2. ASSUME NEW T \in SUBSET Blocks, Closed(next, S, cut, T)
        PROVE  c \in T
    BY <1>1, <1>3, <2>2 DEF Closed
  <2> QED
    BY <2>1, <2>2 DEF Reached
<1> QED
  BY <1>1, <1>2, <1>3 DEF Closed

\* What a solution says of a block is so on all paths.
LEMMA SolutionsOnPaths ==
    ASSUME NEW p, NEW next, NEW r \in Blocks, AsksPaths(p, next, r),
           NEW o, Solves(p, o), NEW b \in Blocks
    PROVE  o[b] \subseteq OnPathsFrom(next, r)[b]
<1> SUFFICES ASSUME NEW x \in o[b]
             PROVE  x \in OnPathsFrom(next, r)[b]
  OBVIOUS
<1>1. x \in Blocks
  BY FactsAssumption DEF Solves
<1> DEFINE T == {c \in Blocks : x \notin o[c]}
<1>2. {r} \ {x} \subseteq T
  <2>1. o[r] = {r}
    BY FactsAssumption DEF Solves, Out, In, AsksPaths
  <2> QED
    BY <2>1
<1>3. ASSUME NEW c \in T, NEW d \in next[c] \ {x}
      PROVE  d \in T
  <2>1. d \in Blocks /\ c \in p.from[d]
    BY <1>3 DEF AsksPaths
  <2>2. x \notin In(p, o, d)
    BY <1>3, <2>1 DEF In, AsksPaths
  <2>3. o[d] = Out(p, o, d)
    BY <2>1 DEF Solves
  <2>4. x \notin p.gen[d]
    BY <2>1 DEF AsksPaths
  <2> QED
    BY <2>1, <2>2, <2>3, <2>4 DEF Out
<1>4. Closed(next, {r}, {x}, T)
  BY <1>2, <1>3 DEF Closed
<1>5. b \notin Reached(next, {r}, {x})
  BY <1>4 DEF Reached
<1> QED
  BY <1>1, <1>5 DEF OnPathsFrom, OnAllPaths

\* The blocks on all paths are a solution.
LEMMA PathsSolve ==
    ASSUME NEW p, NEW next, NEW r \in Blocks, AsksPaths(p, next, r)
    PROVE  Solves(p, OnPathsFrom(next, r))
<1> DEFINE D == OnPathsFrom(next, r)
           R(x) == Reached(next, {r}, {x})
<1>1. \A x, b \in Blocks : x \in D[b] <=> b \notin R(x)
  BY DEF OnPathsFrom, OnAllPaths
<1>2. \A x \in Blocks : Closed(next, {r}, {x}, R(x))
  BY ReachedLeast DEF AsksPaths
<1>3. ASSUME NEW x \in Blocks, NEW T \in SUBSET Blocks, Closed(next, {r}, {x}, T)
      PROVE  R(x) \subseteq T
  BY <1>3 DEF Reached
<1>4. D \in [Blocks -> SUBSET Facts]
  BY FactsAssumption DEF OnPathsFrom
<1> HIDE DEF D, R
<1>5. ASSUME NEW x \in Blocks
      PROVE  x \notin R(x)
  <2>1. Closed(next, {r}, {x}, Blocks \ {x})
    BY DEF Closed, AsksPaths
  <2> QED
    BY <2>1, <1>3
<1>6. ASSUME NEW b \in Blocks
      PROVE  D[b] = Out(p, D, b)
  <2>1. CASE b = r
    <3>1. Out(p, D, b) = {b}
      BY <2>1, FactsAssumption DEF Out, In, AsksPaths
    <3>2. b \in D[b]
      BY <1>1, <1>5
    <3>3. ASSUME NEW x \in Blocks, x # b
          PROVE  x \notin D[b]
      BY <1>1, <1>2, <2>1, <3>3 DEF Closed
    <3> QED
      BY <1>4, <3>1, <3>2, <3>3, FactsAssumption
  <2>2. CASE b # r
    <3>1. Out(p, D, b) = {x \in Blocks : \A c \in p.from[b] : x \in D[c]} \cup {b}
      BY <2>2, FactsAssumption DEF Out, In, AsksPaths
    <3>2. b \in D[b]
      BY <1>1, <1>5
    <3>3. ASSUME NEW x \in D[b], x # b, NEW c \in p.from[b]
          PROVE  x \in D[c]
      <4>1. c \in Blocks /\ x \in Blocks /\ b \in next[c]
        BY <1>4, FactsAssumption DEF AsksPaths, Problem
      <4>2. b \notin R(x)
        BY <1>1, <4>1
      <4>3. c \notin R(x)
        BY <1>2, <3>3, <4>1, <4>2 DEF Closed
      <4> QED
        BY <1>1, <4>1, <4>3
    <3>4. ASSUME NEW x \in Blocks, \A c \in p.from[b] : x \in D[c], x # b
          PROVE  x \in D[b]
      <4> DEFINE T == R(x) \ {b}
      <4>1. T \in SUBSET Blocks
        BY DEF R, Reached
      <4>2. {r} \ {x} \subseteq T
        BY <1>2, <2>2 DEF Closed
      <4>3. ASSUME NEW c \in T, NEW d \in next[c] \ {x}
            PROVE  d \in T
        <5>1. d \in R(x)
          BY <1>2, <4>3 DEF Closed
        <5>2. c \in Blocks /\ c \notin p.from[b]
          BY <1>1, <3>4, <4>1, <4>3
        <5> QED
          BY <4>3, <5>1, <5>2 DEF AsksPaths
      <4>4. Closed(next, {r}, {x}, T)
        BY <4>2, <4>3 DEF Closed
      <4> QED
        BY <1>1, <1>3, <4>1, <4>4
    <3> QED
      BY <1>4, <3>1, <3>2, <3>3, <3>4, FactsAssumption
  <2> QED
    BY <2>1, <2>2
<1> QED
  BY <1>4, <1>6 DEF D, Solves

\* An engine that has done with such a problem has found them.
LEMMA EngineFindsPaths ==
    ASSUME IInv, todo = <<>>, NEW next, NEW r \in Blocks,
           AsksPaths(problem, next, r)
    PROVE  outs = OnPathsFrom(next, r)
<1>1. Solves(problem, outs) /\ outs \in [Blocks -> SUBSET Facts]
  BY DEF IInv, QueueMatches, InTodo, Settled, Solves, DFATypeOK
<1>2. Better(problem, outs, OnPathsFrom(next, r))
  BY PathsSolve DEF IInv, Ahead
<1>3. ASSUME NEW b \in Blocks
      PROVE  outs[b] = OnPathsFrom(next, r)[b]
  <2>1. outs[b] \subseteq OnPathsFrom(next, r)[b]
    BY <1>1, SolutionsOnPaths
  <2>2. problem.merge = "all"
    BY DEF AsksPaths
  <2>3. OnPathsFrom(next, r)[b] \subseteq outs[b]
    BY <1>2, <2>2 DEF Better
  <2> QED
    BY <2>1, <2>3
<1> QED
  BY <1>1, <1>3 DEF OnPathsFrom

-----------------------------------------------------------------------------
\* The order in which compute() pushes the blocks has each of them once.
LEMMA NumberedIsOrder == Numbered \in Orders(Blocks)
<1>1. Exit \in Nat /\ Blocks = 0 .. Exit /\ Cardinality(Blocks) = Exit + 1
  BY GraphsAssumption, FS_Interval
<1>2. Numbered \in [1 .. Exit + 1 -> 0 .. Exit]
  BY <1>1 DEF Numbered
<1>3. \A b \in 0 .. Exit : b + 1 \in 1 .. Exit + 1 /\ Numbered[b + 1] = b
  BY <1>1 DEF Numbered
<1>4. \A i, j \in 1 .. Exit + 1 : Numbered[i] = Numbered[j] => i = j
  BY <1>1 DEF Numbered
<1> QED
  BY <1>1, <1>2, <1>3, <1>4 DEF Orders

\* An engine that starts on a problem satisfies its invariant.
LEMMA StartHolds ==
    ASSUME NEW p \in Problem
    PROVE  Start(p, Numbered) => IInv
<1> SUFFICES ASSUME Start(p, Numbered)
             PROVE  IInv
  OBVIOUS
<1>1. /\ Numbered \in Seq(Blocks)
      /\ Blocks = {Numbered[i] : i \in 1 .. Len(Numbered)}
      /\ \A i, j \in 1 .. Len(Numbered) : Numbered[i] = Numbered[j] => i = j
  BY NumberedIsOrder, OrderIsList, BlocksAssumption
<1>2. DFATypeOK
  BY <1>1 DEF Start, DFATypeOK, Empty
<1>3. QueueMatches
  BY <1>1 DEF Start, QueueMatches, InTodo
<1>4. Settled
  BY DEF Start, Settled
<1>5. Ahead
  <2> SUFFICES ASSUME NEW o, Solves(problem, o)
               PROVE  Better(problem, outs, o)
    BY DEF Ahead
  <2>1. o \in [Blocks -> SUBSET Facts]
    BY DEF Solves
  <2> QED
    BY <2>1 DEF Better, Start, Empty
<1> QED
  BY <1>2, <1>3, <1>4, <1>5 DEF IInv

\* ... also when the one before has done.
LEMMA RestartHolds ==
    ASSUME NEW p \in Problem
    PROVE  Restart(p) => IInv'
<1>1. Start(p, Numbered) => IInv
  BY StartHolds
<1>2. Start(p, Numbered)' => IInv'
  BY <1>1, PTL
<1> QED
  BY <1>2 DEF Restart, Start, Numbered

\* The problems that the processors give to the engine.
LEMMA DominanceAsks ==
    ASSUME NEW g
    PROVE  /\ DominanceProblem(g) \in Problem
           /\ AsksPaths(DominanceProblem(g), Succs(g), Entry)
  BY FactsAssumption
  DEF DominanceProblem, Problem, AsksPaths, Preds, Succs

\* So do those of post-dominance, from the exit backwards.
LEMMA PostDominanceAsks ==
    ASSUME NEW g
    PROVE  /\ PostDominanceProblem(g) \in Problem
           /\ AsksPaths(PostDominanceProblem(g), Preds(g), Exit)
  BY FactsAssumption
  DEF PostDominanceProblem, Problem, AsksPaths, Preds, Succs

\* The equations of loops are a problem of the engine.
LEMMA LoopProblemType ==
    ASSUME NEW g, NEW d, NEW h
    PROVE  LoopProblem(g, d, h) \in Problem
  BY FactsAssumption DEF LoopProblem, Problem, Succs

\* The entry and the exit are blocks.
LEMMA EntryAndExit == Entry \in Blocks /\ Exit \in Blocks
  BY GraphsAssumption DEF Entry

-----------------------------------------------------------------------------
(* The problem at work is the one of the phase, and what a phase has left  *)
(* on the blocks is what the paths of the CFG say.                         *)
LInv == /\ IInv
        /\ phase = "dominance" => problem = DominanceProblem(graph)
        /\ phase = "postdominance" => problem = PostDominanceProblem(graph)
        /\ phase \in {"dominated", "loops", "built"} =>
               dom = OnPathsFrom(Succs(graph), Entry)
        /\ phase = "post-dominated" => pdom = OnPathsFrom(Preds(graph), Exit)

\* The first problem is the one of Dominance or of PostDominance.
LEMMA LoopInitHolds == LoopInit => LInv
<1> SUFFICES ASSUME LoopInit
             PROVE  LInv
  OBVIOUS
<1>1. CASE phase = "dominance" /\ Start(DominanceProblem(graph), Numbered)
  <2>1. IInv
    BY <1>1, DominanceAsks, StartHolds
  <2> QED
    BY <1>1, <2>1 DEF LInv, Start
<1>2. CASE phase = "postdominance" /\ Start(PostDominanceProblem(graph), Numbered)
  <2>1. IInv
    BY <1>2, PostDominanceAsks, StartHolds
  <2> QED
    BY <1>2, <2>1 DEF LInv, Start
<1> QED
  BY <1>1, <1>2 DEF LoopInit

\* What leaves the engine alone keeps its invariant.
LEMMA EngineAlone == IInv /\ UNCHANGED dfavars => IInv'
  BY DEF IInv, DFATypeOK, QueueMatches, InTodo, Settled, Ahead, dfavars

\* Each step of the processors keeps the invariant.
LEMMA LoopNextHolds == LInv /\ [LoopNext]_vars => LInv'
<1> SUFFICES ASSUME LInv, [LoopNext]_vars
             PROVE  LInv'
  OBVIOUS
<1>1. CASE Analyse
  <2>1. IInv'
    BY <1>1, KeepHolds, ChangeHolds DEF LInv, Analyse, Step
  <2>2. problem' = problem
    BY <1>1 DEF Analyse, Step, Keep, Change
  <2> QED
    BY <1>1, <2>1, <2>2 DEF LInv, Analyse, marks
<1>2. CASE RecordPostDominance
  <2>1. IInv'
    BY <1>2, EngineAlone DEF LInv, RecordPostDominance
  <2>2. outs = OnPathsFrom(Preds(graph), Exit)
    BY <1>2, PostDominanceAsks, EntryAndExit, EngineFindsPaths
    DEF LInv, RecordPostDominance
  <2> QED
    BY <1>2, <2>1, <2>2 DEF LInv, RecordPostDominance
<1>3. CASE RecordDominance
  <2>1. IInv'
    BY <1>3, EngineAlone DEF LInv, RecordDominance
  <2>2. outs = OnPathsFrom(Succs(graph), Entry)
    BY <1>3, DominanceAsks, EntryAndExit, EngineFindsPaths
    DEF LInv, RecordDominance
  <2> QED
    BY <1>3, <2>1, <2>2 DEF LInv, RecordDominance
<1>4. CASE NoLoop
  <2>1. IInv'
    BY <1>4, EngineAlone DEF LInv, NoLoop
  <2> QED
    BY <1>4, <2>1 DEF LInv, NoLoop, marks
<1>5. CASE FindLoops
  <2>1. IInv'
    BY <1>5, LoopProblemType, RestartHolds DEF FindLoops
  <2> QED
    BY <1>5, <2>1 DEF LInv, FindLoops
<1>6. CASE RecordLoops
  <2>1. IInv'
    BY <1>6, EngineAlone DEF LInv, RecordLoops
  <2> QED
    BY <1>6, <2>1 DEF LInv, RecordLoops
<1>7. CASE BuildAgain
  <2>1. IInv'
    BY <1>7, DominanceAsks, RestartHolds DEF BuildAgain
  <2> QED
    BY <1>7, <2>1 DEF LInv, BuildAgain, Restart
<1>8. CASE UNCHANGED vars
  <2>1. IInv'
    BY <1>8, EngineAlone DEF LInv, vars
  <2> QED
    BY <1>8, <2>1 DEF LInv, vars, marks, dfavars
<1> QED
  BY <1>1, <1>2, <1>3, <1>4, <1>5, <1>6, <1>7, <1>8 DEF LoopNext

\* Whatever runs of the engine follow each other, each works on the equations
\* of its processor, and what Dominance and PostDominance recorded stays right.
THEOREM LoopSpecInvariant == LoopSpec => []LInv
  BY LoopInitHolds, LoopNextHolds, PTL DEF LoopSpec

\* The queue of compute() holds no block twice, for all three analyses, in
\* a first build of the features and in the next ones.
THEOREM LoopQueueOnce == LoopSpec => []QueueMatches
<1>1. LInv => QueueMatches
  BY DEF LInv, IInv
<1> QED
  BY LoopSpecInvariant, <1>1, PTL

\* REVERSE_DOM and REVERSE_POSTDOM are dominance and post-dominance, said of
\* the paths of the CFG (Dominance::processCFG, PostDominance::processCFG).
THEOREM DominanceIsRight == LoopSpec => []DominanceRight
<1>1. LInv => DominanceRight
  <2> SUFFICES ASSUME LInv
               PROVE  DominanceRight
    OBVIOUS
  <2>1. ASSUME phase \in {"dominated", "built"}
        PROVE  dom = Dominators(graph, {Entry})
    BY <2>1 DEF LInv, OnPathsFrom, Dominators
  <2>2. ASSUME phase = "post-dominated", NEW x \in Blocks
        PROVE  {b \in Blocks : x \in pdom[b]} = OnAllPaths(Preds(graph), {Exit}, x)
    <3>1. \A b \in Blocks :
              x \in pdom[b] <=> b \in OnAllPaths(Preds(graph), {Exit}, x)
      BY <2>2 DEF LInv, OnPathsFrom
    <3>2. OnAllPaths(Preds(graph), {Exit}, x) \subseteq Blocks
      BY DEF OnAllPaths
    <3> QED
      BY <3>1, <3>2
  <2> QED
    BY <2>1, <2>2 DEF DominanceRight
<1> QED
  BY LoopSpecInvariant, <1>1, PTL

-----------------------------------------------------------------------------
(* The blocks reached from the entry, and those reached without x.         *)
Live(g)      == Reached(Succs(g), {Entry}, {})
Avoids(g, x) == Reached(Succs(g), {Entry}, {x})
Doms(g)      == OnPathsFrom(Succs(g), Entry)

\* What is reached from the entry, as what it is closed under and part of.
LEMMA LiveFacts ==
    ASSUME NEW g
    PROVE  /\ Entry \in Live(g)
           /\ \A b \in Live(g), c \in Blocks : <<b, c>> \in g => c \in Live(g)
           /\ \A T \in SUBSET Blocks :
                  /\ Entry \in T
                  /\ \A b \in T, c \in Blocks : <<b, c>> \in g => c \in T
                  => Live(g) \subseteq T
<1>1. \A b \in Blocks : Succs(g)[b] = {c \in Blocks : <<b, c>> \in g}
  BY DEF Succs
<1>2. /\ Closed(Succs(g), {Entry}, {}, Live(g))
      /\ \A T \in SUBSET Blocks :
             Closed(Succs(g), {Entry}, {}, T) => Live(g) \subseteq T
  <2>1. /\ {Entry} \in SUBSET Blocks
        /\ \A b \in Blocks : Succs(g)[b] \subseteq Blocks
    BY <1>1, EntryAndExit
  <2> QED
    BY <2>1, ReachedLeast DEF Live
<1>3. ASSUME NEW T \in SUBSET Blocks
      PROVE  Closed(Succs(g), {Entry}, {}, T)
             <=> /\ Entry \in T
                 /\ \A b \in T, c \in Blocks : <<b, c>> \in g => c \in T
  BY <1>1 DEF Closed
<1>4. Live(g) \in SUBSET Blocks
  BY DEF Live, Reached
<1> QED
  BY <1>2, <1>3, <1>4

\* The same of what is reached without x, and what it says of dominance.
LEMMA AvoidsFacts ==
    ASSUME NEW g, NEW x \in Blocks
    PROVE  /\ Avoids(g, x) \in SUBSET Blocks
           /\ x # Entry => Entry \in Avoids(g, x)
           /\ \A b \in Avoids(g, x), c \in Blocks :
                  <<b, c>> \in g /\ c # x => c \in Avoids(g, x)
           /\ \A T \in SUBSET Blocks :
                  /\ x # Entry => Entry \in T
                  /\ \A b \in T, c \in Blocks : <<b, c>> \in g /\ c # x => c \in T
                  => Avoids(g, x) \subseteq T
           /\ x \notin Avoids(g, x)
           /\ \A b \in Blocks : x \in Doms(g)[b] <=> b \notin Avoids(g, x)
<1>1. \A b \in Blocks : Succs(g)[b] = {c \in Blocks : <<b, c>> \in g}
  BY DEF Succs
<1>2. /\ Closed(Succs(g), {Entry}, {x}, Avoids(g, x))
      /\ \A T \in SUBSET Blocks :
             Closed(Succs(g), {Entry}, {x}, T) => Avoids(g, x) \subseteq T
      /\ Avoids(g, x) \in SUBSET Blocks
  <2>1. /\ {Entry} \in SUBSET Blocks
        /\ \A b \in Blocks : Succs(g)[b] \subseteq Blocks
    BY <1>1, EntryAndExit
  <2>2. Avoids(g, x) \in SUBSET Blocks
    BY DEF Avoids, Reached
  <2> QED
    BY <2>1, <2>2, ReachedLeast DEF Avoids
<1>3. ASSUME NEW T \in SUBSET Blocks
      PROVE  Closed(Succs(g), {Entry}, {x}, T)
             <=> /\ x # Entry => Entry \in T
                 /\ \A b \in T, c \in Blocks : <<b, c>> \in g /\ c # x => c \in T
  BY <1>1 DEF Closed
<1>4. \A T \in SUBSET Blocks :
          /\ x # Entry => Entry \in T
          /\ \A b \in T, c \in Blocks : <<b, c>> \in g /\ c # x => c \in T
          => Avoids(g, x) \subseteq T
  BY <1>2, <1>3
<1>5. x \notin Avoids(g, x)
  <2>1. Avoids(g, x) \subseteq Blocks \ {x}
    BY <1>4, EntryAndExit
  <2> QED
    BY <2>1
<1>6. \A b \in Blocks : x \in Doms(g)[b] <=> b \notin Avoids(g, x)
  BY DEF Doms, OnPathsFrom, OnAllPaths, Avoids
<1>7. /\ x # Entry => Entry \in Avoids(g, x)
      /\ \A b \in Avoids(g, x), c \in Blocks :
             <<b, c>> \in g /\ c # x => c \in Avoids(g, x)
  BY <1>2, <1>3
<1> QED
  BY <1>2, <1>4, <1>5, <1>6, <1>7

\* Dominance is reflexive, transitive, and antisymmetric on what is reached.
LEMMA DominanceOrder ==
    ASSUME NEW g
    PROVE  /\ \A x \in Blocks : x \in Doms(g)[x]
           /\ \A x, y, z \in Blocks :
                  x \in Doms(g)[y] /\ y \in Doms(g)[z] => x \in Doms(g)[z]
           /\ \A x \in Live(g), y \in Blocks :
                  x \in Doms(g)[y] /\ y \in Doms(g)[x] => x = y
<1>1. \A x \in Blocks : x \in Doms(g)[x]
  BY AvoidsFacts
<1>2. ASSUME NEW x \in Blocks, NEW y \in Blocks, NEW z \in Blocks,
             x \in Doms(g)[y], y \in Doms(g)[z]
      PROVE  x \in Doms(g)[z]
  <2> DEFINE T == Avoids(g, x) \cap Avoids(g, y)
  <2>1. y \notin Avoids(g, x) /\ z \notin Avoids(g, y)
    BY <1>2, AvoidsFacts
  <2>2. T \in SUBSET Blocks
    BY AvoidsFacts
  <2>3. x # Entry => Entry \in T
    BY <2>1, EntryAndExit, AvoidsFacts
  <2>4. \A b \in T, c \in Blocks : <<b, c>> \in g /\ c # x => c \in T
    BY <2>1, AvoidsFacts
  <2>5. Avoids(g, x) \subseteq T
    <3> HIDE DEF T
    <3> QED
      BY <2>2, <2>3, <2>4, AvoidsFacts
  <2> QED
    BY <2>1, <2>5, AvoidsFacts
<1>3. ASSUME NEW x \in Live(g), NEW y \in Blocks,
             x \in Doms(g)[y], y \in Doms(g)[x], x # y
      PROVE  FALSE
  <2> DEFINE T == Avoids(g, x) \cap Avoids(g, y)
  <2>1. x \in Blocks
    BY DEF Live, Reached
  <2>2. y \notin Avoids(g, x) /\ x \notin Avoids(g, y) /\ x \notin Avoids(g, x)
    BY <1>3, <2>1, AvoidsFacts
  <2>3. T \in SUBSET Blocks
    BY <2>1, AvoidsFacts
  <2>4. Entry \in T
    BY <1>3, <2>1, <2>2, AvoidsFacts
  <2>5. \A b \in T, c \in Blocks : <<b, c>> \in g => c \in T
    BY <1>3, <2>1, <2>2, AvoidsFacts
  <2>6. Live(g) \subseteq T
    <3> HIDE DEF T
    <3> QED
      BY <2>3, <2>4, <2>5, LiveFacts
  <2> QED
    BY <2>2, <2>6
<1> QED
  BY <1>1, <1>2, <1>3

\* Of two blocks that dominate one that is reached, one dominates the other.
LEMMA DominatorsChain ==
    ASSUME NEW g, NEW b \in Live(g), NEW x \in Blocks, NEW y \in Blocks,
           x \in Doms(g)[b], y \in Doms(g)[b]
    PROVE  x \in Doms(g)[y] \/ y \in Doms(g)[x]
<1> SUFFICES ASSUME x \notin Doms(g)[y], y \notin Doms(g)[x]
             PROVE  FALSE
  OBVIOUS
<1> DEFINE T == Avoids(g, x) \cup Avoids(g, y)
<1>1. b \in Blocks
  BY DEF Live, Reached
<1>2. y \in Avoids(g, x) /\ x \in Avoids(g, y)
  BY AvoidsFacts
<1>3. b \notin T
  BY <1>1, AvoidsFacts
<1>4. T \in SUBSET Blocks
  BY AvoidsFacts
<1>5. Entry \in T
  BY <1>2, AvoidsFacts
<1>6. \A a \in T, c \in Blocks : <<a, c>> \in g => c \in T
  BY <1>2, AvoidsFacts
<1>7. Live(g) \subseteq T
  <2> HIDE DEF T
  <2> QED
    BY <1>4, <1>5, <1>6, LiveFacts
<1> QED
  BY <1>3, <1>7

-----------------------------------------------------------------------------
(* The sources of the back edges to h, and what reaches one without h.     *)
Latches(g, h) == {b \in Blocks : <<b, h>> \in g /\ h \in Doms(g)[b]}
Inside(g, h)  == Reached(Preds(g), Latches(g, h), {h})
Headers(g)    == HeadersOf(g, Doms(g))
LoopsIn(g)    == LoopsOf(g, Doms(g))

\* The headers are the targets of the edges to what dominates their source.
LEMMA HeadersFacts ==
    ASSUME NEW g \in Graphs
    PROVE  /\ Headers(g) \subseteq Live(g) \ {Entry}
           /\ \A h \in Blocks : h \in Headers(g) <=> Latches(g, h) # {}
           /\ \A h \in Headers(g) : LoopsIn(g)[h] = {h} \cup Inside(g, h)
           /\ DOMAIN LoopsIn(g) = Headers(g)
<1>1. \A e \in g : /\ e = <<e[1], e[2]>> /\ e[1] \in Blocks /\ e[2] \in Blocks
                   /\ e[2] # Entry /\ e[1] \in Live(g)
  <2>1. g \subseteq Blocks \X Blocks
    BY GraphsAssumption
  <2>2. \A e \in g : e[2] # Entry /\ e[1] \in Live(g)
    BY ScanAssumption DEF Live
  <2> QED
    BY <2>1, <2>2
<1>2. \A e \in g : e[2] \in Live(g)
  BY <1>1, LiveFacts
<1>3. \A h : h \in Headers(g) <=> \E e \in g : e[2] = h /\ h \in Doms(g)[e[1]]
  BY DEF Headers, HeadersOf, BackEdges
<1>4. ASSUME NEW h \in Blocks
      PROVE  h \in Headers(g) <=> Latches(g, h) # {}
  <2>1. ASSUME NEW e \in g, e[2] = h, h \in Doms(g)[e[1]]
        PROVE  e[1] \in Latches(g, h)
    BY <1>1, <2>1 DEF Latches
  <2>2. ASSUME NEW b \in Latches(g, h)
        PROVE  \E e \in g : e[2] = h /\ h \in Doms(g)[e[1]]
    <3>1. <<b, h>> \in g /\ h \in Doms(g)[b]
      BY DEF Latches
    <3> QED
      BY <3>1
  <2> QED
    BY <1>3, <2>1, <2>2
<1>5. ASSUME NEW h \in Headers(g)
      PROVE  LoopsIn(g)[h] = {h} \cup Inside(g, h)
  <2>1. {e[1] : e \in {e \in BackEdges(g, Doms(g)) : e[2] = h}} = Latches(g, h)
    BY <1>1 DEF Latches, BackEdges
  <2> QED
    BY <2>1 DEF LoopsIn, LoopsOf, LoopOf, Inside, Headers
<1> QED
  BY <1>1, <1>2, <1>3, <1>4, <1>5 DEF LoopsIn, LoopsOf, Headers

\* What is inside a loop is closed, and part of whatever is closed.
LEMMA InsideFacts ==
    ASSUME NEW g \in Graphs, NEW h \in Blocks
    PROVE  /\ Inside(g, h) \in SUBSET (Blocks \ {h})
           /\ \A b \in Blocks \ {h} :
                  \/ <<b, h>> \in g /\ h \in Doms(g)[b]
                  \/ \E c \in Inside(g, h) : <<b, c>> \in g
                  => b \in Inside(g, h)
<1>1. \A b \in Blocks : Preds(g)[b] = {c \in Blocks : <<c, b>> \in g}
  BY DEF Preds
<1>2. ASSUME NEW T \in SUBSET Blocks
      PROVE  Closed(Preds(g), Latches(g, h), {h}, T)
             <=> \A b \in Blocks \ {h} :
                     \/ <<b, h>> \in g /\ h \in Doms(g)[b]
                     \/ \E c \in T : <<b, c>> \in g
                     => b \in T
  BY <1>1 DEF Closed, Latches
<1>3. /\ Closed(Preds(g), Latches(g, h), {h}, Inside(g, h))
      /\ \A T \in SUBSET Blocks :
             Closed(Preds(g), Latches(g, h), {h}, T) => Inside(g, h) \subseteq T
      /\ Inside(g, h) \in SUBSET Blocks
  <2>1. /\ Latches(g, h) \in SUBSET Blocks
        /\ \A b \in Blocks : Preds(g)[b] \subseteq Blocks
    BY <1>1 DEF Latches
  <2>2. Inside(g, h) \in SUBSET Blocks
    BY DEF Inside, Reached
  <2> QED
    BY <2>1, <2>2, ReachedLeast DEF Inside
<1>4. h \notin Inside(g, h)
  <2>1. Closed(Preds(g), Latches(g, h), {h}, Blocks \ {h})
    BY <1>1 DEF Closed, Latches
  <2> QED
    BY <1>3, <2>1
<1>5. \A b \in Blocks \ {h} :
          \/ <<b, h>> \in g /\ h \in Doms(g)[b]
          \/ \E c \in Inside(g, h) : <<b, c>> \in g
          => b \in Inside(g, h)
  BY <1>2, <1>3
<1> QED
  BY <1>3, <1>4, <1>5

\* The inside of a loop is the least set with its latches that is closed backwards.
LEMMA InsideLeast ==
    ASSUME NEW g \in Graphs, NEW h \in Blocks, NEW T \in SUBSET Blocks,
           \A b \in Blocks \ {h} :
               \/ <<b, h>> \in g /\ h \in Doms(g)[b]
               \/ \E c \in T : <<b, c>> \in g
               => b \in T
    PROVE  Inside(g, h) \subseteq T
<1>1. Closed(Preds(g), Latches(g, h), {h}, T)
  BY DEF Closed, Latches, Preds
<1> QED
  BY <1>1 DEF Inside, Reached

\* A header dominates what is in its loop, and all of it is reached.
LEMMA HeaderDominates ==
    ASSUME NEW g \in Graphs, NEW h \in Headers(g), NEW b \in LoopsIn(g)[h]
    PROVE  h \in Doms(g)[b] /\ b \in Live(g) /\ h \in Blocks /\ b \in Blocks
<1> DEFINE T == {c \in Blocks \ {h} : h \in Doms(g)[c] /\ c \in Live(g)}
<1>1. h \in Blocks /\ h \in Live(g)
  BY HeadersFacts DEF Live, Reached
<1>2. ASSUME NEW c \in Blocks, NEW d \in Blocks, <<c, d>> \in g
      PROVE  c \in Live(g)
  BY <1>2, ScanAssumption DEF Live
<1>3. ASSUME NEW c \in Blocks \ {h},
             \/ <<c, h>> \in g /\ h \in Doms(g)[c]
             \/ \E d \in T : <<c, d>> \in g
      PROVE  c \in T
  <2>1. CASE <<c, h>> \in g /\ h \in Doms(g)[c]
    BY <1>1, <1>2, <2>1
  <2>2. CASE \E d \in T : <<c, d>> \in g
    <3>1. PICK d \in T : <<c, d>> \in g
      BY <2>2
    <3>2. d \notin Avoids(g, h)
      BY <1>1, <3>1, AvoidsFacts
    <3>3. c \notin Avoids(g, h)
      BY <1>1, <3>1, <3>2, AvoidsFacts
    <3> QED
      BY <1>1, <1>2, <3>1, <3>3, AvoidsFacts
  <2> QED
    BY <1>3, <2>1, <2>2
<1>4. Inside(g, h) \subseteq T
  <2>1. T \in SUBSET Blocks
    OBVIOUS
  <2> HIDE DEF T
  <2> QED
    BY <1>1, <1>3, <2>1, InsideLeast
<1>5. h \in Doms(g)[h]
  BY <1>1, DominanceOrder
<1>6. b = h \/ b \in Inside(g, h)
  BY HeadersFacts
<1> QED
  BY <1>1, <1>4, <1>5, <1>6

-----------------------------------------------------------------------------
(* The headers of the loops around each block, but its own.                *)
AroundAll(g) == [b \in Blocks |-> Around(LoopsIn(g), b)]

\* The headers of the loops around a block are those that it is inside of.
LEMMA AroundFacts ==
    ASSUME NEW g \in Graphs
    PROVE  /\ AroundAll(g) \in [Blocks -> SUBSET Blocks]
           /\ \A b, h \in Blocks :
                  h \in AroundAll(g)[b] <=> h \in Headers(g) /\ b \in Inside(g, h)
<1>1. ASSUME NEW b \in Blocks
      PROVE  AroundAll(g)[b] = {h \in Headers(g) \ {b} : b \in LoopsIn(g)[h]}
  BY HeadersFacts DEF AroundAll, Around
<1>2. Headers(g) \subseteq Blocks
  BY HeadersFacts DEF Live, Reached
<1>3. ASSUME NEW b \in Blocks, NEW h \in Blocks
      PROVE  h \in AroundAll(g)[b] <=> h \in Headers(g) /\ b \in Inside(g, h)
  <2>1. h \in Headers(g) => LoopsIn(g)[h] = {h} \cup Inside(g, h)
    BY HeadersFacts
  <2>2. h \notin Inside(g, h)
    BY InsideFacts
  <2> QED
    BY <1>1, <2>1, <2>2
<1>4. AroundAll(g) \in [Blocks -> SUBSET Blocks]
  BY <1>1, <1>2 DEF AroundAll
<1> QED
  BY <1>3, <1>4

(* The problem that LoopInfoBuilder gives to the engine.                   *)
LoopsAsked(g) == LoopProblem(g, Doms(g), Headers(g))

\* What it says of a block, written out.
LEMMA LoopsOut ==
    ASSUME NEW g \in Graphs, NEW o \in [Blocks -> SUBSET Blocks], NEW b \in Blocks
    PROVE  /\ Out(LoopsAsked(g), o, b) \in SUBSET Blocks
           /\ \A h \in Blocks :
                  h \in Out(LoopsAsked(g), o, b) <=>
                      \/ /\ \E c \in Blocks : <<b, c>> \in g /\ h \in o[c]
                         /\ ~ (h = b /\ b \in Headers(g))
                      \/ <<b, h>> \in g /\ h # b /\ h \in Doms(g)[b]
<1> DEFINE p == LoopsAsked(g)
<1>1. /\ p.merge = "any"
      /\ p.from[b] = {c \in Blocks : <<b, c>> \in g}
      /\ p.gen[b] = {c \in Blocks : <<b, c>> \in g /\ c # b /\ c \in Doms(g)[b]}
      /\ p.kill[b] = IF b \in Headers(g) THEN {b} ELSE {}
  BY DEF LoopsAsked, LoopProblem, Succs
<1> HIDE DEF p
<1>2. In(p, o, b) = {h \in Blocks : \E c \in Blocks : <<b, c>> \in g /\ h \in o[c]}
  BY <1>1, FactsAssumption DEF In
<1>3. Out(p, o, b) = (In(p, o, b) \ p.kill[b]) \cup p.gen[b]
  BY DEF Out
<1>4. Out(p, o, b) \in SUBSET Blocks
  BY <1>1, <1>2, <1>3
<1>5. ASSUME NEW h \in Blocks
      PROVE  h \in Out(p, o, b) <=>
                 \/ /\ \E c \in Blocks : <<b, c>> \in g /\ h \in o[c]
                    /\ ~ (h = b /\ b \in Headers(g))
                 \/ <<b, h>> \in g /\ h # b /\ h \in Doms(g)[b]
  BY <1>1, <1>2, <1>3
<1> QED
  BY <1>4, <1>5 DEF p

\* The loops around the blocks are a solution,
LEMMA AroundSolves ==
    ASSUME NEW g \in Graphs
    PROVE  Solves(LoopsAsked(g), AroundAll(g))
<1> DEFINE D == AroundAll(g)
<1>1. /\ D \in [Blocks -> SUBSET Blocks]
      /\ \A b, h \in Blocks : h \in D[b] <=> h \in Headers(g) /\ b \in Inside(g, h)
  BY AroundFacts
<1> HIDE DEF D
<1>2. ASSUME NEW b \in Blocks, NEW h \in Blocks
      PROVE  h \in D[b] <=> h \in Out(LoopsAsked(g), D, b)
  <2>1. ASSUME h \in Out(LoopsAsked(g), D, b)
        PROVE  h \in D[b]
    <3>1. CASE <<b, h>> \in g /\ h # b /\ h \in Doms(g)[b]
      <4>1. h \in Headers(g)
        BY <3>1, HeadersFacts DEF Latches
      <4> QED
        BY <1>1, <3>1, <4>1, InsideFacts
    <3>2. CASE /\ \E c \in Blocks : <<b, c>> \in g /\ h \in D[c]
               /\ ~ (h = b /\ b \in Headers(g))
      <4>1. PICK c \in Blocks : <<b, c>> \in g /\ h \in D[c]
        BY <3>2
      <4>2. h \in Headers(g) /\ c \in Inside(g, h) /\ b # h
        BY <1>1, <3>2, <4>1
      <4> QED
        BY <1>1, <4>1, <4>2, InsideFacts
    <3> QED
      BY <1>1, <2>1, <3>1, <3>2, LoopsOut
  <2>2. ASSUME h \in D[b], h \notin Out(LoopsAsked(g), D, b)
        PROVE  FALSE
    <3> DEFINE T == Inside(g, h) \ {b}
    <3>1. h \in Headers(g) /\ b \in Inside(g, h) /\ h # b
      BY <1>1, <2>2, InsideFacts
    <3>2. /\ ~ (<<b, h>> \in g /\ h \in Doms(g)[b])
          /\ \A c \in Blocks : <<b, c>> \in g => c \notin Inside(g, h)
      BY <1>1, <2>2, <3>1, LoopsOut
    <3>3. T \in SUBSET Blocks
      BY InsideFacts
    <3>4. ASSUME NEW d \in Blocks \ {h},
                 \/ <<d, h>> \in g /\ h \in Doms(g)[d]
                 \/ \E c \in T : <<d, c>> \in g
          PROVE  d \in T
      <4>1. d # b
        BY <3>2, <3>3, <3>4
      <4> QED
        BY <3>4, <4>1, InsideFacts
    <3>5. Inside(g, h) \subseteq T
      <4> HIDE DEF T
      <4> QED
        BY <3>1, <3>3, <3>4, InsideLeast, HeadersFacts
    <3> QED
      BY <3>1, <3>5
  <2> QED
    BY <2>1, <2>2
<1>3. \A b \in Blocks : D[b] = Out(LoopsAsked(g), D, b)
  <2> TAKE b \in Blocks
  <2>1. D[b] \in SUBSET Blocks /\ Out(LoopsAsked(g), D, b) \in SUBSET Blocks
    BY <1>1, LoopsOut
  <2> QED
    BY <1>2, <2>1
<1> QED
  BY <1>1, <1>3, FactsAssumption DEF Solves, D

\* ... and part of every solution.
LEMMA AroundLeast ==
    ASSUME NEW g \in Graphs, NEW o, Solves(LoopsAsked(g), o), NEW b \in Blocks
    PROVE  AroundAll(g)[b] \subseteq o[b]
<1>1. /\ o \in [Blocks -> SUBSET Blocks]
      /\ \A c \in Blocks : o[c] = Out(LoopsAsked(g), o, c)
  BY FactsAssumption DEF Solves
<1> SUFFICES ASSUME NEW h \in AroundAll(g)[b]
             PROVE  h \in o[b]
  OBVIOUS
<1>2. h \in Blocks /\ h \in Headers(g) /\ b \in Inside(g, h)
  BY AroundFacts
<1> DEFINE T == {c \in Blocks : h \in o[c]}
<1>3. ASSUME NEW c \in Blocks \ {h},
             \/ <<c, h>> \in g /\ h \in Doms(g)[c]
             \/ \E d \in T : <<c, d>> \in g
      PROVE  c \in T
  <2>1. h \in Out(LoopsAsked(g), o, c)
    BY <1>1, <1>2, <1>3, LoopsOut
  <2> QED
    BY <1>1, <2>1
<1>4. Inside(g, h) \subseteq T
  <2>1. T \in SUBSET Blocks
    OBVIOUS
  <2> HIDE DEF T
  <2> QED
    BY <1>2, <1>3, <2>1, InsideLeast
<1> QED
  BY <1>2, <1>4

\* The engine ends with them.
LEMMA EngineFindsLoops ==
    ASSUME IInv, todo = <<>>, NEW g \in Graphs, problem = LoopsAsked(g)
    PROVE  outs = AroundAll(g)
<1>1. Solves(problem, outs) /\ outs \in [Blocks -> SUBSET Facts]
  BY DEF IInv, QueueMatches, InTodo, Settled, Solves, DFATypeOK
<1>2. problem.merge # "all"
  BY DEF LoopsAsked, LoopProblem
<1>3. \A b \in Blocks : outs[b] \subseteq AroundAll(g)[b]
  BY <1>2, AroundSolves DEF IInv, Ahead, Better
<1>4. \A b \in Blocks : AroundAll(g)[b] \subseteq outs[b]
  BY <1>1, AroundLeast
<1>5. AroundAll(g) \in [Blocks -> SUBSET Blocks]
  BY AroundFacts
<1>6. \A b \in Blocks : outs[b] = AroundAll(g)[b]
  BY <1>3, <1>4
<1> QED
  BY <1>1, <1>5, <1>6

-----------------------------------------------------------------------------
\* A non-empty set of naturals has a least element.
LEMMA LeastNatural ==
    ASSUME NEW T \in SUBSET Nat, T # {}
    PROVE  \E x \in T : \A y \in T : x <= y
<1> DEFINE R == {ss \in Nat \X Nat : ss[1] < ss[2]}
<1>1. IsWellFoundedOn(R, Nat)
  BY NatLessThanWellFounded, Zenon DEF OpToRel
<1>2. PICK x \in T : \A y \in T : ~ (<<y, x>> \in R)
  BY <1>1, WFMin, Zenon
<1>3. \A y \in T : ~ (y < x)
  BY <1>2
<1> QED
  BY <1>3

\* Induction over the naturals, said of the set of those that satisfy it.
LEMMA AllNaturals ==
    ASSUME NEW T \in SUBSET Nat, 0 \in T, \A n \in T : n + 1 \in T
    PROVE  T = Nat
<1> SUFFICES ASSUME Nat \ T # {}
             PROVE  FALSE
  OBVIOUS
<1>1. PICK x \in Nat \ T : \A y \in Nat \ T : x <= y
  <2>1. Nat \ T \in SUBSET Nat
    OBVIOUS
  <2> QED
    BY <2>1, LeastNatural
<1>2. x - 1 \in Nat /\ ~ (x <= x - 1) /\ (x - 1) + 1 = x
  BY <1>1
<1>3. x - 1 \in T
  BY <1>1, <1>2
<1> QED
  BY <1>1, <1>2, <1>3

-----------------------------------------------------------------------------
Elements(s) == {s[i] : i \in 1 .. Len(s)}

(* No header comes before one that it dominates.                           *)
Ordered(g, s) ==
    /\ s \in Seq(Headers(g))
    /\ \A i, j \in 1 .. Len(s) : s[i] \in Doms(g)[s[j]] => j <= i

\* What put before the first of those that dominate it, a header is in order.
LEMMA InsertKeepsOrder ==
    ASSUME NEW g \in Graphs, NEW s, Ordered(g, s),
           NEW h \in Headers(g), h \notin Elements(s)
    PROVE  /\ Ordered(g, Insert(Doms(g), s, h))
           /\ Elements(Insert(Doms(g), s, h)) = Elements(s) \cup {h}
<1> DEFINE t == Insert(Doms(g), s, h)
           B == Before(Doms(g), s, h)
<1>1. s \in Seq(Headers(g)) /\ Len(s) \in Nat
  BY DEF Ordered
<1>2. \A i \in 1 .. Len(s) : s[i] \in Headers(g) /\ s[i] # h
  BY <1>1 DEF Elements
<1>3. \A k \in Headers(g) : k \in Live(g) /\ k \in Blocks
  BY HeadersFacts DEF Live, Reached
<1>4. \A i, j \in 1 .. Len(s) : s[i] \in Doms(g)[s[j]] => j <= i
  BY DEF Ordered
<1>5. B = {i \in 1 .. Len(s) : s[i] \in Doms(g)[h]}
  BY DEF Before
<1>6. CASE B = {}
  <2>1. t = Append(s, h)
    BY <1>6 DEF Insert
  <2> HIDE DEF t, B
  <2>2. /\ t \in Seq(Headers(g)) /\ Len(t) = Len(s) + 1
        /\ \A i \in 1 .. Len(s) : t[i] = s[i]
        /\ t[Len(s) + 1] = h
    BY <1>1, <2>1
  <2>3. Elements(t) = Elements(s) \cup {h}
    BY <1>1, <2>2 DEF Elements
  <2>4. ASSUME NEW i \in 1 .. Len(t), NEW j \in 1 .. Len(t), t[i] \in Doms(g)[t[j]]
        PROVE  j <= i
    <3>1. CASE i = Len(s) + 1
      BY <1>1, <2>2, <3>1
    <3>2. CASE i \in 1 .. Len(s) /\ j = Len(s) + 1
      BY <1>5, <1>6, <2>2, <2>4, <3>2
    <3>3. CASE i \in 1 .. Len(s) /\ j \in 1 .. Len(s)
      BY <1>4, <2>2, <2>4, <3>3
    <3> QED
      BY <1>1, <2>2, <3>1, <3>2, <3>3
  <2> QED
    BY <2>2, <2>3, <2>4 DEF Ordered, t
<1>7. CASE B # {}
  <2> DEFINE p == CHOOSE i \in B : \A j \in B : i <= j
  <2>1. p \in B /\ \A j \in B : p <= j
    <3>1. B \in SUBSET Nat
      BY <1>1, <1>5
    <3> HIDE DEF B
    <3> QED
      BY <1>7, <3>1, LeastNatural
  <2>2. t = SubSeq(s, 1, p - 1) \o <<h>> \o SubSeq(s, p, Len(s))
    BY <1>7 DEF Insert
  <2> HIDE DEF t, B, p
  <2>3. p \in 1 .. Len(s) /\ s[p] \in Doms(g)[h]
    BY <1>5, <2>1
  <2>4. /\ SubSeq(s, 1, p - 1) \in Seq(Headers(g))
        /\ Len(SubSeq(s, 1, p - 1)) = p - 1
        /\ \A i \in 1 .. p - 1 : SubSeq(s, 1, p - 1)[i] = s[i]
    BY <1>1, <2>3
  <2>5. /\ SubSeq(s, p, Len(s)) \in Seq(Headers(g))
        /\ Len(SubSeq(s, p, Len(s))) = Len(s) - p + 1
        /\ \A i \in 1 .. Len(s) - p + 1 : SubSeq(s, p, Len(s))[i] = s[p + i - 1]
    BY <1>1, <2>3
  <2>6. /\ t \in Seq(Headers(g)) /\ Len(t) = Len(s) + 1
        /\ \A i \in 1 .. p - 1 : t[i] = s[i]
        /\ t[p] = h
        /\ \A i \in p + 1 .. Len(s) + 1 : t[i] = s[i - 1]
    <3> DEFINE a == SubSeq(s, 1, p - 1)
               c == SubSeq(s, p, Len(s))
               u == a \o <<h>>
    <3>1. <<h>> \in Seq(Headers(g)) /\ Len(<<h>>) = 1 /\ <<h>>[1] = h
      OBVIOUS
    <3> HIDE DEF a, c
    <3>2. /\ u \in Seq(Headers(g)) /\ Len(u) = p
          /\ \A i \in 1 .. p - 1 : u[i] = s[i]
          /\ u[p] = h
      <4>1. a \in Seq(Headers(g)) /\ Len(a) = p - 1 /\ \A i \in 1 .. p - 1 : a[i] = s[i]
        BY <2>4 DEF a
      <4> QED
        BY <1>1, <2>3, <3>1, <4>1
    <3> HIDE DEF u
    <3>3. t = u \o c
      BY <2>2 DEF u, a, c
    <3>4. /\ c \in Seq(Headers(g)) /\ Len(c) = Len(s) - p + 1
      BY <2>5 DEF c
    <3>5. t \in Seq(Headers(g)) /\ Len(t) = Len(s) + 1
      <4>1. t \in Seq(Headers(g)) /\ Len(t) = Len(u) + Len(c)
        BY <3>2, <3>3, <3>4
      <4> QED
        BY <1>1, <2>3, <3>2, <3>4, <4>1
    <3>6. \A i \in 1 .. p : t[i] = u[i]
      BY <1>1, <2>3, <3>2, <3>3, <3>4
    <3>7. ASSUME NEW i \in p + 1 .. Len(s) + 1
          PROVE  t[i] = s[i - 1]
      <4>1. t[i] = c[i - p]
        BY <1>1, <2>3, <3>2, <3>3, <3>4
      <4>2. i - p \in 1 .. Len(s) - p + 1 /\ p + (i - p) - 1 = i - 1
        BY <1>1, <2>3
      <4> QED
        BY <2>5, <4>1, <4>2 DEF c
    <3> QED
      BY <1>1, <2>3, <3>2, <3>5, <3>6, <3>7
  <2>7. Elements(t) = Elements(s) \cup {h}
    <3>1. ASSUME NEW i \in 1 .. Len(t)
          PROVE  t[i] = h \/ \E j \in 1 .. Len(s) : t[i] = s[j]
      <4>1. i \in 1 .. p - 1 => i \in 1 .. Len(s)
        BY <1>1, <2>3
      <4>2. i \in p + 1 .. Len(s) + 1 => i - 1 \in 1 .. Len(s)
        BY <1>1, <2>3
      <4>3. i \in 1 .. p - 1 \/ i = p \/ i \in p + 1 .. Len(s) + 1
        BY <1>1, <2>3, <2>6
      <4> QED
        BY <2>6, <4>1, <4>2, <4>3
    <3>2. ASSUME NEW j \in 1 .. Len(s)
          PROVE  \E i \in 1 .. Len(t) : t[i] = s[j]
      <4>1. CASE j < p
        BY <1>1, <2>3, <2>6, <4>1
      <4>2. CASE ~ (j < p)
        <5>1. j + 1 \in p + 1 .. Len(s) + 1 /\ (j + 1) - 1 = j /\ j + 1 \in 1 .. Len(t)
          BY <1>1, <2>3, <2>6, <4>2
        <5> QED
          BY <2>6, <5>1
      <4> QED
        BY <4>1, <4>2
    <3>3. p \in 1 .. Len(t)
      BY <1>1, <2>3, <2>6
    <3>4. \A x : x \in Elements(t) <=> x = h \/ x \in Elements(s)
      BY <2>6, <3>1, <3>2, <3>3 DEF Elements
    <3> QED
      BY <3>4
  <2>8. ASSUME NEW i \in 1 .. Len(t), NEW j \in 1 .. Len(t), t[i] \in Doms(g)[t[j]]
        PROVE  j <= i
    <3> DEFINE O(k) == IF k < p THEN k ELSE k - 1
    <3>1. \A k \in 1 .. Len(t) : k # p => O(k) \in 1 .. Len(s) /\ t[k] = s[O(k)]
      BY <1>1, <2>3, <2>6
    <3>2. CASE i # p /\ j # p
      <4>1. O(j) <= O(i)
        BY <1>4, <2>8, <3>1, <3>2
      <4> QED
        BY <1>1, <2>3, <2>6, <3>2, <4>1
    <3>3. CASE i = p
      <4> SUFFICES ASSUME ~ (j <= i)
                   PROVE  FALSE
        OBVIOUS
      <4>1. j # p /\ O(j) = j - 1 /\ j - 1 >= p
        BY <1>1, <2>3, <2>6, <3>3
      <4>2. h \in Doms(g)[s[j - 1]] /\ j - 1 \in 1 .. Len(s)
        BY <2>6, <2>8, <3>1, <3>3, <4>1
      <4>3. s[p] \in Doms(g)[s[j - 1]]
        BY <1>2, <1>3, <2>3, <4>2, DominanceOrder
      <4>4. j - 1 = p
        BY <1>1, <1>4, <2>3, <2>6, <4>1, <4>2, <4>3
      <4>5. h = s[p]
        BY <1>2, <1>3, <2>3, <4>2, <4>4, DominanceOrder
      <4> QED
        BY <1>2, <2>3, <4>5
    <3>4. CASE i # p /\ j = p
      <4> SUFFICES ASSUME i < p
                   PROVE  FALSE
        BY <1>1, <2>3, <2>6, <3>4
      <4>1. i \in 1 .. Len(s) /\ s[i] \in Doms(g)[h]
        BY <1>1, <2>3, <2>6, <2>8, <3>4
      <4>2. p <= i
        BY <1>5, <2>1, <4>1
      <4> QED
        BY <1>1, <2>3, <4>1, <4>2
    <3> QED
      BY <3>2, <3>3, <3>4
  <2> QED
    BY <2>6, <2>7, <2>8 DEF Ordered, t
<1> QED
  BY <1>6, <1>7

-----------------------------------------------------------------------------
\* The list of the constructor has all the headers, in order.
LEMMA HeadersAreSorted ==
    ASSUME NEW g \in Graphs
    PROVE  /\ Ordered(g, SortedHeaders(Doms(g), Headers(g)))
           /\ Elements(SortedHeaders(Doms(g), Headers(g))) = Headers(g)
<1> DEFINE d == Doms(g)
           H == Headers(g)
           F(m, S) == [n \in 0 .. m |->
                          IF n = Entry THEN <<>>
                          ELSE IF n \in H THEN Insert(d, S[n - 1], n) ELSE S[n - 1]]
           S0 == CHOOSE S : S = F(Exit, S)
<1>1. SortedHeaders(d, H) = S0[Exit]
  BY DEF SortedHeaders
<1>2. \E S : S = F(Exit, S)
  <2> DEFINE T == {m \in Nat : \E S : S = F(m, S)}
  <2>1. 0 \in T
    <3> DEFINE S == [n \in 0 .. 0 |-> <<>>]
    <3>1. \A n \in 0 .. 0 : n = Entry
      BY DEF Entry
    <3>2. S = F(0, S)
      BY <3>1
    <3> QED
      BY <3>2
  <2>2. ASSUME NEW m \in T
        PROVE  m + 1 \in T
    <3>1. PICK S : S = F(m, S)
      BY <2>2
    <3> DEFINE U == [n \in 0 .. m + 1 |->
                        IF n \in 0 .. m THEN S[n]
                        ELSE IF n \in H THEN Insert(d, S[m], n) ELSE S[m]]
    <3> HIDE DEF d, H
    <3>2. ASSUME NEW n \in 0 .. m + 1
          PROVE  U[n] = F(m + 1, U)[n]
      <4>1. CASE n = 0
        BY <3>1, <4>1 DEF Entry
      <4>2. CASE n \in 1 .. m
        <5>1. n \in 0 .. m /\ n - 1 \in 0 .. m /\ n - 1 \in 0 .. m + 1 /\ n # 0
          BY <4>2
        <5>2. U[n] = S[n] /\ U[n - 1] = S[n - 1]
          BY <5>1
        <5>3. S[n] = IF n \in H THEN Insert(d, S[n - 1], n) ELSE S[n - 1]
          BY <3>1, <5>1 DEF Entry
        <5> HIDE DEF U
        <5>4. F(m + 1, U)[n] = IF n \in H THEN Insert(d, U[n - 1], n) ELSE U[n - 1]
          BY <5>1 DEF Entry
        <5> QED
          BY <5>2, <5>3, <5>4
      <4>3. CASE n = m + 1
        <5>1. n \notin 0 .. m /\ n - 1 = m /\ m \in 0 .. m /\ m \in 0 .. m + 1 /\ n # 0
          BY <4>3
        <5>2. U[m] = S[m]
          BY <5>1
        <5>3. U[n] = IF n \in H THEN Insert(d, S[m], n) ELSE S[m]
          BY <5>1
        <5> HIDE DEF U
        <5>4. F(m + 1, U)[n] = IF n \in H THEN Insert(d, U[n - 1], n) ELSE U[n - 1]
          BY <5>1 DEF Entry
        <5> QED
          BY <5>1, <5>2, <5>3, <5>4
      <4> QED
        BY <4>1, <4>2, <4>3
    <3>3. U = F(m + 1, U)
      BY <3>2
    <3>4. \E V : V = F(m + 1, V)
      <4> HIDE DEF U, F
      <4> QED
        BY <3>3
    <3> QED
      BY <3>4
  <2>3. T = Nat
    <3> HIDE DEF T
    <3>1. T \in SUBSET Nat
      BY DEF T
    <3> QED
      BY <2>1, <2>2, <3>1, AllNaturals
  <2> QED
    BY <2>3, GraphsAssumption
<1>3. S0 = F(Exit, S0)
  BY <1>2
<1> HIDE DEF S0
<1>4. /\ S0[0] = <<>>
      /\ \A n \in 0 .. Exit : n + 1 <= Exit =>
             S0[n + 1] = IF n + 1 \in H THEN Insert(d, S0[n], n + 1) ELSE S0[n]
  <2> HIDE DEF d, H
  <2> QED
    BY <1>3, GraphsAssumption DEF Entry
<1> DEFINE T == {n \in Nat : n <= Exit =>
                     /\ Ordered(g, S0[n])
                     /\ Elements(S0[n]) = {h \in H : h <= n}}
<1>5. \A h \in H : h \in Blocks /\ h # 0 /\ h \in Nat
  BY HeadersFacts, GraphsAssumption DEF Live, Reached, Entry
<1>6. 0 \in T
  <2>1. Elements(<<>>) = {} /\ Ordered(g, <<>>)
    BY DEF Elements, Ordered
  <2>2. {h \in H : h <= 0} = {}
    BY <1>5
  <2> QED
    BY <1>4, <2>1, <2>2
<1>7. ASSUME NEW n \in T
      PROVE  n + 1 \in T
  <2> SUFFICES ASSUME n + 1 <= Exit
               PROVE  /\ Ordered(g, S0[n + 1])
                      /\ Elements(S0[n + 1]) = {h \in H : h <= n + 1}
    OBVIOUS
  <2>1. n \in 0 .. Exit /\ Ordered(g, S0[n]) /\ Elements(S0[n]) = {h \in H : h <= n}
    BY GraphsAssumption
  <2>2. CASE n + 1 \in H
    <3>1. n + 1 \notin Elements(S0[n])
      BY <2>1
    <3>2. {h \in H : h <= n + 1} = {h \in H : h <= n} \cup {n + 1}
      BY <1>5, <2>1, <2>2
    <3> QED
      BY <1>4, <2>1, <2>2, <3>1, <3>2, InsertKeepsOrder
  <2>3. CASE n + 1 \notin H
    <3>1. {h \in H : h <= n + 1} = {h \in H : h <= n}
      BY <1>5, <2>1, <2>3
    <3> QED
      BY <1>4, <2>1, <2>3, <3>1
  <2> QED
    BY <2>2, <2>3
<1>8. T = Nat
  <2>1. T \in SUBSET Nat
    OBVIOUS
  <2> HIDE DEF T
  <2> QED
    BY <1>6, <1>7, <2>1, AllNaturals
<1>9. {h \in H : h <= Exit} = H
  BY <1>5, GraphsAssumption
<1>10. Ordered(g, S0[Exit]) /\ Elements(S0[Exit]) = {h \in H : h <= Exit}
  <2>1. Exit \in T /\ Exit <= Exit
    BY <1>8, GraphsAssumption
  <2> QED
    BY <2>1
<1> QED
  BY <1>1, <1>9, <1>10

-----------------------------------------------------------------------------
\* Of headers that dominate one block, the first bit is the innermost and
\* the last bit the outermost.
LEMMA FirstAndLast ==
    ASSUME NEW g \in Graphs, Ordered(g, hdrs), Elements(hdrs) = Headers(g),
           NEW b \in Live(g), NEW S \in SUBSET Headers(g), S # {},
           \A h \in S : h \in Doms(g)[b]
    PROVE  /\ First(S) = Inner(Doms(g), S) /\ First(S) \in S
           /\ Last(S) = Outer(Doms(g), S) /\ Last(S) \in S
<1>1. hdrs \in Seq(Headers(g)) /\ Len(hdrs) \in Nat
  BY DEF Ordered
<1>2. \A i, j \in 1 .. Len(hdrs) : hdrs[i] \in Doms(g)[hdrs[j]] => j <= i
  BY DEF Ordered
<1>3. \A h \in S : h \in Live(g) /\ h \in Blocks
  BY HeadersFacts DEF Live, Reached
<1>4. \A h, k \in S : h \in Doms(g)[k] \/ k \in Doms(g)[h]
  BY <1>3, DominatorsChain
<1>5. \A h, k \in S : h \in Doms(g)[k] /\ k \in Doms(g)[h] => h = k
  BY <1>3, DominanceOrder
<1>6. \A h \in S : \E i \in Bits(S) : hdrs[i] = h
  BY DEF Elements, Bits
<1>7. Bits(S) \in SUBSET (1 .. Len(hdrs)) /\ Bits(S) # {}
  BY <1>6 DEF Bits
<1>8. \A i \in Bits(S) : hdrs[i] \in S /\ hdrs[i] \in Doms(g)[hdrs[i]]
  BY <1>3, DominanceOrder DEF Bits
<1>9. First(S) = Inner(Doms(g), S) /\ First(S) \in S
  <2>1. PICK i \in Bits(S) : \A j \in Bits(S) : i <= j
    <3>1. Bits(S) \in SUBSET Nat
      BY <1>1, <1>7
    <3> QED
      BY <1>7, <3>1, LeastNatural
  <2>2. \A k \in Bits(S) : (\A j \in Bits(S) : k <= j) => k = i
    BY <1>1, <1>7, <2>1
  <2>3. First(S) = hdrs[i]
    BY <2>1, <2>2 DEF First
  <2>4. ASSUME NEW k \in S
        PROVE  k \in Doms(g)[hdrs[i]]
    <3>1. PICK j \in Bits(S) : hdrs[j] = k
      BY <1>6
    <3>2. CASE hdrs[i] \in Doms(g)[k]
      <4>1. j <= i /\ i <= j
        BY <1>2, <1>7, <2>1, <3>1, <3>2
      <4>2. i = j
        BY <1>1, <1>7, <4>1
      <4> QED
        BY <1>8, <3>1, <4>2
    <3> QED
      BY <1>4, <1>8, <3>2
  <2>5. S \subseteq Doms(g)[hdrs[i]]
    BY <2>4
  <2>6. \A h \in S : S \subseteq Doms(g)[h] => h = hdrs[i]
    BY <1>5, <1>8, <2>5
  <2> QED
    BY <1>8, <2>3, <2>5, <2>6 DEF Inner
<1>10. Last(S) = Outer(Doms(g), S) /\ Last(S) \in S
  <2>1. PICK i \in Bits(S) : \A j \in Bits(S) : j <= i
    <3> DEFINE T == {Len(hdrs) - j : j \in Bits(S)}
    <3>1. T \in SUBSET Nat /\ T # {}
      BY <1>1, <1>7
    <3>2. PICK x \in T : \A y \in T : x <= y
      BY <3>1, LeastNatural
    <3>3. PICK i \in Bits(S) : x = Len(hdrs) - i
      BY <3>2
    <3>4. ASSUME NEW j \in Bits(S)
          PROVE  j <= i
      <4>1. x <= Len(hdrs) - j
        BY <3>2
      <4> QED
        BY <1>1, <1>7, <3>3, <4>1
    <3> QED
      BY <3>4
  <2>2. \A k \in Bits(S) : (\A j \in Bits(S) : j <= k) => k = i
    BY <1>1, <1>7, <2>1
  <2>3. Last(S) = hdrs[i]
    BY <2>1, <2>2 DEF Last
  <2>4. ASSUME NEW k \in S
        PROVE  hdrs[i] \in Doms(g)[k]
    <3>1. PICK j \in Bits(S) : hdrs[j] = k
      BY <1>6
    <3>2. CASE k \in Doms(g)[hdrs[i]]
      <4>1. i <= j /\ j <= i
        BY <1>2, <1>7, <2>1, <3>1, <3>2
      <4>2. i = j
        BY <1>1, <1>7, <4>1
      <4> QED
        BY <1>8, <3>1, <4>2
    <3> QED
      BY <1>4, <1>8, <3>2
  <2>5. \A h \in S : (\A k \in S : h \in Doms(g)[k]) => h = hdrs[i]
    BY <1>5, <1>8, <2>4
  <2> QED
    BY <1>8, <2>3, <2>4, <2>5 DEF Outer
<1> QED
  BY <1>9, <1>10

-----------------------------------------------------------------------------
(* The loops around a block and those that an edge leaves.                 *)
EnclosingIn(g, b) == Enclosing(Doms(g), LoopsIn(g), b)
LeavesIn(g, e)    == Leaves(LoopsIn(g), e)
ExitIn(g, e)      == ExitOf(Doms(g), LoopsIn(g), e)

\* Their headers all dominate one block, the block itself or the source of
\* the edge, and it is reached when there are any.
LEMMA HeadersOfOne ==
    ASSUME NEW g \in Graphs
    PROVE  /\ \A b \in Blocks : \A h \in AroundAll(g)[b] :
                  h \in Headers(g) /\ h \in Doms(g)[b] /\ b \in Live(g)
           /\ \A e \in Edges : \A h \in LeavesIn(g, e) :
                  h \in Headers(g) /\ h \in Doms(g)[e[1]] /\ e[1] \in Live(g)
<1>1. DOMAIN LoopsIn(g) = Headers(g)
  BY HeadersFacts
<1>2. ASSUME NEW b \in Blocks, NEW h \in AroundAll(g)[b]
      PROVE  h \in Headers(g) /\ b \in LoopsIn(g)[h]
  BY <1>1 DEF AroundAll, Around
<1>3. ASSUME NEW e \in Edges, NEW h \in LeavesIn(g, e)
      PROVE  h \in Headers(g) /\ e[1] \in LoopsIn(g)[h]
  BY <1>1 DEF LeavesIn, Leaves
<1> QED
  BY <1>2, <1>3, HeaderDominates

\* The null block stands for no loop, and for nothing else.
LEMMA NoLoopNoBlock ==
    ASSUME NEW g \in Graphs, Ordered(g, hdrs), Elements(hdrs) = Headers(g)
    PROVE  /\ \A b \in Blocks :
                  EnclosingIn(g, b) = IF AroundAll(g)[b] # {} THEN First(AroundAll(g)[b])
                                      ELSE NoBlock
           /\ \A e \in Edges :
                  ExitIn(g, e) = IF LeavesIn(g, e) # {} THEN Last(LeavesIn(g, e))
                                 ELSE NoBlock
           /\ \A b \in Blocks : EnclosingIn(g, b) = NoBlock => AroundAll(g)[b] = {}
<1>1. ASSUME NEW b \in Blocks
      PROVE  /\ EnclosingIn(g, b) = IF AroundAll(g)[b] # {} THEN First(AroundAll(g)[b])
                                    ELSE NoBlock
             /\ EnclosingIn(g, b) = NoBlock => AroundAll(g)[b] = {}
  <2>1. EnclosingIn(g, b) = Inner(Doms(g), AroundAll(g)[b])
    BY DEF EnclosingIn, Enclosing, AroundAll
  <2>2. CASE AroundAll(g)[b] = {}
    BY <2>1, <2>2 DEF Inner
  <2>3. CASE AroundAll(g)[b] # {}
    <3> DEFINE S == AroundAll(g)[b]
    <3>1. S \in SUBSET Headers(g) /\ b \in Live(g) /\ \A h \in S : h \in Doms(g)[b]
      BY <2>3, HeadersOfOne
    <3> HIDE DEF S
    <3>2. First(S) = Inner(Doms(g), S) /\ First(S) \in S
      BY <2>3, <3>1, FirstAndLast DEF S
    <3>3. First(S) \in Blocks
      BY <3>1, <3>2, HeadersFacts DEF Live, Reached
    <3> QED
      BY <2>1, <2>3, <3>2, <3>3, GraphsAssumption DEF S
  <2> QED
    BY <2>2, <2>3
<1>2. ASSUME NEW e \in Edges
      PROVE  ExitIn(g, e) = IF LeavesIn(g, e) # {} THEN Last(LeavesIn(g, e))
                            ELSE NoBlock
  <2>1. ExitIn(g, e) = Outer(Doms(g), LeavesIn(g, e))
    BY DEF ExitIn, ExitOf, LeavesIn
  <2>2. CASE LeavesIn(g, e) = {}
    BY <2>1, <2>2 DEF Outer
  <2>3. CASE LeavesIn(g, e) # {}
    <3> DEFINE S == LeavesIn(g, e)
    <3>1. S \in SUBSET Headers(g) /\ e[1] \in Live(g) /\ \A h \in S : h \in Doms(g)[e[1]]
      BY <2>3, HeadersOfOne
    <3> HIDE DEF S
    <3>2. Last(S) = Outer(Doms(g), S)
      BY <2>3, <3>1, FirstAndLast DEF S
    <3> QED
      BY <2>1, <2>3, <3>2 DEF S
  <2> QED
    BY <2>2, <2>3
<1> QED
  BY <1>1, <1>2

-----------------------------------------------------------------------------
(* The headers are those of the CFG; the marks of the loops, which nothing *)
(* clears, are right where they are set, and all are set when the features *)
(* are built.                                                              *)
MarksInv ==
    /\ graph \in Graphs
    /\ phase = "dominance" => header = {}
    /\ phase \in {"dominated", "loops", "built"} => header = Headers(graph)
    /\ phase = "loops" => /\ problem = LoopsAsked(graph)
                          /\ hdrs = SortedHeaders(Doms(graph), Headers(graph))
    /\ \A b \in Blocks :
           /\ enclosing[b] \in {NoBlock, EnclosingIn(graph, b)}
           /\ phase = "built" => enclosing[b] = EnclosingIn(graph, b)
    /\ \A e \in Edges :
           /\ exitEdge[e] \in {NoBlock, ExitIn(graph, e)}
           /\ e \notin graph => exitEdge[e] = NoBlock
           /\ phase = "built" /\ e \in graph => exitEdge[e] = ExitIn(graph, e)
    /\ \A h \in Blocks, e \in Edges :
           exitList[h][e] \in Nat /\ (exitList[h][e] > 0 <=> exitEdge[e] = h)

LEMMA MarksInitHolds == LoopInit => MarksInv
<1> SUFFICES ASSUME LoopInit
             PROVE  MarksInv
  OBVIOUS
<1>1. phase \in {"dominance", "postdominance"} /\ graph \in Graphs /\ Unmarked
  BY DEF LoopInit
<1>2. /\ \A b \in Blocks : enclosing[b] = NoBlock
      /\ \A e \in Edges : exitEdge[e] = NoBlock
      /\ \A h \in Blocks, e \in Edges : exitList[h][e] = 0 /\ h # NoBlock
  BY <1>1, GraphsAssumption DEF Unmarked
<1> QED
  BY <1>1, <1>2 DEF MarksInv, Unmarked

\* A CFG without headers has no loop, and nothing to mark.
LEMMA NoHeaderNoLoop ==
    ASSUME NEW g \in Graphs, Headers(g) = {}
    PROVE  /\ \A b \in Blocks : EnclosingIn(g, b) = NoBlock
           /\ \A e \in Edges : ExitIn(g, e) = NoBlock
<1>1. DOMAIN LoopsIn(g) = {}
  BY HeadersFacts
<1>2. /\ \A b \in Blocks : Around(LoopsIn(g), b) = {}
      /\ \A e \in Edges : Leaves(LoopsIn(g), e) = {}
  BY <1>1 DEF Around, Leaves
<1> QED
  BY <1>2 DEF EnclosingIn, Enclosing, Inner, ExitIn, ExitOf, Outer

\* What processCFG sets after compute() is right.
LEMMA RecordLoopsHolds == LInv /\ MarksInv /\ RecordLoops => MarksInv'
<1> SUFFICES ASSUME LInv, MarksInv, RecordLoops
             PROVE  MarksInv'
  OBVIOUS
<1> DEFINE g == graph
<1>1. /\ graph \in Graphs /\ graph' = graph
      /\ phase = "loops" /\ phase' = "built" /\ todo = <<>>
      /\ header = Headers(graph) /\ header' = header
      /\ problem = LoopsAsked(graph)
      /\ hdrs = SortedHeaders(Doms(graph), Headers(graph))
  BY DEF MarksInv, RecordLoops
<1>2. outs = AroundAll(graph)
  BY <1>1, EngineFindsLoops DEF LInv
<1>3. Ordered(graph, hdrs) /\ Elements(hdrs) = Headers(graph)
  BY <1>1, HeadersAreSorted
<1>4. ASSUME NEW e \in Edges
      PROVE  Left(e) = LeavesIn(graph, e)
  <2>1. ASSUME NEW b \in Blocks
        PROVE  WithSelf(b) = {h \in Headers(graph) : b \in LoopsIn(graph)[h]}
    <3>1. \A h : h \in outs[b] <=> h \in Headers(graph) /\ h # b /\ b \in LoopsIn(graph)[h]
      BY <1>1, <1>2, HeadersFacts DEF AroundAll, Around
    <3>2. b \in Headers(graph) => b \in LoopsIn(graph)[b]
      BY <1>1, HeadersFacts
    <3> QED
      BY <1>1, <3>1, <3>2 DEF WithSelf
  <2>2. e[1] \in Blocks /\ e[2] \in Blocks
    BY DEF Edges
  <2> QED
    BY <1>1, <2>1, <2>2, HeadersFacts DEF Left, LeavesIn, Leaves
<1>5. ASSUME NEW b \in Blocks
      PROVE  enclosing'[b] = EnclosingIn(graph, b)
  <2>1. enclosing'[b] = IF outs[b] # {} THEN First(outs[b]) ELSE enclosing[b]
    BY DEF RecordLoops
  <2>2. enclosing[b] \in {NoBlock, EnclosingIn(graph, b)}
    BY DEF MarksInv
  <2> QED
    BY <1>1, <1>2, <1>3, <2>1, <2>2, NoLoopNoBlock
<1>6. ASSUME NEW e \in Edges
      PROVE  exitEdge'[e] = IF e \in graph THEN ExitIn(graph, e) ELSE NoBlock
  <2>1. exitEdge'[e] = IF /\ e \in graph
                          /\ enclosing'[e[1]] # NoBlock \/ e[1] \in header
                          /\ Left(e) # {}
                       THEN Last(Left(e)) ELSE exitEdge[e]
    BY DEF RecordLoops
  <2>2. /\ exitEdge[e] \in {NoBlock, ExitIn(graph, e)}
        /\ e \notin graph => exitEdge[e] = NoBlock
    BY DEF MarksInv
  <2>3. e[1] \in Blocks
    BY DEF Edges
  <2>4. ASSUME Left(e) # {}
        PROVE  enclosing'[e[1]] # NoBlock \/ e[1] \in header
    <3>1. PICK h \in Left(e) : h \in WithSelf(e[1])
      BY <2>4 DEF Left
    <3>2. h \in outs[e[1]] \/ e[1] \in header
      BY <3>1 DEF WithSelf
    <3> QED
      BY <1>1, <1>2, <1>3, <1>5, <2>3, <3>2, NoLoopNoBlock
  <2>5. ExitIn(graph, e) = IF Left(e) # {} THEN Last(Left(e)) ELSE NoBlock
    BY <1>1, <1>3, <1>4, NoLoopNoBlock
  <2> QED
    BY <2>1, <2>2, <2>4, <2>5
<1>7. ASSUME NEW h \in Blocks, NEW e \in Edges
      PROVE  /\ exitList'[h][e] \in Nat
             /\ exitList'[h][e] > 0 <=> exitEdge'[e] = h
  <2>1. exitList'[h][e] = IF e \in graph /\ exitEdge'[e] = h
                          THEN exitList[h][e] + 1 ELSE exitList[h][e]
    BY DEF RecordLoops
  <2>2. exitList[h][e] \in Nat /\ (exitList[h][e] > 0 <=> exitEdge[e] = h)
    BY DEF MarksInv
  <2>3. exitEdge[e] = h => e \in graph /\ exitEdge'[e] = h
    BY <1>6, GraphsAssumption DEF MarksInv
  <2>4. exitEdge'[e] = h => e \in graph
    BY <1>6, GraphsAssumption
  <2> QED
    BY <2>1, <2>2, <2>3, <2>4
<1> QED
  BY <1>1, <1>5, <1>6, <1>7 DEF MarksInv

\* Each step of the processors keeps the marks as they must be.
LEMMA MarksNextHolds == LInv /\ MarksInv /\ [LoopNext]_vars => MarksInv'
<1> SUFFICES ASSUME LInv, MarksInv, [LoopNext]_vars
             PROVE  MarksInv'
  OBVIOUS
<1>1. CASE Analyse
  BY <1>1 DEF MarksInv, Analyse, Step, Keep, Change, marks
<1>2. CASE RecordPostDominance
  BY <1>2 DEF MarksInv, RecordPostDominance, dfavars
<1>3. CASE RecordDominance
  <2>1. outs = Doms(graph)
    BY <1>3, DominanceAsks, EntryAndExit, EngineFindsPaths
    DEF LInv, RecordDominance, Doms
  <2>2. header' = Headers(graph)
    <3>1. header = {}
      BY <1>3 DEF MarksInv, RecordDominance
    <3> QED
      BY <1>3, <2>1, <3>1 DEF RecordDominance, Headers, HeadersOf, BackEdges
  <2> QED
    BY <1>3, <2>2 DEF MarksInv, RecordDominance, dfavars
<1>4. CASE NoLoop
  <2>1. Headers(graph) = {} /\ graph \in Graphs
    BY <1>4 DEF MarksInv, NoLoop
  <2>2. /\ \A b \in Blocks : EnclosingIn(graph, b) = NoBlock
        /\ \A e \in Edges : ExitIn(graph, e) = NoBlock
    BY <2>1, NoHeaderNoLoop
  <2> QED
    BY <1>4, <2>2 DEF MarksInv, NoLoop, marks
<1>5. CASE FindLoops
  <2>1. dom = Doms(graph) /\ header = Headers(graph)
    BY <1>5 DEF LInv, MarksInv, FindLoops, Doms
  <2> QED
    BY <1>5, <2>1 DEF MarksInv, FindLoops, Restart, LoopsAsked
<1>6. CASE RecordLoops
  BY <1>6, RecordLoopsHolds
<1>7. CASE BuildAgain
  BY <1>7 DEF MarksInv, BuildAgain
<1>8. CASE UNCHANGED vars
  BY <1>8 DEF MarksInv, vars, marks, dfavars
<1> QED
  BY <1>1, <1>2, <1>3, <1>4, <1>5, <1>6, <1>7, <1>8 DEF LoopNext

\* LOOP_INFO_FEATURE, of every CFG: ENCLOSING_LOOP_HEADER, LOOP_EXIT_EDGE and
\* EXIT_LIST are what its loops say, also when they are built again over the
\* properties of the build before (LoopInfoBuilder::processCFG).
THEOREM LoopsAreRight == LoopSpec => []LoopsRight
<1>1. LoopSpec => []MarksInv
  BY LoopSpecInvariant, MarksInitHolds, MarksNextHolds, PTL DEF LoopSpec
<1>2. LInv /\ MarksInv => LoopsRight
  <2> SUFFICES ASSUME LInv, MarksInv, phase = "built"
               PROVE  LoopsRight
    BY DEF LoopsRight
  <2>1. dom = Doms(graph) /\ LoopsOf(graph, dom) = LoopsIn(graph)
    BY DEF LInv, Doms, LoopsIn
  <2>2. header = DOMAIN LoopsIn(graph)
    BY HeadersFacts DEF MarksInv
  <2>3. graph \subseteq Edges
    BY GraphsAssumption DEF MarksInv, Edges
  <2> QED
    BY <2>1, <2>2, <2>3 DEF MarksInv, LoopsRight, EnclosingIn, ExitIn
<1> QED
  BY LoopSpecInvariant, <1>1, <1>2, PTL
=============================================================================
