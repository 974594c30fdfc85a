-------------------------- MODULE WorkSpace_proofs --------------------------
(***************************************************************************)
(* Proofs about WorkSpace, for any set of features and any history.        *)
(*                                                                         *)
(* The pointers copied by invalidate() are safe to follow because a list   *)
(* of dependents is kept youngest first: an inner call frees features that *)
(* are younger than the one it is given, and what the outer calls have     *)
(* still to read is older.  Hence the invariant: what a call has left to   *)
(* read is exactly what the list of its feature still holds, after the     *)
(* feature the call is waiting for.                                        *)
(***************************************************************************)
EXTENDS WorkSpace, SequenceTheorems, WellFoundedInduction, TLAPS

\* Lists of dependents, youngest first.
Youngest(s) == \A i, j \in 1..Len(s) : i < j => born[s[j]] < born[s[i]]

Unrecorded ==
    \A f \in Features : f \notin featMap => children[f] = <<>> /\ parents[f] = {}

Agree == \A f, g \in Features : f \in Elems(children[g]) <=> g \in parents[f]

Older ==
    /\ \A f, g \in Features : g \in parents[f] => g \in featMap /\ born[g] < born[f]
    /\ \A f \in Features : born[f] <= clock

Sorted == \A f \in Features : Youngest(children[f])

Calls ==
    /\ \A k \in 1..Len(stack) : stack[k].feature \in featMap
    /\ \A j, k \in 1..Len(stack) :
            j < k => born[stack[j].feature] < born[stack[k].feature]

\* The top call has copied what the list of its feature holds now; each other
\* call has copied what the list holds after the feature it is waiting for.
Copies ==
    /\ \A k \in 1..Len(stack) :
            k = Len(stack) => children[stack[k].feature] = stack[k].to_inv
    /\ \A k \in 1..Len(stack) :
            k < Len(stack) =>
                /\ children[stack[k].feature] # <<>>
                /\ Head(children[stack[k].feature]) = stack[k + 1].feature
                /\ Tail(children[stack[k].feature]) = stack[k].to_inv

Closed ==
    closing => \A f \in featMap :
        f \in deps \/ \E k \in 1..Len(stack) : stack[k].feature = f

Graph == Unrecorded /\ Agree /\ Older /\ Sorted

IInv == TypeOK /\ Graph /\ Calls /\ Copies /\ Closed

-----------------------------------------------------------------------------

\* SLList::add.
LEMMA LinkedList ==
    ASSUME NEW list \in Seq(Features), NEW f \in Features
    PROVE  /\ Linked(list, f) \in Seq(Features)
           /\ Len(Linked(list, f)) = Len(list) + 1
           /\ Linked(list, f)[1] = f
           /\ \A i \in 2..Len(list) + 1 : Linked(list, f)[i] = list[i - 1]
           /\ Elems(Linked(list, f)) = Elems(list) \union {f}
<1>1. /\ Linked(list, f) \in Seq(Features)
      /\ Len(Linked(list, f)) = Len(list) + 1
      /\ Linked(list, f)[1] = f
      /\ \A i \in 2..Len(list) + 1 : Linked(list, f)[i] = list[i - 1]
  BY DEF Linked
<1>2. ASSUME NEW g \in Elems(Linked(list, f)) PROVE g \in Elems(list) \union {f}
  <2>1. PICK i \in 1..Len(list) + 1 : g = Linked(list, f)[i]
    BY <1>1, <1>2 DEF Elems
  <2>2. CASE i = 1
    BY <1>1, <2>1, <2>2
  <2>3. CASE i # 1
    <3>1. i \in 2..Len(list) + 1 /\ i - 1 \in 1..Len(list)
      BY <2>3
    <3> QED
      BY <1>1, <2>1, <3>1 DEF Elems
  <2> QED
    BY <2>2, <2>3
<1>3. ASSUME NEW g \in Elems(list) PROVE g \in Elems(Linked(list, f))
  <2>1. PICK i \in 1..Len(list) : g = list[i]
    BY <1>3 DEF Elems
  <2>2. i + 1 \in 1..Len(Linked(list, f)) /\ Linked(list, f)[i + 1] = g
    BY <1>1, <2>1
  <2> QED
    BY <2>2 DEF Elems
<1>4. f \in Elems(Linked(list, f))
  <2>1. 1 \in 1..Len(Linked(list, f))
    BY <1>1
  <2> QED
    BY <1>1, <2>1 DEF Elems
<1> QED
  BY <1>1, <1>2, <1>3, <1>4

\* SLList::remove, on a list kept youngest first: it loses that element, and
\* when the element is the first one, the tail is left.
LEMMA UnlinkedList ==
    ASSUME born \in [Features -> Nat],
           NEW list \in Seq(Features), Youngest(list),
           NEW f \in Elems(list)
    PROVE  /\ Unlinked(list, f) \in Seq(Features)
           /\ Elems(Unlinked(list, f)) = Elems(list) \ {f}
           /\ Youngest(Unlinked(list, f))
           /\ Head(list) = f => Unlinked(list, f) = Tail(list)
<1> DEFINE First(i) == list[i] = f /\ \A j \in 1..i-1 : list[j] # f
           at == CHOOSE i \in 1..Len(list) : First(i)
           cut == [j \in 1..Len(list)-1 |-> IF j < at THEN list[j] ELSE list[j + 1]]
           from(j) == IF j < at THEN j ELSE j + 1   \* where cut[j] comes from
<1>1. \A i, j \in 1..Len(list) : i # j => list[i] # list[j]
  BY DEF Youngest
<1>2. at \in 1..Len(list) /\ First(at)
  <2>1. PICK i \in 1..Len(list) : list[i] = f
    BY DEF Elems
  <2>2. \A j \in 1..i-1 : j \in 1..Len(list) /\ j # i
    OBVIOUS
  <2>3. First(i)
    BY <1>1, <2>1, <2>2
  <2> QED
    BY <2>3
<1>3. Unlinked(list, f) = cut
  BY DEF Unlinked
<1> HIDE DEF at
<1>4. /\ cut \in Seq(Features)
      /\ Len(cut) = Len(list) - 1
      /\ \A j \in 1..Len(list)-1 :
            cut[j] = list[from(j)] /\ from(j) \in 1..Len(list) /\ from(j) # at
  <2>1. Len(list) - 1 \in Nat
    BY <1>2
  <2>2. \A j \in 1..Len(list)-1 :
            (IF j < at THEN list[j] ELSE list[j + 1]) \in Features
    BY <1>2
  <2>3. \A j \in 1..Len(list)-1 : from(j) \in 1..Len(list) /\ from(j) # at
    BY <1>2
  <2> QED
    BY <2>1, <2>2, <2>3
<1> HIDE DEF cut
<1>5. Elems(cut) = Elems(list) \ {f}
  <2>1. ASSUME NEW g \in Elems(cut) PROVE g \in Elems(list) \ {f}
    <3>1. PICK j \in 1..Len(list)-1 : g = cut[j]
      BY <1>4, <2>1 DEF Elems
    <3>2. g = list[from(j)] /\ from(j) \in 1..Len(list) /\ from(j) # at
      BY <1>4, <3>1
    <3> QED
      BY <1>1, <1>2, <3>2 DEF Elems
  <2>2. ASSUME NEW g \in Elems(list) \ {f} PROVE g \in Elems(cut)
    <3>1. PICK i \in 1..Len(list) : g = list[i]
      BY <2>2 DEF Elems
    <3>2. i # at
      BY <1>2, <2>2, <3>1
    <3>3. PICK j \in 1..Len(list)-1 : cut[j] = list[i]
      <4>1. CASE i < at
        BY <1>2, <1>4, <4>1, i \in 1..Len(list)-1, from(i) = i
      <4>2. CASE i > at
        BY <1>2, <1>4, <4>2, i - 1 \in 1..Len(list)-1, from(i - 1) = i
      <4> QED
        BY <1>2, <3>2, <4>1, <4>2
    <3> QED
      BY <1>4, <3>1, <3>3 DEF Elems
  <2> QED
    BY <2>1, <2>2
<1>6. Youngest(cut)
  <2> SUFFICES ASSUME NEW i \in 1..Len(cut), NEW j \in 1..Len(cut), i < j
               PROVE  born[cut[j]] < born[cut[i]]
    BY DEF Youngest
  <2>1. /\ cut[i] = list[from(i)] /\ from(i) \in 1..Len(list)
        /\ cut[j] = list[from(j)] /\ from(j) \in 1..Len(list)
    BY <1>4
  <2>2. from(i) < from(j)
    BY <1>2, <1>4
  <2> QED
    BY <2>1, <2>2 DEF Youngest
<1>7. ASSUME Head(list) = f PROVE cut = Tail(list)
  <2>1. at = 1
    <3>1. list[1] = f
      BY <1>2, <1>7
    <3> QED
      BY <1>2, <3>1
  <2>2. cut = [j \in 1..Len(list)-1 |-> list[j + 1]]
    BY <2>1 DEF cut
  <2>3. /\ Tail(list) \in Seq(Features)
        /\ Len(Tail(list)) = Len(list) - 1
        /\ \A j \in 1..Len(Tail(list)) : Tail(list)[j] = list[j + 1]
    BY <1>2, list # <<>>, HeadTailProperties
  <2>4. \A j \in 1..Len(cut) : cut[j] = Tail(list)[j]
    BY <1>4, <2>2, <2>3
  <2> QED
    BY <1>4, <2>3, <2>4, SeqEqual
<1> QED
  BY <1>3, <1>4, <1>5, <1>6, <1>7

-----------------------------------------------------------------------------

\* What is left of a stack when its top goes.
LEMMA Popped ==
    ASSUME NEW S, NEW s \in Seq(S), NEW n \in Nat \ {0}, n = Len(s)
    PROVE  /\ SubSeq(s, 1, n - 1) \in Seq(S)
           /\ Len(SubSeq(s, 1, n - 1)) = n - 1
           /\ \A k \in 1..n-1 : SubSeq(s, 1, n - 1)[k] = s[k]
<1>1. \A k \in 1..n-1 : s[k] \in S /\ 1 + k - 1 = k
  BY ElementOfSeq
<1>2. n - 1 \in Int /\ n - 1 - 1 + 1 = n - 1 /\ (~(1 <= n - 1) => n - 1 = 0)
  OBVIOUS
<1>3. /\ SubSeq(s, 1, n - 1) \in Seq(S)
      /\ Len(SubSeq(s, 1, n - 1)) = IF 1 <= n - 1 THEN n - 1 - 1 + 1 ELSE 0
      /\ \A k \in 1..n - 1 - 1 + 1 : SubSeq(s, 1, n - 1)[k] = s[1 + k - 1]
  BY <1>1, <1>2, SubSeqProperties
<1> QED
  BY <1>1, <1>2, <1>3

\* The call on top of the stack: what it reads next is a live node, younger
\* than its feature; when nothing is left, nothing depends on its feature.
LEMMA TopCall ==
    ASSUME IInv, ~Idle
    PROVE  /\ Len(stack) \in Nat \ {0}
           /\ Top \in Pending
           /\ Top.feature \in Features /\ Top.to_inv \in Seq(Features)
           /\ Top.feature \in featMap
           /\ children[Top.feature] = Top.to_inv
           /\ Top.to_inv # <<>> =>
                /\ Head(Top.to_inv) \in featMap
                /\ born[Top.feature] < born[Head(Top.to_inv)]
           /\ Top.to_inv = <<>> => \A h \in Features : Top.feature \notin parents[h]
<1>1. Len(stack) \in Nat \ {0} /\ Len(stack) \in 1..Len(stack)
  <2>1. stack \in Seq(Pending) /\ stack # <<>>
    BY DEF IInv, TypeOK, Idle
  <2>2. Len(stack) \in Nat /\ Len(stack) # 0
    BY <2>1, EmptySeq
  <2> QED
    BY <2>2
<1>2. Top \in Pending /\ Top.feature \in Features /\ Top.to_inv \in Seq(Features)
  <2>1. Top \in Pending
    BY <1>1, ElementOfSeq DEF IInv, TypeOK, Top
  <2> QED
    BY <2>1 DEF Pending
<1>3. Top.feature \in featMap /\ children[Top.feature] = Top.to_inv
  BY <1>1 DEF IInv, Calls, Copies, Top
<1>4. ASSUME Top.to_inv # <<>>
      PROVE  /\ Head(Top.to_inv) \in featMap
             /\ born[Top.feature] < born[Head(Top.to_inv)]
  <2> DEFINE f == Head(Top.to_inv)
  <2>1. f \in Features /\ f \in Elems(children[Top.feature])
    <3>1. Top.to_inv \in Seq(Features) /\ 1 \in 1..Len(Top.to_inv)
      BY <1>2, <1>4
    <3>2. f = Top.to_inv[1] /\ f \in Features
      BY <3>1
    <3> QED
      BY <1>3, <3>1, <3>2 DEF Elems
  <2>2. Top.feature \in parents[f]
    BY <1>2, <2>1 DEF IInv, Graph, Agree
  <2>3. born[Top.feature] < born[f]
    BY <1>2, <2>1, <2>2 DEF IInv, Graph, Older
  <2>4. f \in featMap
    BY <2>1, <2>2 DEF IInv, Graph, Unrecorded
  <2> QED
    BY <2>3, <2>4
<1>5. ASSUME Top.to_inv = <<>>, NEW h \in Features
      PROVE  Top.feature \notin parents[h]
  <2>1. h \notin Elems(children[Top.feature])
    BY <1>3, <1>5 DEF Elems
  <2> QED
    BY <1>2, <2>1 DEF IInv, Graph, Agree
<1> QED
  BY <1>1, <1>2, <1>3, <1>4, <1>5

\* Nothing is recorded and nothing is called at first.
LEMMA InitInv == Init => IInv
<1> SUFFICES ASSUME Init PROVE IInv
  OBVIOUS
<1>1. TypeOK
  <2>1. <<>> \in Seq(Features) /\ <<>> \in Seq(Pending)
    BY EmptySeq
  <2> QED
    BY <2>1 DEF Init, TypeOK
<1>2. Graph
  <2>1. \A f \in Features : children[f] = <<>> /\ Elems(children[f]) = {}
    <3>1. Elems(<<>>) = {}
      BY DEF Elems
    <3> QED
      BY <3>1 DEF Init
  <2>2. Unrecorded /\ Agree /\ Older
    BY <2>1 DEF Init, Unrecorded, Agree, Older
  <2>3. Sorted
    BY <2>1 DEF Sorted, Youngest
  <2> QED
    BY <2>2, <2>3 DEF Graph
<1>3. Calls /\ Copies /\ Closed
  BY DEF Init, Calls, Copies, Closed
<1> QED
  BY <1>1, <1>2, <1>3 DEF IInv

-----------------------------------------------------------------------------

\* provide() puts the youngest feature in front of the lists it joins.
LEMMA ProvideInv ==
    ASSUME IInv, NEW f \in Features, NEW required \in SUBSET featMap,
           Provide(f, required)
    PROVE  IInv'
<1>0. TypeOK /\ Unrecorded /\ Agree /\ Older /\ Sorted
  BY DEF IInv, Graph
<1>1. /\ f \notin featMap /\ required \subseteq Features /\ f \notin required
      /\ \A g \in Features : f \notin parents[g] /\ f \notin Elems(children[g])
      /\ children[f] = <<>> /\ parents[f] = {}
  BY <1>0 DEF Provide, TypeOK, Unrecorded, Agree, Older
<1>2. ASSUME NEW g \in required
      PROVE  /\ children[g] \in Seq(Features)
             /\ Linked(children[g], f) \in Seq(Features)
             /\ Len(children[g]) \in Nat
             /\ Len(Linked(children[g], f)) = Len(children[g]) + 1
             /\ Linked(children[g], f)[1] = f
             /\ \A i \in 2..Len(children[g]) + 1 :
                    Linked(children[g], f)[i] = children[g][i - 1]
             /\ Elems(Linked(children[g], f)) = Elems(children[g]) \union {f}
  <2>1. children[g] \in Seq(Features)
    BY <1>0, <1>1 DEF TypeOK
  <2> QED
    BY <2>1, LinkedList, LenProperties
<1>3. /\ \A g \in required : children'[g] = Linked(children[g], f)
      /\ \A g \in Features : g \notin required => children'[g] = children[g]
  BY <1>1 DEF Provide
<1>4. parents'[f] = required /\ \A g \in Features : g # f => parents'[g] = parents[g]
  BY <1>0 DEF Provide, TypeOK
<1>5. /\ clock \in Nat /\ clock' = clock + 1 /\ born'[f] = clock + 1
      /\ \A g \in Features : g # f => born'[g] = born[g]
      /\ \A g \in Features : born[g] \in Nat /\ born[g] <= clock
  BY <1>0 DEF Provide, TypeOK, Older
<1>6. TypeOK'
  <2>1. children' \in [Features -> Seq(Features)]
    BY <1>0, <1>2 DEF Provide, TypeOK
  <2> QED
    BY <1>0, <1>1, <2>1 DEF Provide, TypeOK
<1>7. Unrecorded'
  <2> SUFFICES ASSUME NEW g \in Features, g \notin featMap'
               PROVE  children'[g] = <<>> /\ parents'[g] = {}
    BY DEF Unrecorded
  <2>1. g # f /\ g \notin featMap /\ g \notin required
    BY DEF Provide
  <2> QED
    BY <1>0, <1>3, <1>4, <2>1 DEF Unrecorded
<1>8. Agree'
  <2> SUFFICES ASSUME NEW h \in Features, NEW g \in Features
               PROVE  h \in Elems(children'[g]) <=> g \in parents'[h]
    BY DEF Agree, Elems
  <2>1. h \in Elems(children[g]) <=> g \in parents[h]
    BY <1>0 DEF Agree
  <2>2. g \in parents'[h] <=> (h = f /\ g \in required) \/ (h # f /\ g \in parents[h])
    BY <1>4
  <2>3. CASE g \in required
    <3>1. h \in Elems(children'[g]) <=> h = f \/ h \in Elems(children[g])
      <4>1. children'[g] = Linked(children[g], f)
        BY <1>3, <2>3
      <4>2. Elems(Linked(children[g], f)) = Elems(children[g]) \union {f}
        BY <1>2, <2>3
      <4> QED
        BY <4>1, <4>2, Zenon
    <3> QED
      BY <2>1, <2>2, <2>3, <3>1
  <2>4. CASE g \notin required
    <3>1. h \in Elems(children'[g]) <=> h \in Elems(children[g])
      BY <1>3, <2>4
    <3> QED
      BY <1>1, <2>1, <2>2, <2>4, <3>1
  <2> QED
    BY <2>3, <2>4
<1>9. Older'
  <2>1. ASSUME NEW h \in Features, NEW g \in Features, g \in parents'[h]
        PROVE  g \in featMap' /\ born'[g] < born'[h]
    <3>1. CASE h = f
      <4>1. g \in featMap /\ g # f
        BY <1>1, <1>4, <2>1, <3>1
      <4>2. born'[g] < born'[h]
        BY <1>5, <3>1, <4>1
      <4> QED
        BY <4>1, <4>2 DEF Provide
    <3>2. CASE h # f
      <4>1. g \in featMap /\ g # f /\ born[g] < born[h]
        BY <1>0, <1>1, <1>4, <2>1, <3>2 DEF Older
      <4> QED
        BY <1>5, <3>2, <4>1 DEF Provide
    <3> QED
      BY <3>1, <3>2
  <2>2. \A h \in Features : born'[h] <= clock'
    BY <1>5
  <2> QED
    BY <2>1, <2>2 DEF Older
<1>10. Sorted'
  <2> SUFFICES ASSUME NEW g \in Features, NEW i \in 1..Len(children'[g]),
                      NEW j \in 1..Len(children'[g]), i < j
               PROVE  born'[children'[g][j]] < born'[children'[g][i]]
    BY DEF Sorted, Youngest
  <2>1. ASSUME NEW k \in 1..Len(children[g])
        PROVE  /\ children[g][k] \in Features
               /\ born'[children[g][k]] = born[children[g][k]]
               /\ born[children[g][k]] < clock + 1
    <3>1. children[g] \in Seq(Features)
      BY <1>0 DEF TypeOK
    <3>2. children[g][k] \in Features /\ children[g][k] \in Elems(children[g])
      BY <3>1, ElementOfSeq DEF Elems
    <3>3. children[g][k] # f
      BY <1>1, <3>2
    <3> QED
      BY <1>5, <3>2, <3>3
  <2>2. \A k, l \in 1..Len(children[g]) :
            k < l => born[children[g][l]] < born[children[g][k]]
    BY <1>0 DEF Sorted, Youngest
  <2>3. CASE g \notin required
    <3>1. children'[g] = children[g]
      BY <1>3, <2>3
    <3> QED
      BY <2>1, <2>2, <3>1
  <2>4. CASE g \in required
    <3> DEFINE n == Len(children[g])
               new == Linked(children[g], f)
    <3>1. /\ n \in Nat /\ Len(new) = n + 1 /\ new[1] = f
          /\ \A k \in 2..n + 1 : new[k] = children[g][k - 1]
      BY <1>2, <2>4
    <3>2. children'[g] = new
      BY <1>3, <2>4
    <3> HIDE DEF new, n
    <3>3. i \in 1..n + 1 /\ j \in 1..n + 1
      BY <3>1, <3>2
    <3>4. j \in 2..n + 1 /\ j - 1 \in 1..n /\ new[j] = children[g][j - 1]
      BY <3>1, <3>3
    <3>5. CASE i = 1
      BY <1>5, <2>1, <3>1, <3>2, <3>4, <3>5 DEF n
    <3>6. CASE i # 1
      <4>1. i - 1 \in 1..n /\ new[i] = children[g][i - 1] /\ i - 1 < j - 1
        BY <3>1, <3>3, <3>4, <3>6
      <4>2. born[children[g][j - 1]] < born[children[g][i - 1]]
        BY <2>2, <3>4, <4>1 DEF n
      <4> QED
        BY <2>1, <3>2, <3>4, <4>1, <4>2 DEF n
    <3> QED
      BY <3>5, <3>6
  <2> QED
    BY <2>3, <2>4
<1>11. Calls' /\ Copies' /\ Closed'
  <2>1. stack' = <<>> /\ ~closing'
    BY DEF Provide, Idle
  <2> QED
    BY <2>1, EmptySeq DEF Calls, Copies, Closed
<1> QED
  BY <1>6, <1>7, <1>8, <1>9, <1>10, <1>11 DEF IInv, Graph

\* A call from outside, or from the destructor, starts a stack of its own.
LEMMA CallInv ==
    ASSUME IInv, NEW f \in featMap, Idle, stack' = <<Call(f)>>,
           UNCHANGED <<graph, born, clock>>, deps' \in SUBSET Features,
           closing' = closing, closing => deps \subseteq deps' \union {f}
    PROVE  IInv'
<1> USE DEF IInv
<1>1. f \in Features /\ Call(f) \in Pending
  BY DEF TypeOK, Call, Pending
<1>2. /\ stack' \in Seq(Pending) /\ Len(stack') = 1
      /\ stack'[1].feature = f /\ stack'[1].to_inv = children[f]
  BY <1>1 DEF Call
<1>3. TypeOK'
  BY <1>2 DEF TypeOK, graph
<1>4. Graph'
  BY DEF Graph, Unrecorded, Agree, Older, Sorted, Youngest, Elems, graph
<1>5. Calls' /\ Copies'
  BY <1>2 DEF Calls, Copies, graph
<1>6. Closed'
  <2>1. \A g \in Features : closing => ~(\E k \in 1..Len(stack) : stack[k].feature = g)
    BY DEF Idle
  <2> QED
    BY <1>2, <2>1 DEF Closed, graph, TypeOK
<1> QED
  BY <1>3, <1>4, <1>5, <1>6

\* The top waits for the dependent it has just called.
LEMMA DescendStack ==
    ASSUME IInv, Descend, NEW n, n = Len(stack)
    PROVE  /\ ~Idle /\ n \in Nat \ {0}
           /\ Head(Top.to_inv) \in featMap /\ Head(Top.to_inv) \in Features
           /\ born[Top.feature] < born[Head(Top.to_inv)]
           /\ children[Top.feature] = Top.to_inv /\ Top.to_inv # <<>>
           /\ stack' \in Seq(Pending) /\ Len(stack') = n + 1
           /\ \A k \in 1..n : stack'[k].feature = stack[k].feature
           /\ \A k \in 1..n : k # n => stack'[k].to_inv = stack[k].to_inv
           /\ stack'[n].to_inv = Tail(Top.to_inv)
           /\ stack'[n + 1].feature = Head(Top.to_inv)
           /\ stack'[n + 1].to_inv = children[Head(Top.to_inv)]
<1> DEFINE f == Head(Top.to_inv)
           left == [feature |-> Top.feature, to_inv |-> Tail(Top.to_inv)]
           rest == [stack EXCEPT ![n] = left]
<1>1. /\ ~Idle /\ Top.to_inv # <<>>
      /\ n \in Nat \ {0} /\ stack \in Seq(Pending)
      /\ Top.feature \in Features /\ Top.to_inv \in Seq(Features)
      /\ Top.feature \in featMap /\ children[Top.feature] = Top.to_inv
      /\ f \in featMap /\ born[Top.feature] < born[f]
  <2>1. ~Idle /\ Top.to_inv # <<>>
    BY DEF Descend
  <2> QED
    BY <2>1, TopCall DEF IInv, TypeOK
<1>2. f \in Features
  BY <1>1 DEF IInv, TypeOK
<1>3. Tail(Top.to_inv) \in Seq(Features)
  BY <1>1, HeadTailProperties
<1>4. /\ rest \in Seq(Pending) /\ Len(rest) = n
      /\ \A k \in 1..n : rest[k].feature = stack[k].feature
      /\ \A k \in 1..n : k # n => rest[k].to_inv = stack[k].to_inv
      /\ rest[n].to_inv = Tail(Top.to_inv)
  <2>1. /\ left \in Pending
        /\ left.feature = Top.feature /\ left.to_inv = Tail(Top.to_inv)
    BY <1>1, <1>3 DEF Pending
  <2>2. stack \in [1..n -> Pending]
    BY <1>1, LenProperties
  <2> HIDE DEF left
  <2>3. rest \in [1..n -> Pending]
    BY <2>1, <2>2
  <2>4. rest \in Seq(Pending) /\ Len(rest) = n
    BY <1>1, <2>3
  <2>5. n \in 1..n
    BY <1>1
  <2>6. \A k \in 1..n : rest[k] = IF k = n THEN left ELSE stack[k]
    BY <2>2, <2>5
  <2>7. stack[n] = Top
    BY DEF Top
  <2> QED
    BY <2>1, <2>4, <2>5, <2>6, <2>7
<1>5. Call(f) \in Pending /\ Call(f).feature = f /\ Call(f).to_inv = children[f]
  BY <1>2 DEF Call, Pending, IInv, TypeOK
<1> HIDE DEF rest, left
<1>6. /\ stack' \in Seq(Pending) /\ Len(stack') = n + 1
      /\ \A k \in 1..n : stack'[k] = rest[k]
      /\ stack'[n + 1] = Call(f)
  <2>1. stack' = Append(rest, Call(f))
    BY <1>1 DEF Descend, rest, left
  <2> QED
    BY <1>4, <1>5, <2>1, AppendProperties
<1>7. n \in 1..n
  BY <1>1
<1>8. /\ \A k \in 1..n : stack'[k].feature = stack[k].feature
      /\ \A k \in 1..n : k # n => stack'[k].to_inv = stack[k].to_inv
      /\ stack'[n].to_inv = Tail(Top.to_inv)
  BY <1>4, <1>6, <1>7
<1>9. stack'[n + 1].feature = f /\ stack'[n + 1].to_inv = children[f]
  BY <1>5, <1>6
<1> QED
  BY <1>1, <1>2, <1>6, <1>8, <1>9

\* The next dependent is called: its node is live, so it is younger than all
\* the features on the stack, and the old top waits for it.
LEMMA DescendInv ==
    ASSUME IInv, Descend
    PROVE  IInv'
<1> DEFINE n == Len(stack)
           f == Head(Top.to_inv)
<1>1. /\ ~Idle /\ n \in Nat \ {0}
      /\ f \in featMap /\ f \in Features /\ born[Top.feature] < born[f]
      /\ children[Top.feature] = Top.to_inv /\ Top.to_inv # <<>>
      /\ stack' \in Seq(Pending) /\ Len(stack') = n + 1
      /\ \A k \in 1..n : stack'[k].feature = stack[k].feature
      /\ \A k \in 1..n : k # n => stack'[k].to_inv = stack[k].to_inv
      /\ stack'[n].to_inv = Tail(Top.to_inv)
      /\ stack'[n + 1].feature = f
      /\ stack'[n + 1].to_inv = children[f]
  BY DescendStack
<1>2. /\ featMap' = featMap /\ children' = children /\ parents' = parents
      /\ born' = born /\ clock' = clock /\ deps' = deps /\ closing' = closing
  BY DEF Descend, graph
<1>3. TypeOK'
  BY <1>1, <1>2 DEF IInv, TypeOK
<1>4. Graph'
  BY <1>2 DEF IInv, Graph, Unrecorded, Agree, Older, Sorted, Youngest, Elems
<1>5. Calls'
  <2>1. \A k \in 1..n : stack'[k].feature = stack[k].feature
    BY <1>1
  <2>2. stack'[n + 1].feature = f
    BY <1>1
  <2>3. ASSUME NEW k \in 1..Len(stack') PROVE stack'[k].feature \in featMap'
    BY <1>1, <1>2, <2>1, <2>2, <2>3 DEF IInv, Calls
  <2>4. ASSUME NEW j \in 1..Len(stack'), NEW k \in 1..Len(stack'), j < k
        PROVE  born'[stack'[j].feature] < born'[stack'[k].feature]
    <3>1. \A l \in 1..n : /\ born[stack[l].feature] \in Nat
                          /\ l < n => born[stack[l].feature] < born[stack[n].feature]
      BY <1>1 DEF IInv, Calls, TypeOK
    <3>2. born[f] \in Nat /\ born[stack[n].feature] < born[f]
      BY <1>1 DEF IInv, TypeOK, Top
    <3>3. CASE k = n + 1
      <4>1. j \in 1..n
        BY <1>1, <2>4, <3>3
      <4>2. born[stack[j].feature] < born[f]
        BY <1>1, <3>1, <3>2, <4>1
      <4> QED
        BY <1>2, <2>1, <2>2, <3>3, <4>1, <4>2
    <3>4. CASE k # n + 1
      <4>1. j \in 1..n /\ k \in 1..n
        BY <1>1, <2>4, <3>4
      <4> QED
        BY <1>2, <2>1, <2>4, <4>1 DEF IInv, Calls
    <3> QED
      BY <3>3, <3>4
  <2> QED
    BY <2>3, <2>4 DEF Calls
<1>6. Copies'
  <2> SUFFICES ASSUME NEW k \in 1..Len(stack')
      PROVE  /\ k = Len(stack') => children[stack'[k].feature] = stack'[k].to_inv
             /\ k < Len(stack') =>
                  /\ children[stack'[k].feature] # <<>>
                  /\ Head(children[stack'[k].feature]) = stack'[k + 1].feature
                  /\ Tail(children[stack'[k].feature]) = stack'[k].to_inv
    BY <1>2 DEF Copies
  <2>1. CASE k = n + 1
    BY <1>1, <2>1
  <2>2. CASE k = n
    <3>1. /\ stack'[k].feature = Top.feature /\ stack'[k].to_inv = Tail(Top.to_inv)
          /\ stack'[k + 1].feature = f
      BY <1>1, <2>2 DEF Top
    <3> QED
      BY <1>1, <2>2, <3>1
  <2>3. CASE k \in 1..n-1
    <3>1. /\ k \in 1..n /\ k + 1 \in 1..n /\ k # n
          /\ stack'[k].feature = stack[k].feature /\ stack'[k].to_inv = stack[k].to_inv
          /\ stack'[k + 1].feature = stack[k + 1].feature
      BY <1>1, <2>3
    <3> QED
      BY <1>1, <2>3, <3>1 DEF IInv, Copies
  <2> QED
    BY <1>1, <2>1, <2>2, <2>3
<1>7. Closed'
  <2> SUFFICES ASSUME closing, NEW g \in featMap, g \notin deps
               PROVE  \E k \in 1..Len(stack') : stack'[k].feature = g
    BY <1>2 DEF Closed
  <2>1. PICK k \in 1..n : stack[k].feature = g
    BY DEF IInv, Closed
  <2>2. k \in 1..Len(stack') /\ stack'[k].feature = g
    BY <1>1, <2>1
  <2> QED
    BY <2>2
<1> QED
  BY <1>3, <1>4, <1>5, <1>6, <1>7 DEF IInv

\* The top call deletes its node and returns.  Only the call below it waits
\* for that feature; the lists of the others hold older features only.
LEMMA DeleteInv ==
    ASSUME IInv, Delete
    PROVE  IInv'
<1> DEFINE n == Len(stack)
           f == Top.feature
<1>0. TypeOK /\ Unrecorded /\ Agree /\ Older /\ Sorted /\ Calls /\ Copies
  BY DEF IInv, Graph
<1>1. /\ n \in Nat \ {0} /\ stack \in Seq(Pending)
      /\ f \in Features /\ f \in featMap /\ f = stack[n].feature
      /\ children[f] = <<>>
      /\ \A h \in Features : f \notin parents[h]
  <2>1. ~Idle /\ Top.to_inv = <<>>
    BY DEF Delete
  <2> QED
    BY <1>0, <2>1, TopCall DEF TypeOK, Top
<1>2. /\ stack' \in Seq(Pending) /\ Len(stack') = n - 1
      /\ \A k \in 1..n-1 : stack'[k] = stack[k]
  BY <1>1, Popped DEF Delete
<1> HIDE DEF n, f
<1>3. ASSUME NEW g \in parents[f]
      PROVE  /\ g \in Features /\ g # f /\ f \in Elems(children[g])
             /\ Unlinked(children[g], f) \in Seq(Features)
             /\ Elems(Unlinked(children[g], f)) = Elems(children[g]) \ {f}
             /\ Youngest(Unlinked(children[g], f))
             /\ Head(children[g]) = f => Unlinked(children[g], f) = Tail(children[g])
  <2>1. g \in Features /\ g # f
    BY <1>0, <1>1 DEF TypeOK
  <2>2. /\ f \in Elems(children[g]) /\ children[g] \in Seq(Features)
        /\ Youngest(children[g]) /\ born \in [Features -> Nat]
    BY <1>0, <1>1, <2>1 DEF Agree, TypeOK, Sorted
  <2> QED
    BY <2>1, <2>2, UnlinkedList
<1>4. /\ children'[f] = <<>>
      /\ \A g \in parents[f] : children'[g] = Unlinked(children[g], f)
      /\ \A g \in Features : g # f /\ g \notin parents[f] => children'[g] = children[g]
  BY <1>1, <1>3 DEF Delete, f
<1>5. parents'[f] = {} /\ \A g \in Features : g # f => parents'[g] = parents[g]
  BY <1>0, <1>1 DEF Delete, TypeOK, f
<1>6. /\ featMap' = featMap \ {f} /\ born' = born /\ clock' = clock
      /\ deps' = deps /\ closing' = closing
  BY DEF Delete, f
<1>7. TypeOK'
  <2>1. children' \in [Features -> Seq(Features)]
    BY <1>0, <1>3, EmptySeq DEF Delete, TypeOK, f
  <2>2. parents' \in [Features -> SUBSET Features]
    BY <1>0 DEF Delete, TypeOK
  <2> QED
    BY <1>0, <1>2, <1>6, <2>1, <2>2 DEF TypeOK
<1>8. Unrecorded'
  <2> SUFFICES ASSUME NEW g \in Features, g \notin featMap \ {f}
               PROVE  children'[g] = <<>> /\ parents'[g] = {}
    BY <1>6 DEF Unrecorded
  <2>1. CASE g = f
    BY <1>4, <1>5, <2>1
  <2>2. CASE g # f
    <3>1. g \notin featMap /\ children[g] = <<>> /\ parents[g] = {}
      BY <1>0, <2>2 DEF Unrecorded
    <3>2. g \notin parents[f]
      BY <1>0, <1>1, <3>1 DEF Older
    <3> QED
      BY <1>4, <1>5, <2>2, <3>1, <3>2
  <2> QED
    BY <2>1, <2>2
<1>9. Agree'
  <2> SUFFICES ASSUME NEW h \in Features, NEW g \in Features
               PROVE  h \in Elems(children'[g]) <=> g \in parents'[h]
    BY DEF Agree, Elems
  <2>1. h \in Elems(children[g]) <=> g \in parents[h]
    BY <1>0 DEF Agree
  <2>2. g \in parents'[h] <=> h # f /\ g # f /\ g \in parents[h]
    BY <1>1, <1>5
  <2>3. CASE g = f
    <3>1. Elems(children'[g]) = {}
      BY <1>4, <2>3 DEF Elems
    <3> QED
      BY <2>2, <2>3, <3>1
  <2>4. CASE g \in parents[f]
    <3>1. children'[g] = Unlinked(children[g], f)
      BY <1>4, <2>4
    <3>2. g # f /\ Elems(Unlinked(children[g], f)) = Elems(children[g]) \ {f}
      BY <1>3, <2>4
    <3> QED
      BY <2>1, <2>2, <3>1, <3>2, Zenon
  <2>5. CASE g # f /\ g \notin parents[f]
    <3>1. children'[g] = children[g]
      BY <1>4, <2>5
    <3> QED
      BY <2>1, <2>2, <2>5, <3>1
  <2> QED
    BY <2>3, <2>4, <2>5
<1>10. Older'
  <2>1. ASSUME NEW h \in Features, NEW g \in Features, g \in parents'[h]
        PROVE  g \in featMap' /\ born'[g] < born'[h]
    <3>1. h # f /\ g \in parents[h] /\ g # f
      BY <1>1, <1>5, <2>1
    <3> QED
      BY <1>0, <1>6, <3>1 DEF Older
  <2> QED
    BY <1>0, <1>6, <2>1 DEF Older
<1>11. Sorted'
  <2> SUFFICES ASSUME NEW g \in Features PROVE Youngest(children'[g])
    BY <1>6 DEF Sorted, Youngest
  <2>1. CASE g = f
    BY <1>4, <2>1 DEF Youngest
  <2>2. CASE g \in parents[f]
    <3>1. children'[g] = Unlinked(children[g], f) /\ Youngest(Unlinked(children[g], f))
      BY <1>3, <1>4, <2>2
    <3> QED
      BY <3>1
  <2>3. CASE g # f /\ g \notin parents[f]
    BY <1>0, <1>4, <2>3 DEF Sorted
  <2> QED
    BY <2>1, <2>2, <2>3
<1>12. \A k \in 1..n-1 : k \in 1..n /\ k < n /\ born[stack[k].feature] < born[f]
  BY <1>0, <1>1 DEF Calls, n
<1>13. \A k \in 1..n-1 : stack[k].feature \in Features /\ stack[k].feature # f
  <2> TAKE k \in 1..n-1
  <2>1. stack[k].feature \in featMap
    BY <1>0, <1>12 DEF Calls, n
  <2>2. born[f] \in Nat
    BY <1>0, <1>1 DEF TypeOK
  <2> QED
    BY <1>0, <1>12, <2>1, <2>2 DEF TypeOK
<1>14. Calls'
  <2>1. \A k \in 1..n-1 : stack[k].feature \in featMap \ {f}
    BY <1>0, <1>12, <1>13 DEF Calls, n
  <2>2. \A j, k \in 1..n-1 : j < k => born[stack[j].feature] < born[stack[k].feature]
    BY <1>0, <1>12 DEF Calls, n
  <2> QED
    BY <1>2, <1>6, <2>1, <2>2 DEF Calls
<1>15. Copies'
  <2> SUFFICES ASSUME NEW k \in 1..n-1
      PROVE  /\ k = n - 1 => children'[stack[k].feature] = stack[k].to_inv
             /\ k < n - 1 =>
                  /\ children'[stack[k].feature] # <<>>
                  /\ Head(children'[stack[k].feature]) = stack[k + 1].feature
                  /\ Tail(children'[stack[k].feature]) = stack[k].to_inv
    <3>1. \A k \in 1..n-1 : k < n - 1 => k + 1 \in 1..n-1
      BY <1>1
    <3> QED
      BY <1>2, <3>1 DEF Copies
  <2> DEFINE g == stack[k].feature
  <2>1. /\ g \in Features /\ g # f /\ children[g] \in Seq(Features)
        /\ Youngest(children[g])
        /\ children[g] # <<>> /\ Head(children[g]) = stack[k + 1].feature
        /\ Tail(children[g]) = stack[k].to_inv
    BY <1>0, <1>12, <1>13 DEF TypeOK, Sorted, Copies, n
  <2>2. /\ Len(children[g]) \in Nat /\ 1 \in 1..Len(children[g])
        /\ Head(children[g]) = children[g][1]
    BY <2>1, EmptySeq
  <2>3. CASE k = n - 1
    <3>1. Head(children[g]) = f
      BY <1>1, <2>1, <2>3
    <3>2. f \in Elems(children[g])
      BY <2>2, <3>1 DEF Elems
    <3>3. g \in parents[f]
      BY <1>0, <1>1, <2>1, <3>2 DEF Agree
    <3>4. children'[g] = Unlinked(children[g], f)
      BY <1>4, <3>3
    <3>5. Unlinked(children[g], f) = Tail(children[g])
      BY <1>3, <3>1, <3>3
    <3> QED
      BY <2>1, <2>3, <3>4, <3>5
  <2>4. CASE k < n - 1
    <3>1. k + 1 \in 1..n-1
      BY <1>1, <2>4
    <3>2. born[children[g][1]] < born[f]
      BY <1>12, <2>1, <2>2, <3>1
    <3>3. ASSUME NEW i \in 1..Len(children[g]) PROVE children[g][i] # f
      <4>1. children[g][1] \in Features /\ children[g][i] \in Features
        BY <2>1, <2>2, ElementOfSeq
      <4>2. born[children[g][1]] \in Nat /\ born[children[g][i]] \in Nat /\ born[f] \in Nat
        BY <1>0, <1>1, <4>1 DEF TypeOK
      <4>3. i # 1 => born[children[g][i]] < born[children[g][1]]
        BY <2>1, <2>2 DEF Youngest
      <4> QED
        BY <3>2, <4>2, <4>3
    <3>4. f \notin Elems(children[g])
      BY <3>3 DEF Elems
    <3>5. g \notin parents[f]
      BY <1>0, <1>1, <2>1, <3>4 DEF Agree
    <3>6. children'[g] = children[g]
      BY <1>4, <2>1, <3>5
    <3> QED
      BY <2>1, <2>4, <3>6
  <2> QED
    BY <1>1, <2>3, <2>4
<1>16. Closed'
  <2> SUFFICES ASSUME closing, NEW g \in featMap \ {f}, g \notin deps
               PROVE  \E k \in 1..n-1 : stack'[k].feature = g
    BY <1>2, <1>6 DEF Closed
  <2>1. PICK k \in 1..n : stack[k].feature = g
    BY DEF IInv, Closed, n
  <2>2. k \in 1..n-1
    BY <1>1, <2>1
  <2> QED
    BY <1>2, <2>1, <2>2
<1> QED
  BY <1>7, <1>8, <1>9, <1>10, <1>11, <1>14, <1>15, <1>16 DEF IInv, Graph

-----------------------------------------------------------------------------

\* Every step keeps the invariant.
LEMMA NextInv == IInv /\ [Next]_vars => IInv'
<1> SUFFICES ASSUME IInv, [Next]_vars PROVE IInv'
  OBVIOUS
<1>1. ASSUME NEW f \in Features, NEW required \in SUBSET featMap,
             Provide(f, required)
      PROVE  IInv'
  BY <1>1, ProvideInv
<1>2. ASSUME NEW f \in Features, Invalidate(f) PROVE IInv'
  <2>1. /\ f \in featMap /\ Idle /\ stack' = <<Call(f)>> /\ closing = FALSE
        /\ UNCHANGED <<graph, born, clock>> /\ deps' = deps /\ closing' = closing
    BY <1>2 DEF Invalidate, IInv, TypeOK
  <2> QED
    BY <2>1, CallInv DEF IInv, TypeOK
<1>3. ASSUME NEW f \in Features, CloseOne(f) PROVE IInv'
  <2>1. /\ Idle /\ deps' = deps \ {f} /\ closing' = closing
        /\ UNCHANGED <<graph, born, clock>>
        /\ stack' = IF f \in featMap THEN <<Call(f)>> ELSE stack
    BY <1>3 DEF CloseOne
  <2>2. deps' \in SUBSET Features /\ deps \subseteq deps' \union {f}
    BY <2>1 DEF IInv, TypeOK
  <2>3. CASE f \in featMap
    BY <2>1, <2>2, <2>3, CallInv
  <2>4. CASE f \notin featMap
    <3>1. stack' = stack
      BY <2>1, <2>4
    <3>2. TypeOK'
      BY <2>1, <2>2, <3>1 DEF IInv, TypeOK, graph
    <3>3. Graph'
      BY <2>1 DEF IInv, Graph, Unrecorded, Agree, Older, Sorted, Youngest, Elems, graph
    <3>4. Calls' /\ Copies'
      BY <2>1, <3>1 DEF IInv, Calls, Copies, graph
    <3>5. Closed'
      BY <2>1, <2>4, <3>1 DEF IInv, Closed, graph
    <3> QED
      BY <3>2, <3>3, <3>4, <3>5 DEF IInv
  <2> QED
    BY <2>3, <2>4
<1>4. ASSUME Close PROVE IInv'
  <2>1. /\ Idle /\ deps' = featMap /\ closing' = TRUE /\ stack' = stack
        /\ UNCHANGED <<graph, born, clock>>
    BY <1>4 DEF Close
  <2>2. TypeOK'
    BY <2>1 DEF IInv, TypeOK, graph
  <2>3. Graph'
    BY <2>1 DEF IInv, Graph, Unrecorded, Agree, Older, Sorted, Youngest, Elems, graph
  <2>4. Calls' /\ Copies'
    BY <2>1 DEF IInv, Calls, Copies, graph
  <2>5. Closed'
    BY <2>1 DEF Closed, graph
  <2> QED
    BY <2>2, <2>3, <2>4, <2>5 DEF IInv
<1>5. CASE UNCHANGED vars
  <2>1. /\ UNCHANGED <<graph, born, clock>> /\ stack' = stack
        /\ deps' = deps /\ closing' = closing
    BY <1>5 DEF vars, graph
  <2>2. TypeOK' /\ Calls' /\ Copies' /\ Closed'
    BY <2>1 DEF IInv, TypeOK, Calls, Copies, Closed, graph
  <2>3. Graph'
    BY <2>1 DEF IInv, Graph, Unrecorded, Agree, Older, Sorted, Youngest, Elems, graph
  <2> QED
    BY <2>2, <2>3 DEF IInv
<1> QED
  BY <1>1, <1>2, <1>3, <1>4, <1>5, DescendInv, DeleteInv DEF Next

LEMMA Invariance == Spec => []IInv
<1> QED
  BY InitInv, NextInv, PTL DEF Spec

-----------------------------------------------------------------------------

\* The feature map, the two lists of each node and the calls in progress keep
\* the types the code gives them.
THEOREM TypeCorrect == Spec => []TypeOK
<1>1. IInv => TypeOK
  BY DEF IInv
<1> QED
  BY <1>1, Invariance, PTL

\* invalidate() never follows a copied pointer to a freed node, for any
\* dependency graph a workspace can hold.
THEOREM CopiedPointersLive == Spec => []NoDanglingRead
<1>1. IInv => NoDanglingRead
  BY TopCall DEF NoDanglingRead
<1> QED
  BY <1>1, Invariance, PTL

\* delFeatDep() finds the node it deletes, and nothing depends on it: neither
\* assertion can fail.
THEOREM AssertionsHold == Spec => []DeletedAlone
<1>1. IInv => DeletedAlone
  BY TopCall DEF DeletedAlone
<1> QED
  BY <1>1, Invariance, PTL

\* A provided feature always has everything it was computed from, also between
\* the steps of an invalidation.
THEOREM BasesPresent == Spec => []NoneOutlivesItsBase
<1>1. IInv => NoneOutlivesItsBase
  BY DEF IInv, Graph, Agree, Older, TypeOK, NoneOutlivesItsBase
<1> QED
  BY <1>1, Invariance, PTL

\* When the destructor of the workspace is done, every node was deleted.
THEOREM DestructorEmpties == Spec => []AllReleased
<1>1. IInv => AllReleased
  BY DEF IInv, Closed, AllReleased, Idle
<1> QED
  BY <1>1, Invariance, PTL

-----------------------------------------------------------------------------
(* An invalidation, however many calls it takes, is one step of Features.  *)

LEMMA CallFeature ==
    ASSUME IInv
    PROVE  \A k \in 1..Len(stack) : stack[k].feature \in Features
<1> TAKE k \in 1..Len(stack)
<1>1. stack[k] \in Pending
  BY ElementOfSeq DEF IInv, TypeOK
<1> QED
  BY <1>1 DEF Pending

\* Each call waits for a feature that depends on its own.
LEMMA ChainStep ==
    ASSUME IInv, NEW k \in 1..Len(stack), k < Len(stack)
    PROVE  /\ stack[k].feature \in Features /\ stack[k + 1].feature \in Features
           /\ stack[k].feature \in parents[stack[k + 1].feature]
<1> DEFINE f == stack[k].feature
           g == stack[k + 1].feature
<1>1. Len(stack) \in Nat /\ k + 1 \in 1..Len(stack)
  BY LenProperties DEF IInv, TypeOK
<1>2. f \in Features /\ g \in Features
  BY <1>1, CallFeature
<1>3. children[f] \in Seq(Features) /\ children[f] # <<>> /\ Head(children[f]) = g
  BY <1>2 DEF IInv, TypeOK, Copies
<1>4. g \in Elems(children[f])
  <2>1. 1 \in 1..Len(children[f]) /\ children[f][1] = g
    BY <1>3, EmptySeq
  <2> QED
    BY <2>1 DEF Elems
<1> QED
  BY <1>2, <1>4 DEF IInv, Graph, Agree

\* A cone is the least set of its kind.
LEMMA ConeLeast ==
    ASSUME NEW r \in Features, NEW req
    PROVE  /\ Cone(r, req) \subseteq Features
           /\ r \in Cone(r, req)
           /\ Holding(Cone(r, req), req)
           /\ \A S \in SUBSET Features :
                r \in S /\ Holding(S, req) => Cone(r, req) \subseteq S
<1>1. /\ Cone(r, req) \subseteq Features /\ r \in Cone(r, req)
      /\ \A S \in SUBSET Features :
            r \in S /\ Holding(S, req) => Cone(r, req) \subseteq S
  BY DEF Cone
<1>2. ASSUME NEW h \in Features, NEW g \in req[h], g \in Cone(r, req)
      PROVE  h \in Cone(r, req)
  <2> SUFFICES ASSUME NEW S \in SUBSET Features, r \in S, Holding(S, req)
               PROVE  h \in S
    BY DEF Cone
  <2>1. g \in S
    BY <1>1, <1>2
  <2> QED
    BY <2>1 DEF Holding
<1>3. Holding(Cone(r, req), req)
  BY <1>2 DEF Holding
<1> QED
  BY <1>1, <1>3

\* Nothing is in a cone without a reason.
LEMMA ConeReason ==
    ASSUME NEW r \in Features, NEW req, NEW g \in Cone(r, req), g # r
    PROVE  req[g] \cap Cone(r, req) # {}
<1> DEFINE K == Cone(r, req)
<1> SUFFICES ASSUME req[g] \cap K = {} PROVE FALSE
  OBVIOUS
<1>1. /\ K \subseteq Features /\ r \in K /\ Holding(K, req)
      /\ \A S \in SUBSET Features : r \in S /\ Holding(S, req) => K \subseteq S
  BY ConeLeast
<1> HIDE DEF K
<1>2. Holding(K \ {g}, req)
  BY <1>1 DEF Holding
<1> QED
  <2>1. K \ {g} \in SUBSET Features /\ r \in K \ {g}
    BY <1>1
  <2>2. K \subseteq K \ {g}
    BY <1>1, <1>2, <2>1
  <2> QED
    BY <2>2 DEF K

\* Only provided features are in the cone of a provided one.
LEMMA ConeProvided ==
    ASSUME IInv, NEW f \in featMap
    PROVE  Cone(f, parents) \subseteq featMap
<1>1. featMap \in SUBSET Features
  BY DEF IInv, TypeOK
<1>2. Holding(featMap, parents)
  BY DEF IInv, Graph, Unrecorded, Holding
<1> QED
  BY <1>1, <1>2, ConeLeast

\* All the calls in progress are for features the invalidation takes away.
LEMMA CallsGoing ==
    ASSUME IInv, ~Idle
    PROVE  \A k \in 1..Len(stack) : stack[k].feature \in Going
<1> DEFINE T == {k \in 1..Len(stack) : stack[k].feature \notin Going}
           R == {ss \in Nat \X Nat : ss[1] < ss[2]}
<1> SUFFICES ASSUME T # {} PROVE FALSE
  OBVIOUS
<1>1. Len(stack) \in Nat \ {0} /\ T \in SUBSET Nat
  BY TopCall
<1>2. IsWellFoundedOn(R, Nat)
  BY NatLessThanWellFounded, Zenon DEF OpToRel
<1>3. PICK x \in T : \A y \in T : ~ (<<y, x>> \in R)
  BY <1>1, <1>2, WFMin, Zenon
<1>4. x \in 1..Len(stack) /\ stack[x].feature \notin Going
  OBVIOUS
<1>5. x # 1
  <2>1. stack[1].feature \in Features
    BY <1>1, CallFeature
  <2> QED
    BY <1>4, <2>1, ConeLeast DEF Going
<1>6. x - 1 \in 1..Len(stack) /\ x - 1 < Len(stack) /\ x - 1 + 1 = x /\ x - 1 < x
  BY <1>1, <1>4, <1>5
<1>7. stack[x - 1].feature \in Going
  BY <1>1, <1>3, <1>4, <1>6
<1>8. /\ stack[x].feature \in Features
      /\ stack[x - 1].feature \in parents[stack[x].feature]
  BY <1>6, ChainStep
<1>9. Holding(Going, parents)
  BY <1>1, CallFeature, ConeLeast DEF Going
<1> QED
  BY <1>4, <1>7, <1>8, <1>9 DEF Holding

\* What an observer sees does not change when an inner call returns, nor when
\* the outermost one does.
LEMMA DeleteStutters ==
    ASSUME IInv, Delete
    PROVE  /\ (featMap \ Going)' = featMap \ Going
           /\ \A g \in Features :
                (IF g \in Going' THEN {} ELSE parents'[g])
                    = (IF g \in Going THEN {} ELSE parents[g])
<1> DEFINE n == Len(stack)
           f == Top.feature
           r == stack[1].feature
<1>1. /\ ~Idle /\ n \in Nat \ {0} /\ f \in Features /\ f \in featMap
      /\ f = stack[n].feature /\ \A h \in Features : f \notin parents[h]
      /\ stack \in Seq(Pending)
  <2>1. ~Idle /\ Top.to_inv = <<>>
    BY DEF Delete
  <2> QED
    BY <2>1, TopCall DEF IInv, TypeOK, Top
<1>2. f \in Going
  BY <1>1, CallsGoing
<1>3. /\ featMap' = featMap \ {f} /\ parents'[f] = {}
      /\ \A g \in Features : g # f => parents'[g] = parents[g]
  BY <1>1 DEF Delete, IInv, TypeOK
<1>4. /\ stack' \in Seq(Pending) /\ Len(stack') = n - 1
      /\ \A k \in 1..n-1 : stack'[k] = stack[k]
  BY <1>1, Popped DEF Delete
<1>5. Going' = Going \ {f}
  <2>1. CASE n = 1
    <3>1. r = f
      BY <1>1, <2>1
    <3>2. Holding({f}, parents)
      BY <1>1 DEF Holding
    <3>3. Going \subseteq {f}
      BY <1>1, <3>1, <3>2, ConeLeast DEF Going
    <3>4. stack' = <<>>
      BY <1>4, <2>1, EmptySeq
    <3> QED
      BY <3>3, <3>4 DEF Going, Idle
  <2>2. CASE n # 1
    <3>1. 1 \in 1..n-1 /\ 1 \in 1..n /\ n \in 1..n /\ 1 < n
      BY <1>1, <2>2
    <3>2. ~Idle' /\ stack'[1].feature = r
      BY <1>4, <3>1 DEF Idle
    <3>3. r \in Features /\ r # f
      <4>1. r \in Features
        BY <3>1, CallFeature
      <4>2. born[r] < born[f]
        BY <1>1, <3>1 DEF IInv, Calls
      <4> QED
        BY <1>1, <4>1, <4>2 DEF IInv, TypeOK
    <3>4. /\ Going' \subseteq Features /\ r \in Going' /\ Holding(Going', parents')
          /\ \A S \in SUBSET Features :
                r \in S /\ Holding(S, parents') => Going' \subseteq S
      BY <3>2, <3>3, ConeLeast DEF Going
    <3>5. /\ Going \subseteq Features /\ r \in Going /\ Holding(Going, parents)
          /\ \A S \in SUBSET Features :
                r \in S /\ Holding(S, parents) => Going \subseteq S
      BY <1>1, <3>3, ConeLeast DEF Going
    <3> HIDE DEF r, f, n
    <3>6. Going' \subseteq Going \ {f}
      <4>1. Holding(Going \ {f}, parents')
        <5> SUFFICES ASSUME NEW h \in Features, NEW g \in parents'[h], g \in Going \ {f}
                     PROVE  h \in Going \ {f}
          BY DEF Holding
        <5>1. h # f /\ g \in parents[h]
          BY <1>3
        <5> QED
          BY <3>5, <5>1 DEF Holding
      <4>2. Going \ {f} \in SUBSET Features /\ r \in Going \ {f}
        BY <3>3, <3>5
      <4> QED
        BY <3>4, <4>1, <4>2
    <3>7. Going \subseteq Going' \union {f}
      <4>1. Holding(Going' \union {f}, parents)
        <5> SUFFICES ASSUME NEW h \in Features, NEW g \in parents[h],
                            g \in Going' \union {f}, h # f
                     PROVE  h \in Going'
          BY DEF Holding
        <5>1. g \in Going' /\ g \in parents'[h]
          BY <1>1, <1>3
        <5> QED
          BY <3>4, <5>1 DEF Holding
      <4>2. Going' \union {f} \in SUBSET Features
        BY <1>1, <3>4
      <4> QED
        BY <3>4, <3>5, <4>1, <4>2
    <3>8. f \notin Going'
      BY <3>6
    <3> QED
      BY <1>2, <3>6, <3>7, <3>8
  <2> QED
    BY <2>1, <2>2
<1>6. (featMap \ Going)' = featMap \ Going
  BY <1>2, <1>3, <1>5
<1>7. ASSUME NEW g \in Features
      PROVE  (IF g \in Going' THEN {} ELSE parents'[g])
                = (IF g \in Going THEN {} ELSE parents[g])
  <2>1. CASE g = f
    BY <1>2, <1>3, <1>5, <2>1
  <2>2. CASE g # f
    BY <1>3, <1>5, <2>2
  <2> QED
    BY <2>1, <2>2
<1> QED
  BY <1>6, <1>7

\* One invalidation takes away what was computed from its feature and nothing
\* else, in one step of Features at the outermost call; providing adds one
\* feature; all other steps change nothing an observer sees.
THEOREM ImplementsFeatures == Spec => KeepsPromise
<1> DEFINE seen == featMap \ Going
           needs == [f \in Features |-> IF f \in Going THEN {} ELSE parents[f]]
<1>1. Init => Promise!Init
  BY DEF Init, Promise!Init, Going, Idle
<1>2. ASSUME IInv, [Next]_vars
      PROVE  [Promise!Next]_<<seen, needs>>
  <2> USE <1>2
  <2>1. ASSUME NEW f \in Features, NEW required \in SUBSET featMap,
               Provide(f, required)
        PROVE  Promise!Provide(f, required) /\ required \in SUBSET seen
    <3>1. /\ Idle /\ Idle' /\ Going = {} /\ Going' = {}
      BY <2>1 DEF Provide, Idle, Going
    <3>2. /\ f \notin featMap /\ featMap' = featMap \union {f}
          /\ parents' = [parents EXCEPT ![f] = required]
      BY <2>1 DEF Provide
    <3> QED
      BY <3>1, <3>2 DEF Promise!Provide, IInv, TypeOK
  <2>2. ASSUME NEW f \in featMap, Idle, stack' = <<Call(f)>>, UNCHANGED graph
        PROVE  f \in Features /\ Promise!Invalidate(f)
    <3> DEFINE K == Cone(f, parents)
    <3>1. f \in Features
      BY DEF IInv, TypeOK
    <3>2. Going = {} /\ Going' = K
      BY <2>2 DEF Going, Idle, Call, graph
    <3>3. needs = parents
      BY <3>2 DEF IInv, TypeOK
    <3>4. /\ K \subseteq featMap /\ f \in K /\ Holding(K, parents)
          /\ \A g \in K : g = f \/ parents[g] \cap K # {}
      BY <3>1, ConeProvided, ConeLeast, ConeReason
    <3> HIDE DEF K
    <3> DEFINE gone == seen \ seen'
    <3>5. seen' \subseteq seen /\ gone = K
      BY <2>2, <3>2, <3>4 DEF graph
    <3>6. needs' = [g \in Features |-> IF g \in K THEN {} ELSE parents[g]]
      BY <2>2, <3>2 DEF graph
    <3>7. /\ f \in gone /\ Holding(gone, needs)
          /\ \A g \in gone : g = f \/ needs[g] \cap gone # {}
          /\ needs' = [g \in Features |-> IF g \in gone THEN {} ELSE needs[g]]
      <4> HIDE DEF gone, needs
      <4> QED
        BY <3>3, <3>4, <3>5, <3>6
    <3> QED
      BY <3>1, <3>5, <3>7, Zenon DEF Promise!Invalidate, Promise!Holding, Holding
  <2>3. ASSUME Going' = Going, UNCHANGED graph
        PROVE  UNCHANGED <<seen, needs>>
    BY <2>3 DEF graph
  <2>4. CASE Descend
    <3>1. ~Idle /\ ~Idle' /\ stack'[1].feature = stack[1].feature
      <4>1. /\ ~Idle /\ Len(stack) \in Nat \ {0} /\ Len(stack') = Len(stack) + 1
            /\ \A k \in 1..Len(stack) : stack'[k].feature = stack[k].feature
        BY <2>4, DescendStack
      <4>2. 1 \in 1..Len(stack) /\ Len(stack') # 0
        BY <4>1
      <4> QED
        BY <4>1, <4>2, EmptySeq DEF Idle
    <3>2. Going' = Going
      BY <2>4, <3>1 DEF Going, Descend, graph
    <3> QED
      BY <2>3, <2>4, <3>2 DEF Descend
  <2>5. CASE Delete
    <3>1. /\ seen' = seen
          /\ \A g \in Features :
                (IF g \in Going' THEN {} ELSE parents'[g])
                    = (IF g \in Going THEN {} ELSE parents[g])
      BY <2>5, DeleteStutters
    <3> QED
      BY <3>1
  <2>6. CASE Close \/ UNCHANGED vars
    <3>1. stack' = stack /\ UNCHANGED graph
      BY <2>6 DEF Close, vars, graph
    <3> QED
      BY <2>3, <3>1 DEF Going, Idle, graph
  <2>7. ASSUME NEW f \in Features, Invalidate(f) PROVE Promise!Invalidate(f)
    BY <2>2, <2>7 DEF Invalidate
  <2>8. ASSUME NEW f \in Features, CloseOne(f)
        PROVE  Promise!Invalidate(f) \/ UNCHANGED <<seen, needs>>
    <3>1. CASE f \in featMap
      BY <2>2, <2>8, <3>1 DEF CloseOne
    <3>2. CASE f \notin featMap
      BY <2>3, <2>8, <3>2 DEF CloseOne, Going, Idle, graph
    <3> QED
      BY <3>1, <3>2
  <2> QED
    BY <2>1, <2>4, <2>5, <2>6, <2>7, <2>8 DEF Next, Promise!Next
<1> QED
  BY <1>1, <1>2, Invariance, PTL DEF Spec, KeepsPromise, Promise!Spec
=============================================================================
