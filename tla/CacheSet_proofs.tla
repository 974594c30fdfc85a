--------------------------- MODULE CacheSet_proofs ---------------------------
(***************************************************************************)
(* Facts about one LRU set, and the types of the operations of the domains *)
(* of MUST and PERS, used by the proofs about the cache drivers and about  *)
(* the cache analyses.                                                     *)
(***************************************************************************)
EXTENDS CacheDomains, FiniteSetTheorems, WellFoundedInduction, TLAPS

(* A non-empty set of naturals has a least element.                        *)
LEMMA LeastElement ==
    ASSUME NEW T \in SUBSET Nat, T # {}
    PROVE  \E x \in T : \A y \in T : x <= y
<1> DEFINE R == {ss \in Nat \X Nat : ss[1] < ss[2]}
<1>1. IsWellFoundedOn(R, Nat)
  BY NatLessThanWellFounded, Zenon DEF OpToRel
<1>2. PICK x \in T : \A y \in T : ~ (<<y, x>> \in R)
  BY <1>1, WFMin, Zenon
<1>3. \A y \in T : ~ (y < x)
  BY <1>2
<1> QED
  BY <1>3

(* access() finds the first way that holds a tag of the set.               *)
LEMMA LookupFirst ==
    ASSUME NEW line, NEW tag, Holds(line, tag)
    PROVE  /\ Lookup(line, tag) \in Ways
           /\ FirstAt(line, tag, Lookup(line, tag))
<1> DEFINE T == {i \in Ways : line[i] = tag}
<1>1. T \in SUBSET Nat /\ T # {}
  BY AAssumption DEF Holds, Ways
<1>2. PICK x \in T : \A y \in T : x <= y
  BY <1>1, LeastElement
<1>3. FirstAt(line, tag, x)
  <2>1. \A j \in Ways : j < x => j \notin T
    BY <1>1, <1>2
  <2> QED
    BY <2>1 DEF FirstAt
<1> QED
  BY <1>3 DEF Lookup

(* An access leaves a line of tags, with the accessed one in front.        *)
LEMMA AccessFront ==
    ASSUME NEW line \in Lines, NEW tag \in Tags
    PROVE  /\ LRUAccess(tag, line) \in Lines
           /\ LRUAccess(tag, line)[0] = tag
<1>1. CASE Holds(line, tag)
  <2> DEFINE p == Lookup(line, tag)
  <2>1. p \in Ways /\ line[p] = tag
    BY <1>1, LookupFirst DEF FirstAt
  <2>2. LRUAccess(tag, line) = LRUTouch(p, line)
    BY <1>1 DEF LRUAccess
  <2> HIDE DEF p
  <2> QED
    BY <2>1, <2>2, AAssumption DEF LRUTouch, Lines, Ways
<1>2. CASE ~ Holds(line, tag)
  <2>1. LRUAccess(tag, line) = LRUReplace(tag, line)
    BY <1>2 DEF LRUAccess
  <2> QED
    BY <2>1, AAssumption DEF LRUReplace, Lines, Ways
<1> QED
  BY <1>1, <1>2

(* An access makes another tag at most one older, and no older when the    *)
(* accessed tag was not behind it.                                         *)
LEMMA AccessKeeps ==
    ASSUME NEW line \in Lines, NEW tag \in Tags, NEW b, b # tag,
           NEW n \in Ways, Within(line, b, n)
    PROVE  /\ n + 1 \in Ways => Within(LRUAccess(tag, line), b, n + 1)
           /\ \A m \in Ways : m <= n /\ Within(line, tag, m)
                  => Within(LRUAccess(tag, line), b, n)
<1> DEFINE l == LRUAccess(tag, line)
<1>1. PICK j \in 0 .. n : line[j] = b
  BY DEF Within
<1>2. CASE Holds(line, tag)
  <2> DEFINE p == Lookup(line, tag)
  <2>1. p \in Ways /\ line[p] = tag /\ \A i \in Ways : i < p => line[i] # tag
    BY <1>2, LookupFirst DEF FirstAt
  <2>2. l = LRUTouch(p, line)
    BY <1>2 DEF LRUAccess
  <2> HIDE DEF p, l
  <2>3. j < p => l[j + 1] = b
    BY <1>1, <2>1, <2>2, AAssumption DEF LRUTouch, Ways
  <2>4. j > p => l[j] = b
    BY <1>1, <2>1, <2>2, AAssumption DEF LRUTouch, Ways
  <2>5. j < p \/ j > p
    BY <1>1, <2>1, AAssumption DEF Ways
  <2>6. ASSUME NEW m \in Ways, m <= n, Within(line, tag, m)
        PROVE  Within(l, b, n)
    <3>1. p <= m
      BY <2>1, <2>6, AAssumption DEF Within, Ways
    <3> QED
      BY <1>1, <2>1, <2>3, <2>4, <2>5, <2>6, <3>1, AAssumption DEF Within, Ways
  <2>7. Within(l, b, n + 1)
    BY <1>1, <2>3, <2>4, <2>5, AAssumption DEF Within, Ways
  <2> QED
    BY <2>6, <2>7 DEF l
<1>3. CASE ~ Holds(line, tag)
  <2>1. l = LRUReplace(tag, line)
    BY <1>3 DEF LRUAccess
  <2>2. n + 1 \in Ways => l[j + 1] = b
    BY <1>1, <2>1, AAssumption DEF LRUReplace, Ways
  <2>3. \A m \in Ways : ~ Within(line, tag, m)
    BY <1>3, AAssumption DEF Holds, Within, Ways
  <2> QED
    BY <1>1, <2>2, <2>3, AAssumption DEF Within, Ways
<1> QED
  BY <1>2, <1>3

(* A tag no older than n is no older than any m above n.                   *)
LEMMA WithinMore ==
    ASSUME NEW line, NEW b, NEW n \in Nat, NEW m \in Nat, n <= m,
           Within(line, b, n)
    PROVE  Within(line, b, m)
BY DEF Within

-----------------------------------------------------------------------------
(* A function on 1 .. n is a sequence.                                     *)
LEMMA FunctionIsSeq ==
    ASSUME NEW S, NEW n \in Nat, NEW f \in [1 .. n -> S]
    PROVE  f \in Seq(S) /\ Len(f) = n
OBVIOUS

(* The operations of the domains stay in the domains.                      *)
LEMMA MustTypes ==
    /\ MustEntry \in MustDomain
    /\ \A x \in MustDomain, id \in Blocks : MustInject(x, id) \in MustDomain
    /\ \A x, y \in MustDomain : MustLub(x, y) \in MustDomain
<1>1. MustEntry \in MustDomain
  BY AAssumption DEF MustEntry, MustDomain, Absent
<1>2. ASSUME NEW x \in MustDomain, NEW id \in Blocks
      PROVE  MustInject(x, id) \in MustDomain
  BY <1>2, AAssumption DEF MustInject, MustDomain, Older, Absent
<1>3. ASSUME NEW x \in MustDomain, NEW y \in MustDomain
      PROVE  MustLub(x, y) \in MustDomain
  BY <1>3, AAssumption DEF MustLub, MustDomain, Max2, Absent
<1> QED
  BY <1>1, <1>2, <1>3

\* The empty item, injection and join of items are typed.
LEMMA ItemTypes ==
    /\ ItemEmpty \in Item
    /\ \A x \in Item : \A m, id : ItemInject(x, m, id) \in Item
    /\ \A x, y \in Item : ItemLub(x, y) \in Item
<1>1. ItemEmpty \in Item
  BY AAssumption DEF ItemEmpty, Item, Absent
<1>2. ASSUME NEW x \in Item, NEW m, NEW id
      PROVE  ItemInject(x, m, id) \in Item
  BY <1>2, AAssumption DEF ItemInject, Item, Absent
<1>3. ASSUME NEW x \in Item, NEW y \in Item
      PROVE  ItemLub(x, y) \in Item
  BY <1>3, AAssumption DEF ItemLub, Item, Max2, Absent
<1> QED
  BY <1>1, <1>2, <1>3

\* inject() keeps states of PERS typed, and their levels as many.
LEMMA PersInjectType ==
    ASSUME NEW p \in PersDomain, NEW m, NEW id
    PROVE  /\ PersInject(p, m, id) \in PersDomain
           /\ Len(PersInject(p, m, id).data) = Len(p.data)
<1> DEFINE d == [k \in 1 .. Len(p.data) |-> ItemInject(p.data[k], m, id)]
<1>1. p.whole \in Item /\ p.data \in Seq(Item) /\ Len(p.data) \in Nat
  BY DEF PersDomain
<1>2. d \in [1 .. Len(p.data) -> Item]
  BY <1>1, ItemTypes
<1>3. d \in Seq(Item) /\ Len(d) = Len(p.data)
  BY <1>1, <1>2, FunctionIsSeq
<1> QED
  BY <1>1, <1>3, ItemTypes DEF PersInject, PersDomain

\* The level of the right stack that goes with a level of the left one.
LEMMA Counterpart ==
    ASSUME NEW m \in Nat, NEW n \in Nat, NEW k \in 1 .. m, ~(k <= m - n)
    PROVE  k - (m - n) \in 1 .. n
  OBVIOUS

\* The join of two has the levels of its left operand: the outer ones that
\* the right one does not have, and the join of the others.
LEMMA PersLubType ==
    ASSUME NEW p \in PersDomain, NEW q \in PersDomain
    PROVE  LET d == PersLub(p, q)
           IN  /\ d \in PersDomain
               /\ d.whole = ItemLub(p.whole, q.whole)
               /\ Len(d.data) = Len(p.data)
               /\ \A k \in 1 .. Len(p.data) :
                      d.data[k] = IF k <= Len(p.data) - Len(q.data) THEN p.data[k]
                                  ELSE ItemLub(p.data[k],
                                               q.data[k - (Len(p.data) - Len(q.data))])
<1> DEFINE over == Len(p.data) - Len(q.data)
           f == [k \in 1 .. Len(p.data) |->
                    IF k <= over THEN p.data[k]
                    ELSE ItemLub(p.data[k], q.data[k - over])]
<1>1. /\ p.whole \in Item /\ p.data \in Seq(Item) /\ Len(p.data) \in Nat
      /\ q.whole \in Item /\ q.data \in Seq(Item) /\ Len(q.data) \in Nat
  BY DEF PersDomain
<1>2. f \in [1 .. Len(p.data) -> Item]
  <2> SUFFICES ASSUME NEW k \in 1 .. Len(p.data)
               PROVE  (IF k <= over THEN p.data[k]
                       ELSE ItemLub(p.data[k], q.data[k - over])) \in Item
    OBVIOUS
  <2>1. p.data[k] \in Item
    BY <1>1
  <2>2. CASE k <= over
    BY <2>1, <2>2
  <2>3. CASE ~(k <= over)
    <3>1. k - over \in 1 .. Len(q.data)
      BY <1>1, <2>3, Counterpart
    <3>2. q.data[k - over] \in Item
      <4> HIDE DEF over
      <4> QED
        BY <1>1, <3>1
    <3> QED
      BY <2>1, <2>3, <3>2, ItemTypes
  <2> QED
    BY <2>2, <2>3
<1>3. f \in Seq(Item) /\ Len(f) = Len(p.data)
  BY <1>1, <1>2, FunctionIsSeq
<1>4. PersLub(p, q) = [whole |-> ItemLub(p.whole, q.whole), data |-> f]
  BY DEF PersLub
<1>5. ItemLub(p.whole, q.whole) \in Item
  BY <1>1, ItemTypes
<1> QED
  BY <1>3, <1>4, <1>5 DEF PersDomain

\* Entering a loop gives one level more, leaving it one less.
LEMMA PersEnterLeaveTypes ==
    ASSUME NEW p \in PersDomain
    PROVE  /\ PersEnter(p) \in PersDomain
           /\ Len(PersEnter(p).data) = Len(p.data) + 1
           /\ Len(p.data) > 0 => /\ PersLeave(p) \in PersDomain
                                 /\ Len(PersLeave(p).data) = Len(p.data) - 1
<1>1. p.whole \in Item /\ p.data \in Seq(Item) /\ ItemEmpty \in Item
  BY ItemTypes DEF PersDomain
<1>2. /\ Append(p.data, ItemEmpty) \in Seq(Item)
      /\ Len(Append(p.data, ItemEmpty)) = Len(p.data) + 1
  BY <1>1
<1>3. ASSUME Len(p.data) > 0
      PROVE  /\ SubSeq(p.data, 1, Len(p.data) - 1) \in Seq(Item)
             /\ Len(SubSeq(p.data, 1, Len(p.data) - 1)) = Len(p.data) - 1
  BY <1>1, <1>3
<1> QED
  BY <1>1, <1>2, <1>3 DEF PersDomain, PersEnter, PersLeave
-----------------------------------------------------------------------------
(* The ages of x in MUST bound those in the line l; those of y bound what  *)
(* those of x bound.                                                       *)
Bounds(x, l) == \A b \in Blocks : x[b] # Absent => Within(l, b, x[b])
Covers(y, x) == \A b \in Blocks : y[b] # Absent => x[b] # Absent /\ x[b] <= y[b]

(* A join covers both states.                                              *)
LEMMA CoversFacts ==
    /\ \A x \in MustDomain : Covers(x, x)
    /\ \A x, y, z \in MustDomain : Covers(z, y) /\ Covers(y, x) => Covers(z, x)
    /\ \A x, y \in MustDomain : Covers(MustLub(x, y), x) /\ Covers(MustLub(x, y), y)
<1>1. ASSUME NEW x \in MustDomain
      PROVE  Covers(x, x)
  BY AAssumption DEF Covers, MustDomain, Absent
<1>2. ASSUME NEW x \in MustDomain, NEW y \in MustDomain, NEW z \in MustDomain,
             Covers(z, y), Covers(y, x)
      PROVE  Covers(z, x)
  BY <1>2, AAssumption DEF Covers, MustDomain, Absent
<1>3. ASSUME NEW x \in MustDomain, NEW y \in MustDomain
      PROVE  Covers(MustLub(x, y), x) /\ Covers(MustLub(x, y), y)
  BY <1>3, AAssumption DEF Covers, MustLub, Max2, MustDomain, Absent
<1> QED
  BY <1>1, <1>2, <1>3

(* What bounds the ages in a line does so when it is covered.              *)
LEMMA CoversBounds ==
    ASSUME NEW x \in MustDomain, NEW y \in MustDomain, NEW l,
           Covers(y, x), Bounds(x, l)
    PROVE  Bounds(y, l)
<1> SUFFICES ASSUME NEW b \in Blocks, y[b] # Absent
             PROVE  Within(l, b, y[b])
  BY DEF Bounds
<1>1. /\ x[b] # Absent /\ x[b] \in Nat /\ y[b] \in Nat /\ x[b] <= y[b]
  BY AAssumption DEF Covers, MustDomain, Absent
<1>2. Within(l, b, x[b])
  BY <1>1 DEF Bounds
<1> QED
  BY <1>1, <1>2, WithinMore

(* After an access the ages that MUST then has bound those of the line.    *)
LEMMA InjectBounds ==
    ASSUME NEW x \in MustDomain, NEW l \in Lines, NEW id \in Blocks, id \in Tags,
           Bounds(x, l)
    PROVE  Bounds(MustInject(x, id), LRUAccess(id, l))
<1> SUFFICES ASSUME NEW b \in Blocks, NEW a, a = MustInject(x, id)[b], a # Absent
             PROVE  Within(LRUAccess(id, l), b, a)
  BY DEF Bounds
<1>1. CASE b = id
  BY <1>1, AccessFront DEF MustInject, Within
<1>2. CASE b # id
  <2>1. x[b] # Absent /\ x[b] \in Ways
    BY <1>2 DEF MustInject, MustDomain, Older, Absent, Ways
  <2>2. Within(l, b, x[b])
    BY <2>1 DEF Bounds
  <2>3. CASE a = x[b] + 1
    <3>1. x[b] + 1 \in Ways
      BY <1>2, <2>1, <2>3, AAssumption DEF MustInject, MustDomain, Older, Absent, Ways
    <3> QED
      BY <1>2, <2>1, <2>2, <2>3, <3>1, AccessKeeps
  <2>4. CASE a = x[b]
    <3>1. x[id] # Absent /\ x[id] <= x[b] /\ x[id] \in Ways
      BY <1>2, <2>1, <2>4, AAssumption DEF MustInject, MustDomain, Older, Absent, Ways
    <3>2. Within(l, id, x[id])
      BY <3>1 DEF Bounds
    <3> QED
      BY <1>2, <2>1, <2>2, <2>4, <3>1, <3>2, AccessKeeps
  <2> QED
    BY <1>2, <2>1, <2>3, <2>4 DEF MustInject, MustDomain, Older, Absent, Ways
<1> QED
  BY <1>1, <1>2

-----------------------------------------------------------------------------
(* One level of PERS.  The blocks no older than v; below the age j there   *)
(* are no more of them than a set can hold.                                *)
NoOlderThan(x, v) == {b \in Blocks : x[b] # Absent /\ x[b] <= v}
Fits(x, j) == \A v \in 0 .. j - 1 : Cardinality(NoOlderThan(x, v)) <= v + 1

ItemCovers(y, x) == \A b \in Blocks : x[b] <= y[b]

\* An item covers itself and what is covered by one that it covers; a join covers both.
LEMMA ItemCoversFacts ==
    /\ \A x \in Item : ItemCovers(x, x)
    /\ \A x, y, z \in Item : ItemCovers(z, y) /\ ItemCovers(y, x) => ItemCovers(z, x)
    /\ \A x, y \in Item : ItemCovers(ItemLub(x, y), x) /\ ItemCovers(ItemLub(x, y), y)
<1>1. ASSUME NEW x \in Item
      PROVE  ItemCovers(x, x)
  BY AAssumption DEF ItemCovers, Item, Absent
<1>2. ASSUME NEW x \in Item, NEW y \in Item, NEW z \in Item, ItemCovers(z, y), ItemCovers(y, x)
      PROVE  ItemCovers(z, x)
  <2>1. \A b \in Blocks : x[b] \in Int /\ y[b] \in Int /\ z[b] \in Int
    BY AAssumption DEF Item, Absent
  <2> QED
    BY <1>2, <2>1 DEF ItemCovers
<1>3. ASSUME NEW x \in Item, NEW y \in Item
      PROVE  ItemCovers(ItemLub(x, y), x) /\ ItemCovers(ItemLub(x, y), y)
  BY <1>3, AAssumption DEF ItemCovers, ItemLub, Max2, Item, Absent
<1> QED
  BY <1>1, <1>2, <1>3

\* The operations of MUST and PERS are monotonic.
LEMMA InjectMonotonic ==
    ASSUME NEW m \in MustDomain, NEW n \in MustDomain, Covers(n, m),
           NEW x \in Item, NEW y \in Item, ItemCovers(y, x), NEW id \in Blocks
    PROVE  /\ Covers(MustInject(n, id), MustInject(m, id))
           /\ ItemCovers(ItemInject(y, n, id), ItemInject(x, m, id))
<1>1. /\ \A b \in Blocks : m[b] \in -1 .. A - 1 /\ n[b] \in -1 .. A - 1
      /\ \A b \in Blocks : x[b] \in -1 .. A /\ y[b] \in -1 .. A
      /\ \A b \in Blocks : x[b] <= y[b]
      /\ \A b \in Blocks : n[b] # -1 => m[b] # -1 /\ m[b] <= n[b]
  BY DEF MustDomain, Item, Covers, ItemCovers, Absent
<1>2. ASSUME NEW b \in Blocks, MustInject(n, id)[b] # Absent
      PROVE  MustInject(m, id)[b] # Absent /\ MustInject(m, id)[b] <= MustInject(n, id)[b]
  BY <1>1, <1>2, AAssumption DEF MustInject, Older, Absent
<1>3. ASSUME NEW b \in Blocks
      PROVE  ItemInject(x, m, id)[b] <= ItemInject(y, n, id)[b]
  BY <1>1, AAssumption DEF ItemInject, Absent
<1> QED
  BY <1>2, <1>3 DEF Covers, ItemCovers

\* The blocks no older than v after an access.
LEMMA YoungerAfter ==
    ASSUME NEW x \in Item, NEW m \in MustDomain, NEW id \in Blocks,
           NEW y, y = ItemInject(x, m, id), NEW v \in 0 .. A - 1
    PROVE  /\ m[id] = Absent => NoOlderThan(y, v) \subseteq NoOlderThan(x, v - 1) \cup {id}
           /\ x[id] # Absent => \/ NoOlderThan(y, v) \subseteq NoOlderThan(x, v - 1) \cup {id}
                                \/ NoOlderThan(y, v) \subseteq NoOlderThan(x, v)
<1>1. \A b \in Blocks : x[b] \in -1 .. A
  BY DEF Item, Absent
<1>2. ASSUME m[id] = Absent \/ v < x[id]
      PROVE  NoOlderThan(y, v) \subseteq NoOlderThan(x, v - 1) \cup {id}
  BY <1>1, <1>2, AAssumption DEF NoOlderThan, ItemInject, Absent
<1>3. ASSUME x[id] # Absent, x[id] <= v
      PROVE  NoOlderThan(y, v) \subseteq NoOlderThan(x, v)
  BY <1>1, <1>3, AAssumption DEF NoOlderThan, ItemInject, Absent
<1>4. v < x[id] \/ x[id] <= v
  BY <1>1, AAssumption
<1> QED
  BY <1>2, <1>3, <1>4

\* Sets of blocks are finite; a part has no more members; with one more block, one more.
LEMMA CountFacts ==
    /\ IsFiniteSet(Blocks)
    /\ \A x, v : IsFiniteSet(NoOlderThan(x, v)) /\ Cardinality(NoOlderThan(x, v)) \in Nat
    /\ \A S, T : IsFiniteSet(T) /\ S \subseteq T =>
          IsFiniteSet(S) /\ Cardinality(S) <= Cardinality(T) /\ Cardinality(S) \in Nat
    /\ \A S, i : IsFiniteSet(S) =>
          /\ IsFiniteSet(S \cup {i})
          /\ Cardinality(S) \in Nat
          /\ Cardinality(S \cup {i}) <= Cardinality(S) + 1
          /\ i \notin S => Cardinality(S \cup {i}) = Cardinality(S) + 1
<1>1. IsFiniteSet(Blocks)
  BY SizeAssumption, FS_Interval DEF Blocks
<1>2. \A S, T : IsFiniteSet(T) /\ S \subseteq T =>
          IsFiniteSet(S) /\ Cardinality(S) <= Cardinality(T) /\ Cardinality(S) \in Nat
  BY FS_Subset, FS_CardinalityType
<1>3. \A x, v : NoOlderThan(x, v) \subseteq Blocks
  BY DEF NoOlderThan
<1>4. ASSUME NEW S, NEW i, IsFiniteSet(S)
      PROVE  /\ IsFiniteSet(S \cup {i})
             /\ Cardinality(S) \in Nat
             /\ Cardinality(S \cup {i}) <= Cardinality(S) + 1
             /\ i \notin S => Cardinality(S \cup {i}) = Cardinality(S) + 1
  <2>1. Cardinality(S) \in Nat
    BY <1>4, FS_CardinalityType
  <2>2. /\ IsFiniteSet(S \cup {i})
        /\ Cardinality(S \cup {i}) = IF i \in S THEN Cardinality(S) ELSE Cardinality(S) + 1
    BY <1>4, FS_AddElement
  <2> QED
    BY <2>1, <2>2
<1> QED
  BY <1>1, <1>2, <1>3, <1>4

\* An access to a block of the level leaves room; one that MUST does not
\* hold makes room for one age more.
LEMMA FitsInject ==
    ASSUME NEW x \in Item, NEW m \in MustDomain, NEW id \in Blocks,
           NEW y, y = ItemInject(x, m, id), NEW j \in 0 .. A, Fits(x, j)
    PROVE  /\ x[id] # Absent => Fits(y, j)
           /\ m[id] = Absent /\ j < A => Fits(y, j + 1)
<1>1. ASSUME NEW v \in 0 .. A - 1, v < j + 1,
             NoOlderThan(y, v) \subseteq NoOlderThan(x, v - 1) \cup {id}
      PROVE  Cardinality(NoOlderThan(y, v)) <= v + 1
  <2>1. PICK S : S = NoOlderThan(x, v - 1)
    OBVIOUS
  <2>2. PICK T : T = NoOlderThan(y, v)
    OBVIOUS
  <2>3. IsFiniteSet(S) /\ IsFiniteSet(T) /\ Cardinality(S) \in Nat /\ Cardinality(T) \in Nat
    BY <2>1, <2>2, CountFacts
  <2>4. Cardinality(T) <= Cardinality(S \cup {id})
    BY <1>1, <2>1, <2>2, <2>3, CountFacts
  <2>5. Cardinality(S \cup {id}) <= Cardinality(S) + 1 /\ Cardinality(S \cup {id}) \in Nat
    BY <2>3, CountFacts
  <2>6. Cardinality(S) <= v
    <3>1. CASE v = 0
      <4>1. S = {}
        BY <2>1, <3>1, AAssumption DEF NoOlderThan, Item, Absent
      <4> QED
        BY <3>1, <4>1, FS_EmptySet
    <3>2. CASE v # 0
      <4>1. v - 1 \in 0 .. j - 1 /\ (v - 1) + 1 = v
        BY <1>1, <3>2
      <4> QED
        BY <2>1, <4>1 DEF Fits
    <3> QED
      BY <3>1, <3>2
  <2>7. v \in Nat
    OBVIOUS
  <2>8. PICK s, t, u : s = Cardinality(S) /\ t = Cardinality(T) /\ u = Cardinality(S \cup {id})
    OBVIOUS
  <2>9. t <= u /\ u <= s + 1 /\ s <= v /\ s \in Nat /\ t \in Nat /\ u \in Nat
    BY <2>3, <2>4, <2>5, <2>6, <2>8
  <2>10. t <= v + 1
    BY <2>7, <2>9
  <2> QED
    BY <2>2, <2>8, <2>10
<1>2. ASSUME NEW v \in 0 .. j - 1, NoOlderThan(y, v) \subseteq NoOlderThan(x, v)
      PROVE  Cardinality(NoOlderThan(y, v)) <= v + 1
  <2>1. PICK S : S = NoOlderThan(x, v)
    OBVIOUS
  <2>2. PICK T : T = NoOlderThan(y, v)
    OBVIOUS
  <2>3. IsFiniteSet(S) /\ Cardinality(S) \in Nat /\ Cardinality(T) \in Nat
    BY <2>1, <2>2, CountFacts
  <2>4. Cardinality(T) <= Cardinality(S)
    BY <1>2, <2>1, <2>2, <2>3, CountFacts
  <2>5. Cardinality(S) <= v + 1
    BY <2>1 DEF Fits
  <2> QED
    BY <2>2, <2>3, <2>4, <2>5
<1>3. ASSUME x[id] # Absent
      PROVE  Fits(y, j)
  <2>1. ASSUME NEW v \in 0 .. j - 1
        PROVE  Cardinality(NoOlderThan(y, v)) <= v + 1
    <3>1. v \in 0 .. A - 1 /\ v < j + 1
      BY AAssumption
    <3> QED
      BY <1>1, <1>2, <1>3, <3>1, YoungerAfter
  <2> QED
    BY <2>1 DEF Fits
<1>4. ASSUME m[id] = Absent, j < A
      PROVE  Fits(y, j + 1)
  <2>1. ASSUME NEW v \in 0 .. (j + 1) - 1
        PROVE  Cardinality(NoOlderThan(y, v)) <= v + 1
    <3>1. v \in 0 .. A - 1 /\ v < j + 1
      BY <1>4, AAssumption
    <3> QED
      BY <1>1, <1>4, <3>1, YoungerAfter
  <2> QED
    BY <2>1 DEF Fits
<1> QED
  BY <1>3, <1>4

\* Older ages of the same blocks, or of fewer, leave as much room.
LEMMA FitsOlder ==
    ASSUME NEW x \in Item, NEW y \in Item, NEW j \in 0 .. A, Fits(y, j),
           \A b \in Blocks : x[b] # Absent => y[b] # Absent, ItemCovers(x, y)
    PROVE  Fits(x, j)
<1>1. ASSUME NEW v \in 0 .. j - 1
      PROVE  Cardinality(NoOlderThan(x, v)) <= v + 1
  <2>1. PICK S : S = NoOlderThan(y, v)
    OBVIOUS
  <2>2. PICK T : T = NoOlderThan(x, v)
    OBVIOUS
  <2>3. T \subseteq S
    <3>1. \A b \in Blocks : x[b] \in Int /\ y[b] \in Int
      BY AAssumption DEF Item, Absent
    <3> QED
      BY <2>1, <2>2, <3>1 DEF NoOlderThan, ItemCovers
  <2>4. IsFiniteSet(S) /\ Cardinality(S) \in Nat /\ Cardinality(T) \in Nat
    BY <2>1, <2>2, CountFacts
  <2>5. Cardinality(T) <= Cardinality(S)
    BY <2>3, <2>4, CountFacts
  <2>6. Cardinality(S) <= v + 1
    BY <2>1 DEF Fits
  <2> QED
    BY <2>2, <2>4, <2>5, <2>6
<1> QED
  BY <1>1 DEF Fits

-----------------------------------------------------------------------------
(* What was accessed since some point: H, the blocks; R[t], those accessed *)
(* after the last access to t.                                             *)
After(R, id) == [t \in Blocks |-> IF t = id THEN {} ELSE R[t] \cup {id}]

History(R, H) ==
    /\ R \in [Blocks -> SUBSET Blocks] /\ H \in SUBSET Blocks
    /\ \A t \in H : R[t] \subseteq H /\ t \notin R[t]
    /\ \A t \in H : \A e \in R[t] : R[e] \subseteq R[t]

(* As long as fewer blocks than ways were accessed after it, a block is    *)
(* still in the line l.                                                    *)
Recent(R, H, l) ==
    \A t \in H : Cardinality(R[t]) < A => Within(l, t, Cardinality(R[t]))

(* The ages of PERS and MUST are in the order of the last accesses.        *)
PersOrder(R, H, x) ==
    \A t \in H : x[t] # Absent /\ \A e \in R[t] : x[e] <= x[t]
MustOrder(R, H, m) ==
    \A t \in H : m[t] # Absent => \A e \in R[t] : m[e] # Absent /\ m[e] <= m[t]

\* History stays true when a block is accessed.
LEMMA HistoryAfter ==
    ASSUME NEW R, NEW H, History(R, H), NEW id \in Blocks
    PROVE  History(After(R, id), H \cup {id})
<1> DEFINE Q == After(R, id)
<1>1. /\ Q \in [Blocks -> SUBSET Blocks] /\ Q[id] = {}
      /\ \A t \in Blocks : t # id => Q[t] = R[t] \cup {id}
  BY DEF History, After
<1> HIDE DEF Q
<1>2. ASSUME NEW t \in H \cup {id}
      PROVE  /\ Q[t] \subseteq H \cup {id} /\ t \notin Q[t]
             /\ \A e \in Q[t] : Q[e] \subseteq Q[t]
  <2>1. CASE t = id
    BY <1>1, <2>1
  <2>2. CASE t # id
    <3>1. t \in H /\ t \in Blocks /\ Q[t] = R[t] \cup {id} /\ R[t] \subseteq Blocks
      BY <1>1, <2>2 DEF History
    <3>2. \A e \in R[t] : e # id => Q[e] = R[e] \cup {id} /\ R[e] \subseteq R[t]
      BY <1>1, <3>1 DEF History
    <3>3. \A e \in Q[t] : Q[e] \subseteq Q[t]
      BY <1>1, <3>1, <3>2
    <3> QED
      BY <2>2, <3>1, <3>3 DEF History
  <2> QED
    BY <2>1, <2>2
<1>3. H \cup {id} \in SUBSET Blocks
  BY DEF History
<1>4. History(Q, H \cup {id})
  BY <1>1, <1>2, <1>3 DEF History
<1> QED
  BY <1>4 DEF Q

\* So does Recent, of the line after the access.
LEMMA RecentAfter ==
    ASSUME Blocks \subseteq Tags, NEW R, NEW H, History(R, H), NEW id \in Blocks,
           NEW l \in Lines, Recent(R, H, l)
    PROVE  Recent(After(R, id), H \cup {id}, LRUAccess(id, l))
<1>1. PICK Q : Q = After(R, id)
  OBVIOUS
<1>2. PICK k : k = LRUAccess(id, l)
  OBVIOUS
<1>3. id \in Tags
  OBVIOUS
<1>4. ASSUME NEW t \in H \cup {id}, Cardinality(Q[t]) < A
      PROVE  Within(k, t, Cardinality(Q[t]))
  <2>1. CASE t = id
    <3>1. Q[t] = {}
      BY <1>1, <2>1 DEF After
    <3>2. k[0] = t
      BY <1>2, <1>3, <2>1, AccessFront
    <3> QED
      BY <3>1, <3>2, FS_EmptySet DEF Within
  <2>2. CASE t # id
    <3>1. t \in H /\ t \in Blocks /\ Q[t] = R[t] \cup {id} /\ R[t] \subseteq Blocks
      BY <1>1, <2>2 DEF History, After
    <3>2. PICK n : n = Cardinality(R[t])
      OBVIOUS
    <3>3. IsFiniteSet(R[t]) /\ n \in Nat
      BY <3>1, <3>2, CountFacts
    <3>4. CASE id \in R[t]
      <4>0. Q[t] = R[t]
        BY <3>1, <3>4
      <4>1. Q[t] = R[t] /\ n < A /\ n \in Ways
        BY <1>4, <3>2, <3>3, <4>0, AAssumption DEF Ways
      <4>2. Within(l, t, n)
        BY <3>1, <3>2, <4>1 DEF Recent
      <4>3. R[id] \subseteq R[t] /\ id \in H
        BY <3>1, <3>4 DEF History
      <4>4. PICK m : m = Cardinality(R[id])
        OBVIOUS
      <4>5. m \in Nat /\ m <= n
        BY <3>2, <3>3, <4>3, <4>4, CountFacts
      <4>6. m \in Ways /\ Within(l, id, m)
        <5>1. m < A /\ m \in Ways
          BY <4>1, <4>5, AAssumption DEF Ways
        <5> QED
          BY <4>3, <4>4, <5>1 DEF Recent
      <4> QED
        BY <1>2, <1>3, <2>2, <3>2, <4>1, <4>2, <4>5, <4>6, AccessKeeps
    <3>5. CASE id \notin R[t]
      <4>1. Cardinality(Q[t]) = n + 1
        BY <3>1, <3>2, <3>3, <3>5, CountFacts
      <4>2. n < A /\ n \in Ways /\ n + 1 \in Ways
        BY <1>4, <3>3, <4>1, AAssumption DEF Ways
      <4>3. Within(l, t, n)
        BY <3>1, <3>2, <4>2 DEF Recent
      <4> QED
        BY <1>2, <1>3, <2>2, <4>1, <4>2, <4>3, AccessKeeps
    <3> QED
      BY <3>4, <3>5
  <2> QED
    BY <2>1, <2>2
<1> QED
  BY <1>1, <1>2, <1>4 DEF Recent

\* So does what MUST and PERS know of the order of the ages.
LEMMA OrderAfter ==
    ASSUME NEW R, NEW H, History(R, H), NEW id \in Blocks,
           NEW x \in Item, PersOrder(R, H, x), NEW m \in MustDomain
    PROVE  /\ PersOrder(After(R, id), H \cup {id}, ItemInject(x, m, id))
           /\ MustOrder(R, H, m) => MustOrder(After(R, id), H \cup {id}, MustInject(m, id))
<1>1. PICK Q : Q = After(R, id)
  OBVIOUS
<1>2. PICK y : y = ItemInject(x, m, id)
  OBVIOUS
<1>3. PICK n : n = MustInject(m, id)
  OBVIOUS
<1>4. y[id] = 0 /\ n[id] = 0
  BY <1>2, <1>3 DEF ItemInject, MustInject
<1>5. Q[id] = {} /\ \A t \in H : t \in Blocks /\ (t # id => Q[t] = R[t] \cup {id} /\ R[t] \subseteq Blocks)
  BY <1>1 DEF After, History
<1>6. \A b \in Blocks : x[b] \in -1 .. A /\ m[b] \in -1 .. A - 1
  BY DEF Item, MustDomain, Absent
<1>7. \A b \in Blocks : x[b] # Absent => y[b] \in 0 .. A
  BY <1>2, <1>6, AAssumption DEF ItemInject, Absent
<1>8. ASSUME NEW t \in H \cup {id}
      PROVE  y[t] # Absent /\ \A e \in Q[t] : y[e] <= y[t]
  <2>1. CASE t = id
    BY <1>4, <1>5, <2>1, AAssumption DEF Absent
  <2>2. CASE t # id
    <3>1. t \in H /\ t \in Blocks /\ x[t] # Absent /\ y[t] \in 0 .. A
      BY <1>5, <1>7, <2>2 DEF PersOrder
    <3>2. ASSUME NEW e \in Q[t]
          PROVE  y[e] <= y[t]
      <4>1. CASE e = id
        BY <1>4, <3>1, <4>1
      <4>2. CASE e # id
        <5>1. e \in R[t] /\ e \in Blocks
          BY <1>5, <2>2, <3>1, <3>2, <4>2
        <5>2. x[e] <= x[t]
          BY <3>1, <5>1 DEF PersOrder
        <5> QED
          BY <1>2, <1>6, <2>2, <3>1, <4>2, <5>1, <5>2, AAssumption DEF ItemInject, Absent
      <4> QED
        BY <4>1, <4>2
    <3> QED
      BY <3>1, <3>2, AAssumption DEF Absent
  <2> QED
    BY <2>1, <2>2
<1>9. ASSUME MustOrder(R, H, m), NEW t \in H \cup {id}, n[t] # Absent, NEW e \in Q[t]
      PROVE  n[e] # Absent /\ n[e] <= n[t]
  <2>1. t # id /\ t \in H /\ t \in Blocks
    BY <1>5, <1>9
  <2>2. m[t] # Absent /\ n[t] \in 0 .. A - 1
    BY <1>3, <1>6, <1>9, <2>1, AAssumption DEF MustInject, Older, Absent
  <2>3. CASE e = id
    BY <1>4, <2>2, <2>3, AAssumption DEF Absent
  <2>4. CASE e # id
    <3>1. e \in R[t] /\ e \in Blocks
      BY <1>5, <1>9, <2>1, <2>4
    <3>2. m[e] # Absent /\ m[e] <= m[t]
      BY <1>9, <2>1, <2>2, <3>1 DEF MustOrder
    <3> QED
      BY <1>3, <1>6, <1>9, <2>1, <2>2, <2>4, <3>1, <3>2, AAssumption DEF MustInject, Older, Absent
  <2> QED
    BY <2>3, <2>4
<1>10. PersOrder(Q, H \cup {id}, y)
  BY <1>8 DEF PersOrder
<1>11. MustOrder(R, H, m) => MustOrder(Q, H \cup {id}, n)
  BY <1>9 DEF MustOrder
<1> QED
  BY <1>1, <1>2, <1>3, <1>10, <1>11

\* Blocks within n + 1 ways are n + 1 at most.
LEMMA WaysCount ==
    ASSUME NEW l, NEW n \in Nat, NEW S, IsFiniteSet(S), \A e \in S : Within(l, e, n)
    PROVE  Cardinality(S) <= n + 1
<1> DEFINE f == [e \in S |-> CHOOSE i \in 0 .. n : l[i] = e]
<1>1. \A e \in S : f[e] \in 0 .. n /\ l[f[e]] = e
  BY DEF Within
<1> HIDE DEF f
<1>2. f \in [S -> 0 .. n]
  <2>1. f = [e \in S |-> f[e]]
    BY DEF f
  <2> QED
    BY <1>1, <2>1
<1>3. IsFiniteSet(0 .. n) /\ Cardinality(0 .. n) = n + 1
  BY FS_Interval
<1>4. \A e, d \in S : f[e] = f[d] => e = d
  BY <1>1
<1>5. Cardinality(S) \in Nat
  BY FS_CardinalityType
<1>6. ~ (Cardinality(0 .. n) < Cardinality(S))
  BY <1>2, <1>3, <1>4, FS_PigeonHole
<1> QED
  BY <1>3, <1>5, <1>6

\* A block that was accessed and is not in the set: MUST does not hold it,
\* and its age in PERS is A if there is room for all ages.
LEMMA SecondMiss ==
    ASSUME NEW R, NEW H, History(R, H), NEW l, Recent(R, H, l),
           NEW x \in Item, PersOrder(R, H, x),
           NEW m \in MustDomain, MustOrder(R, H, m), NEW k, Bounds(m, k),
           NEW t \in H, ~ Holds(l, t)
    PROVE  m[t] = Absent /\ (Fits(x, A) => x[t] = A)
<1>1. PICK S : S = R[t] \cup {t}
  OBVIOUS
<1>2. R[t] \subseteq Blocks /\ t \in Blocks /\ t \notin R[t]
  BY DEF History
<1>3. PICK n : n = Cardinality(R[t])
  OBVIOUS
<1>4. n \in Nat /\ IsFiniteSet(S) /\ Cardinality(S) = n + 1 /\ S \subseteq Blocks
  <2>1. IsFiniteSet(R[t])
    BY <1>2, CountFacts
  <2> QED
    BY <1>1, <1>2, <1>3, <2>1, CountFacts
<1>5. n >= A
  <2> SUFFICES ASSUME n < A
               PROVE  FALSE
    BY <1>4, AAssumption
  <2>1. Within(l, t, n)
    BY <1>3 DEF Recent
  <2> QED
    BY <1>4, <2>1, AAssumption DEF Within, Holds, Ways
<1>6. ASSUME m[t] # Absent
      PROVE  FALSE
  <2>1. m[t] \in 0 .. A - 1
    BY <1>2, <1>6, AAssumption DEF MustDomain, Absent
  <2>2. ASSUME NEW e \in S
        PROVE  Within(k, e, m[t])
    <3>1. e \in Blocks /\ m[e] # Absent /\ m[e] <= m[t] /\ m[e] \in 0 .. A - 1
      BY <1>1, <1>4, <1>6, <2>1, AAssumption DEF MustOrder, MustDomain, Absent
    <3>2. Within(k, e, m[e])
      BY <3>1 DEF Bounds
    <3> QED
      BY <2>1, <3>1, <3>2 DEF Within
  <2>3. PICK v : v = m[t]
    OBVIOUS
  <2>4. v \in Nat /\ v < A /\ \A e \in S : Within(k, e, v)
    BY <2>1, <2>2, <2>3, AAssumption
  <2>5. Cardinality(S) <= v + 1
    BY <1>4, <2>4, WaysCount
  <2> QED
    BY <1>4, <1>5, <2>4, <2>5, AAssumption
<1>7. ASSUME Fits(x, A), x[t] # A
      PROVE  FALSE
  <2>1. PICK v : v = x[t]
    OBVIOUS
  <2>2. v \in 0 .. A - 1
    BY <1>2, <1>7, <2>1, AAssumption DEF PersOrder, Item, Absent
  <2>3. S \subseteq NoOlderThan(x, v)
    <3>1. ASSUME NEW e \in S
          PROVE  e \in Blocks /\ x[e] # Absent /\ x[e] <= v
      <4>1. e \in H
        BY <1>1 DEF History
      <4>2. x[e] # Absent /\ x[e] <= v
        BY <1>1, <2>1, <2>2, <4>1 DEF PersOrder
      <4> QED
        BY <1>4, <4>2
    <3> QED
      BY <3>1 DEF NoOlderThan
  <2>4. Cardinality(S) <= Cardinality(NoOlderThan(x, v)) /\ Cardinality(NoOlderThan(x, v)) \in Nat
    BY <2>3, CountFacts
  <2>5. Cardinality(NoOlderThan(x, v)) <= v + 1
    BY <1>7, <2>2 DEF Fits
  <2> QED
    BY <1>4, <1>5, <2>2, <2>4, <2>5, AAssumption
<1> QED
  BY <1>6, <1>7
=============================================================================
