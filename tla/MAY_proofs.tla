----------------------------- MODULE MAY_proofs -----------------------------
(***************************************************************************)
(* Theorems about the MAY analysis.                                        *)
(***************************************************************************)
EXTENDS MAY, CacheSet_proofs

(* The types, for the theorem below: an age is -1 or a natural number, and *)
(* it may pass A - 1.                                                      *)
LEMMA Types == Spec => []TypeOK
<1>1. Init => TypeOK
  BY ColdAssumption DEF Init, TypeOK, MayEntry, MayDomain, Absent
<1>2. TypeOK /\ [Next]_vars => TypeOK'
  <2> SUFFICES ASSUME TypeOK, [Next]_vars PROVE TypeOK'
    OBVIOUS
  <2> USE DEF TypeOK
  <2>1. ASSUME NEW p \in Paths, NEW id \in Blocks, Inject(p, id)
        PROVE  TypeOK'
    <3>1. line' \in [Paths -> Lines]
      BY <2>1, AccessFront, TagsAssumption DEF Inject
    <3>2. /\ MayInject(may[p], id) \in MayDomain
          /\ \A b \in Blocks : MayInject(may[p], id)[b] >= Absent
      BY AAssumption DEF MayInject, MayDomain, MayLimit, Older, Absent
    <3> QED
      BY <2>1, <3>1, <3>2 DEF Inject
  <2>2. ASSUME NEW p \in Paths, NEW q \in Paths, Join(p, q)
        PROVE  TypeOK'
    <3>1. /\ MayLub(may[p], may[q]) \in MayDomain
          /\ \A b \in Blocks : MayLub(may[p], may[q])[b] >= Absent
      BY DEF MayLub, MayDomain, Min2, Absent
    <3> QED
      BY <2>2, <3>1 DEF Join
  <2>3. CASE UNCHANGED vars
    BY <2>3 DEF vars
  <2> QED
    BY <2>1, <2>2, <2>3 DEF Next
<1> QED
  BY <1>1, <1>2, PTL DEF Spec

-----------------------------------------------------------------------------
(* The inductive invariant for at most two ways: a held block is in MAY,   *)
(* and one that MAY believes aged is not the most recently used.  The only *)
(* age that wraps, A - 1, is then that of the victim, or of no block.      *)
NotFront == \A p \in Paths, b \in Blocks : may[p][b] >= 1 => line[p][0] # b

(* With one or two ways, MAY holds every block that the real set holds on  *)
(* some path, in spite of the ages that inject() gives in place: an l-block*)
(* out of MAY cannot hit.  With more ways it is false (run may_four).      *)
THEOREM MayContainsTwoWays ==
    ASSUME A <= 2
    PROVE  Spec => [](MayContains /\ NotFront)
<1> DEFINE Inv == MayContains /\ NotFront
<1>1. Init => Inv
  <2> SUFFICES ASSUME Init PROVE Inv
    OBVIOUS
  <2>1. \A p \in Paths, b \in Blocks : ~ Holds(line[p], b) /\ may[p][b] = Absent
    BY ColdAssumption DEF Init, MayEntry
  <2> QED
    BY <2>1 DEF MayContains, NotFront, Absent
<1>2. TypeOK /\ Inv /\ [Next]_vars => Inv'
  <2> SUFFICES ASSUME TypeOK, Inv, [Next]_vars, NEW r \in Paths, NEW b \in Blocks
               PROVE  /\ Holds(line'[r], b) => may'[r][b] # Absent
                      /\ may'[r][b] >= 1 => line'[r][0] # b
    BY DEF MayContains, NotFront
  <2> DEFINE Good == /\ Holds(line'[r], b) => may'[r][b] # Absent
                     /\ may'[r][b] >= 1 => line'[r][0] # b
  <2>1. /\ line[r] \in Lines
        /\ \A q \in Paths : /\ may[q] \in MayDomain
                            /\ \A c \in Blocks : may[q][c] \in Nat \cup {Absent}
    BY DEF TypeOK, MayDomain, Absent
  <2>2. /\ \A c \in Blocks : Holds(line[r], c) => may[r][c] # Absent
        /\ \A c \in Blocks : may[r][c] >= 1 => line[r][0] # c
    BY DEF MayContains, NotFront
  <2>3. ASSUME NEW p \in Paths, NEW id \in Blocks, Inject(p, id)
        PROVE  Good
    <3>1. CASE r # p
      BY <2>2, <2>3, <3>1 DEF Inject, TypeOK
    <3>2. CASE r = p
      <4> DEFINE x == may[r]
                 l == line[r]
      <4>1. may'[r] = MayInject(x, id) /\ line'[r] = LRUAccess(id, l)
        BY <2>3, <3>2 DEF Inject, TypeOK
      <4>2. line'[r] \in Lines /\ line'[r][0] = id
        BY <2>1, <4>1, AccessFront, TagsAssumption
      <4>3. CASE b = id
        BY <2>1, <4>1, <4>3 DEF MayInject, MayDomain, Absent
      <4>4. CASE b # id /\ Holds(l, id)
        <5>1. Holds(line'[r], b) => Holds(l, b)
          <6> DEFINE k == Lookup(l, id)
          <6>1. k \in Ways
            BY <4>4, LookupFirst
          <6>2. line'[r] = LRUTouch(k, l)
            BY <4>1, <4>4 DEF LRUAccess
          <6>3. l[k] = id
            BY <4>4, LookupFirst DEF FirstAt
          <6> HIDE DEF k, l
          <6> QED
            BY <4>4, <6>1, <6>2, <6>3, AAssumption DEF LRUTouch, Holds, Ways
        <5>2. x[id] # Absent
          BY <2>2, <4>4
        <5>3. x[b] # Absent => may'[r][b] # Absent
          BY <2>1, <4>1, <4>4, <5>2 DEF MayInject, MayLimit, Absent
        <5> QED
          BY <2>2, <4>2, <4>4, <5>1, <5>3
      <4>5. CASE b # id /\ ~ Holds(l, id)
        <5>1. line'[r] = LRUReplace(id, l)
          BY <4>1, <4>5 DEF LRUAccess
        <5>2. Holds(line'[r], b) => A = 2 /\ l[0] = b
          BY <4>5, <5>1, AAssumption DEF LRUReplace, Holds, Ways
        <5>3. Holds(line'[r], b) => x[b] = 0
          BY <2>1, <2>2, <5>2, AAssumption DEF Holds, Ways, Absent
        <5>4. x[b] = 0 /\ A = 2 => may'[r][b] # Absent
          BY <4>1, <4>5 DEF MayInject, MayLimit, Older, Absent
        <5> QED
          BY <4>2, <4>5, <5>2, <5>3, <5>4
      <4> QED
        BY <4>3, <4>4, <4>5
    <3> QED
      BY <3>1, <3>2
  <2>4. ASSUME NEW p \in Paths, NEW q \in Paths, Join(p, q)
        PROVE  Good
    <3>1. line'[r] = line[r]
      BY <2>4 DEF Join
    <3>2. \/ may'[r] = may[r]
          \/ r \in {p, q} /\ may'[r] = MayLub(may[p], may[q])
      BY <2>4 DEF Join, TypeOK
    <3>3. /\ may[r][b] # Absent => may'[r][b] # Absent
          /\ may'[r][b] >= 1 => may[r][b] = Absent \/ may[r][b] >= 1
      BY <2>1, <3>2 DEF MayLub, Min2, Absent
    <3>4. may[r][b] = Absent => line[r][0] # b
      BY <2>2, AAssumption DEF Holds, Ways
    <3> QED
      BY <2>2, <3>1, <3>3, <3>4
  <2>5. CASE UNCHANGED vars
    BY <2>2, <2>5 DEF vars
  <2> QED
    BY <2>3, <2>4, <2>5 DEF Next
<1> QED
  BY <1>1, <1>2, Types, PTL DEF Spec
=============================================================================
