--------------------------- MODULE MUSTPERS_proofs ---------------------------
(***************************************************************************)
(* Theorems about the MUST/PERS analysis, for any associativity, any set   *)
(* of blocks, any number of paths and any depth of loops.                  *)
(***************************************************************************)
EXTENDS MUSTPERS, CacheSet_proofs

\* The innermost n levels are n levels, taken from the end of the stack.
LEMMA InnermostType ==
    ASSUME NEW S, NEW s \in Seq(S), NEW n \in Nat, n <= Len(s)
    PROVE  /\ Innermost(s, n) \in Seq(S)
           /\ Len(Innermost(s, n)) = n
           /\ \A k \in 1 .. n : Innermost(s, n)[k] = s[Len(s) - n + k]
<1>1. Innermost(s, n) \in [1 .. n -> S]
  BY DEF Innermost
<1>2. \A k \in 1 .. n : Innermost(s, n)[k] = s[Len(s) - n + k]
  BY DEF Innermost
<1> QED
  BY <1>1, <1>2, FunctionIsSeq

\* A stack without its top, the empty one included.
LEMMA FrontType ==
    ASSUME NEW S, NEW s \in Seq(S)
    PROVE  /\ SubSeq(s, 1, Len(s) - 1) \in Seq(S)
           /\ Len(SubSeq(s, 1, Len(s) - 1)) = IF Len(s) = 0 THEN 0 ELSE Len(s) - 1
           /\ \A k \in 1 .. Len(s) - 1 : SubSeq(s, 1, Len(s) - 1)[k] = s[k]
  OBVIOUS

(* The whole-program level sees nothing of the loops.                      *)
LEMMA LoopSteps ==
    ASSUME TypeOK, NEW p \in Paths, EnterLoop(p) \/ LeaveLoop(p), NEW r \in Paths
    PROVE  /\ UNCHANGED <<line, must>>
           /\ pers'[r].whole = pers[r].whole
           /\ seen'[r].whole = seen[r].whole
<1>1. CASE EnterLoop(p)
  BY <1>1 DEF EnterLoop, TypeOK, PersEnter, PersDomain
<1>2. CASE LeaveLoop(p)
  BY <1>2 DEF LeaveLoop, TypeOK, PersLeave, PersDomain
<1> QED
  BY <1>1, <1>2

-----------------------------------------------------------------------------
(* Type correctness: the ages stay in the documented ranges, -1 .. A - 1   *)
(* for MUST and -1 .. A for PERS, through any accesses, joins and loops.   *)
THEOREM TypeCorrect == Spec => []TypeOK
<1>1. Init => TypeOK
  <2> SUFFICES ASSUME Init PROVE TypeOK
    OBVIOUS
  <2>1. PersEntry \in PersDomain /\ Len(PersEntry.data) = 0
    BY ItemTypes DEF PersEntry, PersDomain
  <2>2. [whole |-> {}, data |-> <<>>] \in Levels
    BY DEF Levels
  <2> QED
    BY <2>1, <2>2, MustTypes, BeforeAssumption DEF Init, TypeOK
<1>2. TypeOK /\ [Next]_vars => TypeOK'
  <2> SUFFICES ASSUME TypeOK, [Next]_vars PROVE TypeOK'
    OBVIOUS
  <2> USE DEF TypeOK
  <2>1. ASSUME NEW p \in Paths, NEW id \in Blocks, Inject(p, id)
        PROVE  TypeOK'
    <3>1. line' \in [Paths -> Lines]
      BY <2>1, AccessFront, TagsAssumption DEF Inject
    <3>2. must' \in [Paths -> MustDomain]
      BY <2>1, MustTypes DEF Inject
    <3>3. /\ pers' \in [Paths -> PersDomain]
          /\ \A r \in Paths : Len(pers'[r].data) = Len(pers[r].data)
      BY <2>1, PersInjectType DEF Inject
    <3>4. /\ seen' \in [Paths -> Levels]
          /\ \A r \in Paths : Len(seen'[r].data) = Len(seen[r].data)
      <4> DEFINE d == [k \in 1 .. Len(seen[p].data) |-> seen[p].data[k] \cup {id}]
      <4>1. seen[p].data \in Seq(SUBSET Blocks) /\ Len(seen[p].data) \in Nat
        BY DEF Levels
      <4>2. d \in [1 .. Len(seen[p].data) -> SUBSET Blocks]
        BY <4>1
      <4>3. d \in Seq(SUBSET Blocks) /\ Len(d) = Len(seen[p].data)
        BY <4>1, <4>2, FunctionIsSeq
      <4> QED
        BY <2>1, <4>3 DEF Inject, Levels
    <3> QED
      BY <3>1, <3>2, <3>3, <3>4
  <2>2. ASSUME NEW p \in Paths, NEW q \in Paths, Join(p, q)
        PROVE  TypeOK'
    <3> DEFINE d == PersLub(pers[p], pers[q])
               n == Min2(Len(seen[p].data), Len(seen[q].data))
               Shared(s) == [whole |-> s.whole, data |-> Innermost(s.data, n)]
    <3>1. must' \in [Paths -> MustDomain]
      BY <2>2, MustTypes DEF Join
    <3>2. /\ d \in PersDomain /\ Len(d.data) = Len(pers[p].data)
          /\ Len(pers[p].data) \in Nat
      <4>1. pers[p] \in PersDomain /\ pers[q] \in PersDomain
        OBVIOUS
      <4>2. Len(pers[p].data) \in Nat
        BY <4>1 DEF PersDomain
      <4> QED
        BY <4>1, <4>2, PersLubType
    <3>3. pers' = [pers EXCEPT ![p] = d, ![q] = d]
      BY <2>2 DEF Join
    <3>4. /\ n \in Nat /\ n <= Len(d.data)
          /\ n <= Len(seen[p].data) /\ n <= Len(seen[q].data)
      <4>1. /\ Len(seen[p].data) \in Nat /\ Len(seen[q].data) \in Nat
            /\ Len(seen[p].data) <= Len(pers[p].data)
        BY DEF Levels
      <4> QED
        BY <3>2, <4>1 DEF Min2
    <3>5. ASSUME NEW s \in Levels, n <= Len(s.data)
          PROVE  Shared(s) \in Levels /\ Len(Shared(s).data) = n
      <4>1. s.data \in Seq(SUBSET Blocks) /\ s.whole \in SUBSET Blocks
        BY DEF Levels
      <4>2. Innermost(s.data, n) \in Seq(SUBSET Blocks) /\ Len(Innermost(s.data, n)) = n
        BY <3>4, <3>5, <4>1, InnermostType
      <4> QED
        BY <4>1, <4>2 DEF Levels
    <3>6. seen' = [seen EXCEPT ![p] = Shared(@), ![q] = Shared(@)] /\ p # q /\ line' = line
      BY <2>2 DEF Join
    <3> HIDE DEF d, n, Shared
    <3>7. /\ Shared(seen[p]) \in Levels /\ Len(Shared(seen[p]).data) <= Len(d.data)
          /\ Shared(seen[q]) \in Levels /\ Len(Shared(seen[q]).data) <= Len(d.data)
      BY <3>4, <3>5
    <3>8. pers' \in [Paths -> PersDomain] /\ seen' \in [Paths -> Levels]
      BY <3>2, <3>3, <3>6, <3>7
    <3>9. ASSUME NEW r \in Paths
          PROVE  Len(seen'[r].data) <= Len(pers'[r].data)
      <4>1. CASE r \in {p, q}
        <5>1. pers'[r] = d /\ seen'[r] = Shared(seen[r])
          BY <3>3, <3>6, <4>1
        <5> QED
          BY <3>7, <4>1, <5>1
      <4>2. CASE r \notin {p, q}
        BY <3>3, <3>6, <4>2
      <4> QED
        BY <4>1, <4>2
    <3> QED
      BY <3>1, <3>6, <3>8, <3>9
  <2>3. ASSUME NEW p \in Paths, EnterLoop(p)
        PROVE  TypeOK'
    <3>1. /\ seen[p].data \in Seq(SUBSET Blocks)
          /\ Append(seen[p].data, {}) \in Seq(SUBSET Blocks)
          /\ Len(Append(seen[p].data, {})) = Len(seen[p].data) + 1
      BY DEF Levels
    <3>2. /\ PersEnter(pers[p]) \in PersDomain
          /\ Len(PersEnter(pers[p]).data) = Len(pers[p].data) + 1
      BY PersEnterLeaveTypes
    <3>3. /\ seen' \in [Paths -> Levels]
          /\ \A r \in Paths : Len(seen'[r].data) = IF r = p THEN Len(seen[r].data) + 1
                                                 ELSE Len(seen[r].data)
      BY <2>3, <3>1 DEF EnterLoop, Levels
    <3>4. /\ pers' \in [Paths -> PersDomain]
          /\ \A r \in Paths : Len(pers'[r].data) = IF r = p THEN Len(pers[r].data) + 1
                                                 ELSE Len(pers[r].data)
      BY <2>3, <3>2 DEF EnterLoop
    <3>5. UNCHANGED <<line, must>>
      BY <2>3 DEF EnterLoop
    <3>6. \A r \in Paths : Len(pers[r].data) \in Nat /\ Len(seen[r].data) \in Nat
      BY DEF PersDomain, Levels
    <3>7. ASSUME NEW r \in Paths
          PROVE  Len(seen'[r].data) <= Len(pers'[r].data)
      <4>1. CASE r = p
        <5>1. /\ Len(seen'[r].data) = Len(seen[r].data) + 1
              /\ Len(pers'[r].data) = Len(pers[r].data) + 1
          BY <3>3, <3>4, <4>1
        <5> QED
          BY <3>6, <5>1
      <4>2. CASE r # p
        BY <3>3, <3>4, <4>2
      <4> QED
        BY <4>1, <4>2
    <3> QED
      BY <3>3, <3>4, <3>5, <3>7
  <2>4. ASSUME NEW p \in Paths, LeaveLoop(p)
        PROVE  TypeOK'
    <3> DEFINE s == SubSeq(seen[p].data, 1, Len(seen[p].data) - 1)
    <3>1. /\ s \in Seq(SUBSET Blocks)
          /\ Len(s) = IF Len(seen[p].data) = 0 THEN 0 ELSE Len(seen[p].data) - 1
      <4>1. seen[p].data \in Seq(SUBSET Blocks)
        BY DEF Levels
      <4> QED
        BY <4>1, FrontType
    <3>2. /\ PersLeave(pers[p]) \in PersDomain
          /\ Len(PersLeave(pers[p]).data) = Len(pers[p].data) - 1
          /\ Len(pers[p].data) > 0
      BY <2>4, PersEnterLeaveTypes DEF LeaveLoop
    <3>3. /\ seen' \in [Paths -> Levels]
          /\ \A r \in Paths : seen'[r].data = IF r = p THEN s ELSE seen[r].data
      BY <2>4, <3>1 DEF LeaveLoop, Levels
    <3>4. /\ pers' \in [Paths -> PersDomain]
          /\ \A r \in Paths : Len(pers'[r].data) = IF r = p THEN Len(pers[r].data) - 1
                                                 ELSE Len(pers[r].data)
      BY <2>4, <3>2 DEF LeaveLoop
    <3>5. UNCHANGED <<line, must>>
      BY <2>4 DEF LeaveLoop
    <3>6. \A r \in Paths : Len(pers[r].data) \in Nat /\ Len(seen[r].data) \in Nat
      BY DEF PersDomain, Levels
    <3> HIDE DEF s
    <3>7. ASSUME NEW r \in Paths
          PROVE  Len(seen'[r].data) <= Len(pers'[r].data)
      <4>1. CASE r = p
        <5>1. /\ Len(seen'[r].data) = IF Len(seen[r].data) = 0 THEN 0 ELSE Len(seen[r].data) - 1
              /\ Len(pers'[r].data) = Len(pers[r].data) - 1
          BY <3>1, <3>3, <3>4, <4>1
        <5> QED
          BY <3>2, <3>6, <4>1, <5>1
      <4>2. CASE r # p
        BY <3>3, <3>4, <4>2
      <4> QED
        BY <4>1, <4>2
    <3> QED
      BY <3>3, <3>4, <3>5, <3>7
  <2>5. CASE UNCHANGED vars
    BY <2>5 DEF vars
  <2> QED
    BY <2>1, <2>2, <2>3, <2>4, <2>5 DEF Next
<1> QED
  BY <1>1, <1>2, PTL DEF Spec

-----------------------------------------------------------------------------
(* MUST is sound: a block of the MUST ACS is in the real set, no older     *)
(* than its age there, on each path that reaches the point, whatever the   *)
(* set held at the start: ALWAYS_HIT never misses.                         *)
THEOREM MustSoundness == Spec => []MustSound
<1>1. MustSound <=> \A r \in Paths : Bounds(must[r], line[r])
  BY DEF MustSound, Bounds
<1>2. Init => MustSound
  BY DEF Init, MustSound, MustEntry
<1>3. TypeOK /\ MustSound /\ [Next]_vars => MustSound'
  <2> SUFFICES ASSUME TypeOK, MustSound, [Next]_vars, NEW r \in Paths
               PROVE  Bounds(must'[r], line'[r])
    BY DEF MustSound, Bounds
  <2>1. /\ \A q \in Paths : line[q] \in Lines /\ must[q] \in MustDomain
        /\ Bounds(must[r], line[r])
    BY <1>1 DEF TypeOK
  <2>2. ASSUME NEW p \in Paths, NEW id \in Blocks, Inject(p, id)
        PROVE  Bounds(must'[r], line'[r])
    <3>1. CASE r # p
      BY <2>1, <2>2, <3>1 DEF Inject, TypeOK
    <3>2. CASE r = p
      <4>1. /\ line'[r] = LRUAccess(id, line[r])
            /\ must'[r] = MustInject(must[r], id)
        BY <2>2, <3>2 DEF Inject, TypeOK
      <4> QED
        BY <2>1, <4>1, InjectBounds, TagsAssumption
    <3> QED
      BY <3>1, <3>2
  <2>3. ASSUME NEW p \in Paths, NEW q \in Paths, Join(p, q)
        PROVE  Bounds(must'[r], line'[r])
    <3>1. CASE r \notin {p, q}
      BY <2>1, <2>3, <3>1 DEF Join, TypeOK
    <3>2. CASE r \in {p, q}
      <4>1. must'[r] = MustLub(must[p], must[q]) /\ line'[r] = line[r]
        BY <2>3, <3>2 DEF Join, TypeOK
      <4>2. PICK x, y \in MustDomain : x = must[p] /\ y = must[q]
        BY <2>1
      <4>3. must'[r] = MustLub(x, y)
        BY <4>1, <4>2
      <4>4. /\ MustLub(x, y) \in MustDomain
            /\ Covers(MustLub(x, y), x) /\ Covers(MustLub(x, y), y)
        BY MustTypes, CoversFacts, Zenon
      <4>5. must'[r] \in MustDomain /\ Covers(must'[r], must[r])
        BY <3>2, <4>2, <4>3, <4>4
      <4> QED
        BY <2>1, <4>1, <4>5, CoversBounds
    <3> QED
      BY <3>1, <3>2
  <2>4. ASSUME NEW p \in Paths, EnterLoop(p) \/ LeaveLoop(p)
        PROVE  Bounds(must'[r], line'[r])
    BY <2>1, <2>4 DEF EnterLoop, LeaveLoop
  <2>5. CASE UNCHANGED vars
    BY <2>1, <2>5 DEF vars
  <2> QED
    BY <2>2, <2>3, <2>4, <2>5 DEF Next
<1> QED
  BY <1>2, <1>3, TypeCorrect, PTL DEF Spec

-----------------------------------------------------------------------------
(* What WholeSound rests on: MUST only holds blocks that the path accessed *)
(* since the program started, so inject() never trusts a MUST hit on a     *)
(* block that the whole-program level has not seen.  A loop level has no   *)
(* such guarantee.                                                         *)
MustSeen == \A p \in Paths, b \in Blocks :
                must[p][b] # Absent => b \in seen[p].whole

LEMMA MustSeenInvariant == Spec => []MustSeen
<1>1. Init => MustSeen
  BY DEF Init, MustSeen, MustEntry
<1>2. TypeOK /\ MustSeen /\ [Next]_vars => MustSeen'
  <2> SUFFICES ASSUME TypeOK, MustSeen, [Next]_vars,
                      NEW r \in Paths, NEW b \in Blocks, must'[r][b] # Absent
               PROVE  b \in seen'[r].whole
    BY DEF MustSeen
  <2>1. ASSUME NEW p \in Paths, NEW id \in Blocks, Inject(p, id)
        PROVE  b \in seen'[r].whole
    <3>1. r # p => must'[r] = must[r] /\ seen'[r] = seen[r]
      BY <2>1 DEF Inject, TypeOK
    <3>2. r = p => /\ must'[r] = MustInject(must[r], id)
                   /\ seen'[r].whole = seen[r].whole \cup {id}
      BY <2>1 DEF Inject, TypeOK, Levels
    <3>3. r = p /\ b # id => must[r][b] # Absent
      BY <3>2 DEF MustInject, Older
    <3> QED
      BY <3>1, <3>2, <3>3 DEF MustSeen
  <2>2. ASSUME NEW p \in Paths, NEW q \in Paths, Join(p, q)
        PROVE  b \in seen'[r].whole
    <3>1. seen'[r].whole = seen[r].whole
      BY <2>2 DEF Join, TypeOK, Levels
    <3>2. must'[r] = must[r] \/ (r \in {p, q} /\ must'[r] = MustLub(must[p], must[q]))
      BY <2>2 DEF Join, TypeOK
    <3>3. must[r][b] # Absent
      BY <3>2 DEF MustLub
    <3> QED
      BY <3>1, <3>3 DEF MustSeen
  <2>3. ASSUME NEW p \in Paths, EnterLoop(p) \/ LeaveLoop(p)
        PROVE  b \in seen'[r].whole
    BY <2>3, LoopSteps DEF MustSeen
  <2>4. CASE UNCHANGED vars
    BY <2>4 DEF vars, MustSeen
  <2> QED
    BY <2>1, <2>2, <2>3, <2>4 DEF Next
<1> QED
  BY <1>1, <1>2, TypeCorrect, PTL DEF Spec

(* One level of PERS follows a real set through an access, provided that a *)
(* block that MUST contains was accessed since the level was entered.      *)
LEMMA LevelInject ==
    ASSUME NEW l \in Lines, NEW x \in Item, NEW m \in MustDomain,
           NEW blocks \in SUBSET Blocks, NEW id \in Blocks,
           LevelSound(l, x, blocks), m[id] # Absent => id \in blocks
    PROVE  LevelSound(LRUAccess(id, l), ItemInject(x, m, id), blocks \cup {id})
<1> DEFINE y == ItemInject(x, m, id)
           k == LRUAccess(id, l)
<1> SUFFICES ASSUME NEW b \in blocks \cup {id}
             PROVE  y[b] # Absent /\ (y[b] < A => Within(k, b, y[b]))
  BY DEF LevelSound
<1>1. CASE b = id
  BY <1>1, AccessFront, TagsAssumption, AAssumption DEF ItemInject, Within, Absent
<1>2. CASE b # id
  <2>1. x[b] \in 0 .. A /\ (x[b] < A => Within(l, b, x[b])) /\ id \in Tags
    BY <1>2, TagsAssumption DEF LevelSound, Item, Absent
  <2>2. y[b] \in {x[b], x[b] + 1}
    BY <1>2 DEF ItemInject
  <2>3. CASE y[b] = x[b] + 1
    <3>1. x[b] < A /\ (y[b] < A => x[b] \in Ways /\ x[b] + 1 \in Ways)
      BY <1>2, <2>1, <2>3, AAssumption DEF ItemInject, Ways
    <3> QED
      BY <1>2, <2>1, <2>3, <3>1, AccessKeeps DEF Absent
  <2>4. CASE y[b] = x[b] /\ x[b] < A
    <3>1. m[id] # Absent /\ x[id] <= x[b]
      BY <1>2, <2>1, <2>4 DEF ItemInject, Absent, Item
    <3>2. x[id] # Absent /\ (x[id] < A => Within(l, id, x[id]))
      BY <3>1 DEF LevelSound
    <3>3. x[id] \in Ways /\ x[b] \in Ways
      BY <2>1, <2>4, <3>1, <3>2, AAssumption DEF Item, Absent, Ways
    <3>4. Within(l, b, x[b]) /\ Within(l, id, x[id])
      BY <2>1, <2>4, <3>2, <3>3, AAssumption DEF Ways
    <3>5. Within(LRUAccess(id, l), b, x[b])
      BY <1>2, <2>1, <3>1, <3>3, <3>4, AccessKeeps
    <3> QED
      BY <2>1, <2>4, <3>5 DEF Absent
  <2>5. CASE y[b] = x[b] /\ x[b] = A
    BY <2>5, AAssumption DEF Absent
  <2> QED
    BY <2>1, <2>2, <2>3, <2>4, <2>5, AAssumption
<1> QED
  BY <1>1, <1>2

\* A join with a sound level is sound.
LEMMA LevelJoin ==
    ASSUME NEW l, NEW x \in Item, NEW y \in Item,
           NEW blocks \in SUBSET Blocks, LevelSound(l, x, blocks)
    PROVE  /\ LevelSound(l, ItemLub(x, y), blocks)
           /\ LevelSound(l, ItemLub(y, x), blocks)
<1> SUFFICES ASSUME NEW b \in blocks, NEW z \in {ItemLub(x, y), ItemLub(y, x)}
             PROVE  z[b] # Absent /\ (z[b] < A => Within(l, b, z[b]))
  BY DEF LevelSound
<1>1. x[b] # Absent /\ (x[b] < A => Within(l, b, x[b]))
  BY DEF LevelSound
<1>2. x[b] \in Nat /\ z[b] \in Nat /\ x[b] <= z[b]
  BY <1>1 DEF ItemLub, Max2, Item, Absent
<1> QED
  BY <1>1, <1>2, AAssumption, WithinMore DEF Absent

(* At the level of the whole program, PERS bounds the age of every block   *)
(* accessed since the start: one that is not wiped was never evicted.      *)
THEOREM WholeSoundness == Spec => []WholeSound
<1>1. Init => WholeSound
  BY DEF Init, WholeSound, LevelSound
<1>2. TypeOK /\ MustSeen /\ WholeSound /\ [Next]_vars => WholeSound'
  <2> SUFFICES ASSUME TypeOK, MustSeen, WholeSound, [Next]_vars, NEW r \in Paths
               PROVE  LevelSound(line'[r], pers'[r].whole, seen'[r].whole)
    BY DEF WholeSound
  <2>1. /\ LevelSound(line[r], pers[r].whole, seen[r].whole)
        /\ line[r] \in Lines /\ must[r] \in MustDomain
        /\ \A q \in Paths : pers[q].whole \in Item /\ seen[q].whole \in SUBSET Blocks
    BY DEF WholeSound, TypeOK, PersDomain, Levels
  <2>2. ASSUME NEW p \in Paths, NEW id \in Blocks, Inject(p, id)
        PROVE  LevelSound(line'[r], pers'[r].whole, seen'[r].whole)
    <3>1. r # p => UNCHANGED <<line[r], pers[r], seen[r]>>
      BY <2>2 DEF Inject, TypeOK
    <3>2. r = p => /\ line'[r] = LRUAccess(id, line[r])
                   /\ pers'[r].whole = ItemInject(pers[r].whole, must[r], id)
                   /\ seen'[r].whole = seen[r].whole \cup {id}
      BY <2>2 DEF Inject, TypeOK, PersInject, PersDomain, Levels
    <3>3. must[r][id] # Absent => id \in seen[r].whole
      BY DEF MustSeen
    <3> QED
      BY <2>1, <3>1, <3>2, <3>3, LevelInject
  <2>3. ASSUME NEW p \in Paths, NEW q \in Paths, Join(p, q)
        PROVE  LevelSound(line'[r], pers'[r].whole, seen'[r].whole)
    <3>1. line'[r] = line[r] /\ seen'[r].whole = seen[r].whole
      BY <2>3 DEF Join, TypeOK, Levels
    <3>2. \/ pers'[r] = pers[r]
          \/ /\ r \in {p, q}
             /\ pers'[r].whole = ItemLub(pers[p].whole, pers[q].whole)
      BY <2>3 DEF Join, TypeOK, PersLub
    <3> QED
      BY <2>1, <3>1, <3>2, LevelJoin
  <2>4. ASSUME NEW p \in Paths, EnterLoop(p) \/ LeaveLoop(p)
        PROVE  LevelSound(line'[r], pers'[r].whole, seen'[r].whole)
    BY <2>1, <2>4, LoopSteps
  <2>5. CASE UNCHANGED vars
    BY <2>1, <2>5 DEF vars
  <2> QED
    BY <2>2, <2>3, <2>4, <2>5 DEF Next
<1> QED
  BY <1>1, <1>2, TypeCorrect, MustSeenInvariant, PTL DEF Spec

-----------------------------------------------------------------------------
(* The order between levels survives accesses and joins.                   *)
LEMMA NoOlderInject ==
    ASSUME NEW x \in Item, NEW y \in Item, NoOlder(x, y), NEW m, NEW id \in Blocks
    PROVE  NoOlder(ItemInject(x, m, id), ItemInject(y, m, id))
BY AAssumption DEF NoOlder, ItemInject, Item, Absent

\* The join of older items is older.
LEMMA NoOlderLub ==
    ASSUME NEW x \in Item, NEW y \in Item, NoOlder(x, y),
           NEW u \in Item, NEW v \in Item, NoOlder(u, v)
    PROVE  NoOlder(ItemLub(x, u), ItemLub(y, v))
BY AAssumption DEF NoOlder, ItemLub, Max2, Item, Absent

NestedIn(d, n) == /\ \A k \in 1 .. Len(d.data) : NoOlder(d.data[k], d.whole)
                  /\ Nested(d.data, n)

\* The levels stay nested at an access,
LEMMA NestedInject ==
    ASSUME NEW d \in PersDomain, NEW n \in Nat, n <= Len(d.data), NestedIn(d, n),
           NEW m, NEW id \in Blocks
    PROVE  NestedIn(PersInject(d, m, id), n)
<1> DEFINE e == PersInject(d, m, id)
<1>1. /\ Len(e.data) = Len(d.data) /\ e.whole = ItemInject(d.whole, m, id)
      /\ \A k \in 1 .. Len(d.data) : e.data[k] = ItemInject(d.data[k], m, id)
  BY PersInjectType DEF PersInject
<1>2. d.whole \in Item /\ \A k \in 1 .. Len(d.data) : d.data[k] \in Item
  BY DEF PersDomain
<1>3. Len(d.data) \in Nat
  BY DEF PersDomain
<1> HIDE DEF e
<1>4. ASSUME NEW k \in 1 .. Len(d.data)
      PROVE  NoOlder(e.data[k], e.whole)
  BY <1>1, <1>2, NoOlderInject DEF NestedIn
<1>5. ASSUME NEW k \in 1 .. Len(d.data), NEW j \in (Len(d.data) - n + 1) .. k
      PROVE  NoOlder(e.data[k], e.data[j])
  <2>1. j \in 1 .. Len(d.data)
    BY <1>3
  <2>2. NoOlder(d.data[k], d.data[j])
    BY DEF NestedIn, Nested
  <2> QED
    BY <1>1, <1>2, <2>1, <2>2, NoOlderInject
<1> QED
  BY <1>1, <1>4, <1>5 DEF NestedIn, Nested, e

\* Levels that are among the inner ones of both stacks have counterparts
\* that are.
LEMMA BothInner ==
    ASSUME NEW lp \in Nat, NEW lq \in Nat, NEW m \in Nat, NEW n \in Nat, NEW i \in Nat,
           m <= lp, n <= lq, i <= m, i <= n,
           NEW k \in 1 .. lp, NEW j \in (lp - i + 1) .. k
    PROVE  /\ j \in 1 .. lp /\ j \in (lp - m + 1) .. k
           /\ ~(j <= lp - lq) /\ ~(k <= lp - lq)
           /\ j - (lp - lq) \in (lq - n + 1) .. (k - (lp - lq))
  OBVIOUS

\* at a join, those that both states have,
LEMMA NestedLub ==
    ASSUME NEW p \in PersDomain, NEW q \in PersDomain, NEW m \in Nat, NEW n \in Nat,
           m <= Len(p.data), n <= Len(q.data), NestedIn(p, m), NestedIn(q, n)
    PROVE  NestedIn(PersLub(p, q), Min2(m, n))
<1> DEFINE e == PersLub(p, q)
           over == Len(p.data) - Len(q.data)
           i == Min2(m, n)
<1>1. /\ p.whole \in Item /\ p.data \in Seq(Item) /\ Len(p.data) \in Nat
      /\ q.whole \in Item /\ q.data \in Seq(Item) /\ Len(q.data) \in Nat
  BY DEF PersDomain
<1>2. /\ Len(e.data) = Len(p.data) /\ e.whole = ItemLub(p.whole, q.whole)
      /\ \A k \in 1 .. Len(p.data) :
             e.data[k] = IF k <= over THEN p.data[k]
                         ELSE ItemLub(p.data[k], q.data[k - over])
  BY PersLubType
<1>3. i \in Nat /\ i <= m /\ i <= n /\ over \in Int
  BY <1>1 DEF Min2
<1>4. \A k \in 1 .. Len(p.data) : ~(k <= over) => k - over \in 1 .. Len(q.data)
  BY <1>1, Counterpart
<1>5. /\ \A k \in 1 .. Len(p.data) : p.data[k] \in Item
      /\ \A k \in 1 .. Len(q.data) : q.data[k] \in Item
  BY <1>1
<1> HIDE DEF e, i
<1>6. ASSUME NEW k \in 1 .. Len(p.data)
      PROVE  NoOlder(e.data[k], e.whole)
  <2>1. NoOlder(p.data[k], p.whole) /\ p.data[k] \in Item
    BY <1>5 DEF NestedIn
  <2>2. CASE k <= over
    <3>1. e.data[k] = p.data[k]
      BY <1>2, <2>2
    <3>2. NoOlder(p.whole, ItemLub(p.whole, q.whole))
      BY <1>1, AAssumption DEF NoOlder, ItemLub, Max2, Item, Absent
    <3>3. ItemLub(p.whole, q.whole) \in Item
      BY <1>1, ItemTypes
    <3> QED
      BY <1>1, <1>2, <2>1, <3>1, <3>2, <3>3, AAssumption DEF NoOlder, Item, Absent
  <2>3. CASE ~(k <= over)
    <3>1. e.data[k] = ItemLub(p.data[k], q.data[k - over])
      BY <1>2, <2>3
    <3>2. k - over \in 1 .. Len(q.data)
      BY <1>4, <2>3
    <3> HIDE DEF over
    <3>3. NoOlder(q.data[k - over], q.whole) /\ q.data[k - over] \in Item
      BY <1>5, <3>2 DEF NestedIn
    <3> QED
      BY <1>1, <1>2, <2>1, <3>1, <3>3, NoOlderLub
  <2> QED
    BY <2>2, <2>3
<1>7. ASSUME NEW k \in 1 .. Len(p.data), NEW j \in (Len(p.data) - i + 1) .. k
      PROVE  NoOlder(e.data[k], e.data[j])
  <2>1. /\ j \in 1 .. Len(p.data) /\ j \in (Len(p.data) - m + 1) .. k
        /\ ~(j <= over) /\ ~(k <= over)
        /\ j - over \in (Len(q.data) - n + 1) .. (k - over)
    BY <1>1, <1>3, BothInner
  <2>2. j - over \in 1 .. Len(q.data) /\ k - over \in 1 .. Len(q.data)
    BY <1>4, <2>1
  <2>3. /\ e.data[k] = ItemLub(p.data[k], q.data[k - over])
        /\ e.data[j] = ItemLub(p.data[j], q.data[j - over])
    BY <1>2, <2>1
  <2> HIDE DEF over
  <2>4. NoOlder(p.data[k], p.data[j]) /\ NoOlder(q.data[k - over], q.data[j - over])
    BY <2>1, <2>2 DEF NestedIn, Nested
  <2> QED
    BY <1>5, <2>1, <2>2, <2>3, <2>4, NoOlderLub
<1> QED
  BY <1>2, <1>6, <1>7 DEF NestedIn, Nested, e, i

\* when a loop is entered,
LEMMA NestedEnter ==
    ASSUME NEW d \in PersDomain, NEW n \in Nat, n <= Len(d.data), NestedIn(d, n)
    PROVE  NestedIn(PersEnter(d), n + 1)
<1> DEFINE e == PersEnter(d)
<1>1. /\ e.whole = d.whole /\ Len(e.data) = Len(d.data) + 1
      /\ e.data[Len(d.data) + 1] = ItemEmpty
      /\ \A k \in 1 .. Len(d.data) : e.data[k] = d.data[k]
      /\ Len(d.data) \in Nat /\ d.whole \in Item
      /\ \A k \in 1 .. Len(d.data) : d.data[k] \in Item
  BY DEF PersEnter, PersDomain
<1>2. \A x \in Item : NoOlder(ItemEmpty, x)
  BY AAssumption DEF NoOlder, ItemEmpty, Item, Absent
<1>3. ItemEmpty \in Item
  BY ItemTypes
<1> HIDE DEF e
<1>4. ASSUME NEW k \in 1 .. Len(e.data), NEW j \in (Len(e.data) - (n + 1) + 1) .. k
      PROVE  NoOlder(e.data[k], e.data[j])
  <2>1. j \in (Len(d.data) - n + 1) .. k /\ j \in 1 .. Len(d.data) + 1
    BY <1>1
  <2>2. CASE k = Len(d.data) + 1
    BY <1>1, <1>2, <1>3, <2>1, <2>2
  <2>3. CASE k \in 1 .. Len(d.data)
    <3>1. j \in 1 .. Len(d.data)
      BY <1>1, <2>1, <2>3
    <3>2. NoOlder(d.data[k], d.data[j])
      BY <2>1, <2>3 DEF NestedIn, Nested
    <3> QED
      BY <1>1, <2>3, <3>1, <3>2
  <2> QED
    BY <1>1, <2>2, <2>3
<1>5. ASSUME NEW k \in 1 .. Len(e.data)
      PROVE  NoOlder(e.data[k], e.whole)
  BY <1>1, <1>2, <1>5 DEF NestedIn
<1> QED
  BY <1>4, <1>5 DEF NestedIn, Nested, e

\* and when it is left.
LEMMA NestedLeave ==
    ASSUME NEW d \in PersDomain, NEW n \in Nat, n <= Len(d.data), NestedIn(d, n),
           Len(d.data) > 0
    PROVE  NestedIn(PersLeave(d), IF n = 0 THEN 0 ELSE n - 1)
<1> DEFINE e == PersLeave(d)
           m == IF n = 0 THEN 0 ELSE n - 1
<1>1. /\ e.whole = d.whole /\ Len(e.data) = Len(d.data) - 1
      /\ \A k \in 1 .. Len(d.data) - 1 : e.data[k] = d.data[k]
      /\ Len(d.data) \in Nat
  <2> DEFINE s == SubSeq(d.data, 1, Len(d.data) - 1)
  <2>1. d.data \in Seq(Item) /\ Len(d.data) \in Nat
    BY DEF PersDomain
  <2>2. Len(s) = Len(d.data) - 1 /\ \A k \in 1 .. Len(d.data) - 1 : s[k] = d.data[k]
    BY <2>1
  <2> QED
    BY <2>1, <2>2 DEF PersLeave
<1> HIDE DEF e
<1>2. ASSUME NEW k \in 1 .. Len(e.data)
      PROVE  NoOlder(e.data[k], e.whole)
  BY <1>1 DEF NestedIn
<1>3. ASSUME NEW k \in 1 .. Len(e.data), NEW j \in (Len(e.data) - m + 1) .. k
      PROVE  NoOlder(e.data[k], e.data[j])
  <2>1. /\ k \in 1 .. Len(d.data) /\ j \in 1 .. Len(d.data) - 1
        /\ j \in (Len(d.data) - n + 1) .. k /\ k \in 1 .. Len(d.data) - 1
    BY <1>1
  <2>2. NoOlder(d.data[k], d.data[j])
    BY <2>1 DEF NestedIn, Nested
  <2> QED
    BY <1>1, <2>1, <2>2
<1> QED
  BY <1>2, <1>3 DEF NestedIn, Nested, e, m

\* What becomes of the number of levels that the joined states shared.
LEMMA SharedLevels ==
    ASSUME TypeOK, NEW r \in Paths
    PROVE  /\ \A p \in Paths, id \in Blocks :
                  Inject(p, id) => Len(seen'[r].data) = Len(seen[r].data)
           /\ \A p \in Paths, q \in Paths : Join(p, q) =>
                  Len(seen'[r].data) = IF r \notin {p, q} THEN Len(seen[r].data)
                                       ELSE Min2(Len(seen[p].data), Len(seen[q].data))
           /\ \A p \in Paths : EnterLoop(p) =>
                  Len(seen'[r].data) = Len(seen[r].data) + (IF r = p THEN 1 ELSE 0)
           /\ \A p \in Paths : LeaveLoop(p) =>
                  Len(seen'[r].data) = IF r # p \/ Len(seen[r].data) = 0 THEN Len(seen[r].data)
                                       ELSE Len(seen[r].data) - 1
<1>1. \A p \in Paths : seen[p].data \in Seq(SUBSET Blocks) /\ Len(seen[p].data) \in Nat
  BY DEF TypeOK, Levels
<1>2. ASSUME NEW p \in Paths, NEW id \in Blocks, Inject(p, id)
      PROVE  Len(seen'[r].data) = Len(seen[r].data)
  <2> DEFINE d == [k \in 1 .. Len(seen[p].data) |-> seen[p].data[k] \cup {id}]
  <2>1. d \in [1 .. Len(seen[p].data) -> SUBSET Blocks]
    BY <1>1
  <2>2. Len(d) = Len(seen[p].data)
    BY <1>1, <2>1, FunctionIsSeq
  <2>3. seen'[r].data = IF r = p THEN d ELSE seen[r].data
    BY <1>2 DEF Inject, TypeOK
  <2> QED
    BY <2>2, <2>3
<1>3. ASSUME NEW p \in Paths, NEW q \in Paths, Join(p, q)
      PROVE  Len(seen'[r].data) = IF r \notin {p, q} THEN Len(seen[r].data)
                                  ELSE Min2(Len(seen[p].data), Len(seen[q].data))
  <2> DEFINE n == Min2(Len(seen[p].data), Len(seen[q].data))
  <2>1. n \in Nat /\ n <= Len(seen[p].data) /\ n <= Len(seen[q].data)
    BY <1>1 DEF Min2
  <2>2. seen'[r].data = IF r \notin {p, q} THEN seen[r].data ELSE Innermost(seen[r].data, n)
    BY <1>3 DEF Join, TypeOK
  <2> HIDE DEF n
  <2>3. r \in {p, q} => Len(Innermost(seen[r].data, n)) = n
    BY <1>1, <2>1, InnermostType
  <2> QED
    BY <2>2, <2>3 DEF n
<1>4. ASSUME NEW p \in Paths, EnterLoop(p)
      PROVE  Len(seen'[r].data) = Len(seen[r].data) + (IF r = p THEN 1 ELSE 0)
  <2>1. seen'[r].data = IF r = p THEN Append(seen[r].data, {}) ELSE seen[r].data
    BY <1>4 DEF EnterLoop, TypeOK
  <2>2. /\ Len(Append(seen[r].data, {})) = Len(seen[r].data) + 1
        /\ Len(seen[r].data) + 0 = Len(seen[r].data)
    BY <1>1
  <2> QED
    BY <2>1, <2>2
<1>5. ASSUME NEW p \in Paths, LeaveLoop(p)
      PROVE  Len(seen'[r].data) = IF r # p \/ Len(seen[r].data) = 0 THEN Len(seen[r].data)
                                  ELSE Len(seen[r].data) - 1
  <2>1. seen'[r].data = IF r = p THEN SubSeq(seen[r].data, 1, Len(seen[r].data) - 1)
                        ELSE seen[r].data
    BY <1>5 DEF LeaveLoop, TypeOK
  <2> QED
    BY <1>1, <2>1, FrontType
<1> QED
  BY <1>2, <1>3, <1>4, <1>5

(* Each level of PERS is at most as old as the whole program's, and, of    *)
(* the levels that all the states joined there had, as old as those around *)
(* it: a block that is persistent at such an outer level and was accessed  *)
(* inside is persistent inside, so CAT2Builder may look for the outermost  *)
(* persistent level by climbing from the innermost one.  Of the levels     *)
(* that a join leaves over this cannot be said.                            *)
THEOREM PersNesting == Spec => []PersNested
<1>1. Init => PersNested
  BY DEF Init, PersNested, Nested, PersEntry
<1>2. TypeOK /\ PersNested /\ [Next]_vars => PersNested'
  <2> SUFFICES ASSUME TypeOK, PersNested, [Next]_vars, NEW r \in Paths
               PROVE  NestedIn(pers'[r], Len(seen'[r].data))
    BY DEF PersNested, NestedIn
  <2>1. \A p \in Paths : /\ NestedIn(pers[p], Len(seen[p].data)) /\ pers[p] \in PersDomain
                         /\ Len(seen[p].data) \in Nat /\ Len(seen[p].data) <= Len(pers[p].data)
    BY DEF PersNested, NestedIn, TypeOK, Levels
  <2>2. ASSUME NEW p \in Paths, NEW id \in Blocks, Inject(p, id)
        PROVE  NestedIn(pers'[r], Len(seen'[r].data))
    <3>1. pers'[r] \in {pers[r], PersInject(pers[r], must[r], id)}
      BY <2>2 DEF Inject, TypeOK
    <3>2. Len(seen'[r].data) = Len(seen[r].data)
      BY <2>2, SharedLevels
    <3> QED
      BY <2>1, <3>1, <3>2, NestedInject
  <2>3. ASSUME NEW p \in Paths, NEW q \in Paths, Join(p, q)
        PROVE  NestedIn(pers'[r], Len(seen'[r].data))
    <3>1. \/ pers'[r] = pers[r] /\ Len(seen'[r].data) = Len(seen[r].data)
          \/ /\ pers'[r] = PersLub(pers[p], pers[q])
             /\ Len(seen'[r].data) = Min2(Len(seen[p].data), Len(seen[q].data))
      <4>1. pers'[r] = IF r \in {p, q} THEN PersLub(pers[p], pers[q]) ELSE pers[r]
        BY <2>3 DEF Join, TypeOK
      <4>2. Len(seen'[r].data) = IF r \notin {p, q} THEN Len(seen[r].data)
                                 ELSE Min2(Len(seen[p].data), Len(seen[q].data))
        BY <2>3, SharedLevels
      <4> QED
        BY <4>1, <4>2
    <3>2. NestedIn(PersLub(pers[p], pers[q]), Min2(Len(seen[p].data), Len(seen[q].data)))
      BY <2>1, NestedLub
    <3> QED
      BY <2>1, <3>1, <3>2
  <2>4. ASSUME NEW p \in Paths, EnterLoop(p)
        PROVE  NestedIn(pers'[r], Len(seen'[r].data))
    <3>1. \/ pers'[r] = pers[r] /\ Len(seen'[r].data) = Len(seen[r].data)
          \/ pers'[r] = PersEnter(pers[r]) /\ Len(seen'[r].data) = Len(seen[r].data) + 1
      BY <2>4, SharedLevels DEF EnterLoop, TypeOK
    <3> QED
      BY <2>1, <3>1, NestedEnter
  <2>5. ASSUME NEW p \in Paths, LeaveLoop(p)
        PROVE  NestedIn(pers'[r], Len(seen'[r].data))
    <3>1. \/ pers'[r] = pers[r] /\ Len(seen'[r].data) = Len(seen[r].data)
          \/ /\ Len(pers[r].data) > 0 /\ pers'[r] = PersLeave(pers[r])
             /\ Len(seen'[r].data) = IF Len(seen[r].data) = 0 THEN 0 ELSE Len(seen[r].data) - 1
      BY <2>5, SharedLevels DEF LeaveLoop, TypeOK
    <3> QED
      BY <2>1, <3>1, NestedLeave
  <2>6. CASE UNCHANGED vars
    BY <2>1, <2>6 DEF vars
  <2> QED
    BY <2>2, <2>3, <2>4, <2>5, <2>6 DEF Next
<1> QED
  BY <1>1, <1>2, TypeCorrect, PTL DEF Spec

-----------------------------------------------------------------------------
\* The place, in a stack of l levels, of one of its m inner levels; it is
\* the same when both have one level more, or one less at their top.
LEMMA Place ==
    ASSUME NEW l \in Nat, NEW m \in Nat, m <= l, NEW k \in 1 .. m
    PROVE  /\ l - m + k \in 1 .. l
           /\ (l + 1) - (m + 1) + k = l - m + k
           /\ k # m => /\ l - m + k \in 1 .. l - 1
                        /\ (l - 1) - (m - 1) + k = l - m + k
  OBVIOUS

\* The place of one of the n inner levels among the m inner ones.
LEMMA WithinInner ==
    ASSUME NEW l \in Nat, NEW m \in Nat, NEW n \in Nat, n <= m, NEW k \in 1 .. n
    PROVE  m - n + k \in 1 .. m /\ l - m + (m - n + k) = l - n + k
  OBVIOUS

\* The same place counted in two stacks.
LEMMA Shifted ==
    ASSUME NEW lp \in Nat, NEW lq \in Nat, NEW n \in Nat, NEW k \in Nat
    PROVE  /\ (lp - n + k) - (lp - lq) = lq - n + k
           /\ k >= 1 /\ n <= lq => ~(lp - n + k <= lp - lq)
  OBVIOUS

\* Each level keeps what it has seen at an access,
LEMMA KeptInject ==
    ASSUME NEW d \in PersDomain, NEW s \in Levels, Len(s.data) <= Len(d.data),
           KeepsSeen(d.data, s.data), NEW m, NEW id \in Blocks
    PROVE  KeepsSeen(PersInject(d, m, id).data,
                     [k \in 1 .. Len(s.data) |-> s.data[k] \cup {id}])
<1> DEFINE e == PersInject(d, m, id)
           t == [k \in 1 .. Len(s.data) |-> s.data[k] \cup {id}]
           at(k) == Len(d.data) - Len(s.data) + k
<1>1. /\ Len(e.data) = Len(d.data)
      /\ \A k \in 1 .. Len(d.data) : e.data[k] = ItemInject(d.data[k], m, id)
  BY PersInjectType DEF PersInject
<1>2. /\ \A k \in 1 .. Len(d.data) : d.data[k] \in Item
      /\ \A k \in 1 .. Len(s.data) : s.data[k] \in SUBSET Blocks
      /\ Len(d.data) \in Nat /\ Len(s.data) \in Nat
  BY DEF PersDomain, Levels
<1>3. ASSUME NEW x \in Item, NEW b \in Blocks, b = id \/ x[b] # Absent
      PROVE  ItemInject(x, m, id)[b] # Absent
  BY <1>3, AAssumption DEF ItemInject, Item, Absent
<1>4. t \in Seq(SUBSET Blocks) /\ Len(t) = Len(s.data)
  <2>1. t \in [1 .. Len(s.data) -> SUBSET Blocks]
    BY <1>2
  <2> QED
    BY <1>2, <2>1, FunctionIsSeq
<1>5. \A k \in 1 .. Len(s.data) : t[k] = s.data[k] \cup {id}
  OBVIOUS
<1>6. \A k \in 1 .. Len(s.data) : at(k) \in 1 .. Len(d.data)
  BY <1>2, Place
<1>7. \A k \in 1 .. Len(s.data) : \A b \in s.data[k] : d.data[at(k)][b] # Absent
  BY DEF KeepsSeen
<1> HIDE DEF e, t, at
<1>8. ASSUME NEW k \in 1 .. Len(s.data), NEW b \in t[k]
      PROVE  e.data[at(k)][b] # Absent
  <2>1. b \in Blocks /\ (b = id \/ d.data[at(k)][b] # Absent)
    BY <1>2, <1>5, <1>7
  <2> QED
    BY <1>1, <1>2, <1>3, <1>6, <2>1
<1> QED
  BY <1>1, <1>4, <1>8 DEF KeepsSeen, e, t, at

\* at a join,
LEMMA KeptLub ==
    ASSUME NEW p \in PersDomain, NEW q \in PersDomain, NEW s \in Levels,
           NEW t \in {p, q}, Len(s.data) <= Len(t.data), KeepsSeen(t.data, s.data),
           NEW n \in Nat, n <= Len(s.data), n <= Len(p.data)
    PROVE  KeepsSeen(PersLub(p, q).data, Innermost(s.data, n))
<1> DEFINE e == PersLub(p, q)
           w == Innermost(s.data, n)
           over == Len(p.data) - Len(q.data)
           at(k) == Len(p.data) - n + k
           on(k) == Len(t.data) - n + k
<1>1. /\ p.data \in Seq(Item) /\ Len(p.data) \in Nat
      /\ q.data \in Seq(Item) /\ Len(q.data) \in Nat
      /\ s.data \in Seq(SUBSET Blocks) /\ Len(s.data) \in Nat
  BY DEF PersDomain, Levels
<1>2. /\ Len(e.data) = Len(p.data)
      /\ \A k \in 1 .. Len(p.data) :
             e.data[k] = IF k <= over THEN p.data[k]
                         ELSE ItemLub(p.data[k], q.data[k - over])
  BY PersLubType
<1>3. n \in Nat /\ n <= Len(s.data) /\ n <= Len(p.data) /\ n <= Len(t.data)
  BY <1>1
<1>4. w \in Seq(SUBSET Blocks) /\ Len(w) = n
  BY <1>1, <1>3, InnermostType
<1>5. \A k \in 1 .. n : w[k] = s.data[Len(s.data) - n + k]
  BY <1>1, <1>3, InnermostType
<1>6. ASSUME NEW x \in Item, NEW y \in Item, NEW b \in Blocks,
             x[b] # Absent \/ y[b] # Absent
      PROVE  ItemLub(x, y)[b] # Absent
  BY <1>6, AAssumption DEF ItemLub, Item, Max2, Absent
<1>7. /\ \A k \in 1 .. Len(p.data) : p.data[k] \in Item
      /\ \A k \in 1 .. Len(q.data) : q.data[k] \in Item
  BY <1>1
<1> HIDE DEF e, w
<1>8. ASSUME NEW k \in 1 .. n, NEW b \in w[k]
      PROVE  e.data[at(k)][b] # Absent
  <2> DEFINE i == Len(s.data) - n + k
  <2>0. /\ (Len(p.data) - n + k) - (Len(p.data) - Len(q.data)) = Len(q.data) - n + k
        /\ n <= Len(q.data) => ~(Len(p.data) - n + k <= Len(p.data) - Len(q.data))
    <3>1. k \in Nat /\ k >= 1 /\ n \in Nat
      BY <1>3
    <3>2. PICK lp \in Nat, lq \in Nat : lp = Len(p.data) /\ lq = Len(q.data)
      BY <1>1
    <3>3. (lp - n + k) - (lp - lq) = lq - n + k /\ (n <= lq => ~(lp - n + k <= lp - lq))
      BY <3>1, Shifted
    <3> QED
      BY <3>2, <3>3
  <2>1. /\ i \in 1 .. Len(s.data) /\ Len(t.data) - Len(s.data) + i = on(k)
        /\ at(k) \in 1 .. Len(p.data) /\ on(k) \in 1 .. Len(t.data)
    <3>1. Len(t.data) \in Nat
      BY <1>1
    <3>2. i \in 1 .. Len(s.data) /\ Len(t.data) - Len(s.data) + i = on(k)
      BY <1>1, <1>3, <3>1, WithinInner
    <3> QED
      BY <1>1, <1>3, <3>1, <3>2, Place
  <2>2. b \in s.data[i] /\ b \in Blocks
    BY <1>4, <1>5
  <2>3. t.data[on(k)][b] # Absent
    BY <2>1, <2>2 DEF KeepsSeen
  <2>4. CASE at(k) <= over
    <3>1. t = p
      BY <1>3, <2>0, <2>4
    <3> QED
      BY <1>2, <2>1, <2>3, <2>4, <3>1
  <2>5. CASE ~(at(k) <= over)
    <3>1. at(k) - over \in 1 .. Len(q.data)
      BY <1>1, <2>1, <2>5, Counterpart
    <3>2. t = p => on(k) = at(k)
      OBVIOUS
    <3>3. t = q => on(k) = at(k) - over
      BY <2>0
    <3>4. e.data[at(k)] = ItemLub(p.data[at(k)], q.data[at(k) - over])
      BY <1>2, <2>1, <2>5
    <3>5. p.data[at(k)] \in Item /\ q.data[at(k) - over] \in Item
      BY <1>7, <2>1, <3>1, Zenon
    <3> HIDE DEF at, on, over
    <3>6. p.data[at(k)][b] # Absent \/ q.data[at(k) - over][b] # Absent
      BY <2>3, <3>2, <3>3
    <3> QED
      BY <1>6, <2>2, <3>4, <3>5, <3>6
  <2> QED
    BY <2>4, <2>5
<1> QED
  BY <1>2, <1>4, <1>8 DEF KeepsSeen, e, w

\* when a loop is entered,
LEMMA KeptEnter ==
    ASSUME NEW d \in PersDomain, NEW s \in Levels, Len(s.data) <= Len(d.data),
           KeepsSeen(d.data, s.data)
    PROVE  KeepsSeen(PersEnter(d).data, Append(s.data, {}))
<1> DEFINE e == Append(d.data, ItemEmpty)
           t == Append(s.data, {})
<1>1. /\ d.data \in Seq(Item) /\ s.data \in Seq(SUBSET Blocks)
      /\ Len(d.data) \in Nat /\ Len(s.data) \in Nat
  BY DEF PersDomain, Levels
<1>2. /\ Len(e) = Len(d.data) + 1 /\ Len(t) = Len(s.data) + 1
      /\ \A k \in 1 .. Len(d.data) : e[k] = d.data[k]
      /\ \A k \in 1 .. Len(s.data) : t[k] = s.data[k]
      /\ t[Len(s.data) + 1] = {}
  BY <1>1
<1> HIDE DEF e, t
<1>3. ASSUME NEW k \in 1 .. Len(t), NEW b \in t[k]
      PROVE  e[Len(e) - Len(t) + k][b] # Absent
  <2>1. k \in 1 .. Len(s.data)
    BY <1>1, <1>2, <1>3
  <2>2. /\ Len(e) - Len(t) + k = Len(d.data) - Len(s.data) + k
        /\ Len(d.data) - Len(s.data) + k \in 1 .. Len(d.data)
    BY <1>1, <1>2, <2>1, Place
  <2>3. d.data[Len(d.data) - Len(s.data) + k][b] # Absent
    BY <1>2, <1>3, <2>1 DEF KeepsSeen
  <2> QED
    BY <1>2, <2>2, <2>3
<1> QED
  BY <1>3 DEF KeepsSeen, PersEnter, e, t

\* and when it is left.
LEMMA KeptLeave ==
    ASSUME NEW d \in PersDomain, NEW s \in Levels, Len(s.data) <= Len(d.data),
           KeepsSeen(d.data, s.data), Len(d.data) > 0
    PROVE  KeepsSeen(PersLeave(d).data, SubSeq(s.data, 1, Len(s.data) - 1))
<1> DEFINE e == SubSeq(d.data, 1, Len(d.data) - 1)
           t == SubSeq(s.data, 1, Len(s.data) - 1)
<1>1. /\ d.data \in Seq(Item) /\ s.data \in Seq(SUBSET Blocks)
      /\ Len(d.data) \in Nat /\ Len(s.data) \in Nat
  BY DEF PersDomain, Levels
<1>2. /\ Len(e) = Len(d.data) - 1
      /\ \A k \in 1 .. Len(d.data) - 1 : e[k] = d.data[k]
  BY <1>1, FrontType
<1>3. /\ Len(t) = IF Len(s.data) = 0 THEN 0 ELSE Len(s.data) - 1
      /\ \A k \in 1 .. Len(s.data) - 1 : t[k] = s.data[k]
  BY <1>1, FrontType
<1> HIDE DEF e, t
<1>4. ASSUME NEW k \in 1 .. Len(t), NEW b \in t[k]
      PROVE  e[Len(e) - Len(t) + k][b] # Absent
  <2>1. k \in 1 .. Len(s.data) - 1 /\ k \in 1 .. Len(s.data)
    BY <1>1, <1>3
  <2>2. /\ Len(e) - Len(t) + k = Len(d.data) - Len(s.data) + k
        /\ Len(d.data) - Len(s.data) + k \in 1 .. Len(d.data) - 1
    <3>1. Len(t) = Len(s.data) - 1 /\ k # Len(s.data)
      BY <1>1, <1>3, <2>1
    <3>2. /\ (Len(d.data) - 1) - (Len(s.data) - 1) + k = Len(d.data) - Len(s.data) + k
          /\ Len(d.data) - Len(s.data) + k \in 1 .. Len(d.data) - 1
      BY <1>1, <2>1, <3>1, Place
    <3> QED
      BY <1>2, <3>1, <3>2
  <2>3. d.data[Len(d.data) - Len(s.data) + k][b] # Absent
    BY <1>3, <1>4, <2>1 DEF KeepsSeen
  <2> QED
    BY <1>2, <2>2, <2>3
<1> QED
  BY <1>4 DEF KeepsSeen, PersLeave, e, t

(* A block that a path accessed since it entered a loop keeps an age at    *)
(* the level of the loop, through joins on either side with states that    *)
(* do not hold it, of any depth that includes the level: no level takes it *)
(* for one that is not in the loop.                                        *)
THEOREM PersMemory == Spec => []PersKeepsSeen
<1>1. Init => PersKeepsSeen
  BY DEF Init, PersKeepsSeen, KeepsSeen, PersEntry
<1>2. TypeOK /\ PersKeepsSeen /\ [Next]_vars => PersKeepsSeen'
  <2> SUFFICES ASSUME TypeOK, PersKeepsSeen, [Next]_vars, NEW r \in Paths
               PROVE  KeepsSeen(pers'[r].data, seen'[r].data)
    BY DEF PersKeepsSeen
  <2>1. \A p \in Paths : /\ KeepsSeen(pers[p].data, seen[p].data)
                         /\ pers[p] \in PersDomain /\ seen[p] \in Levels
                         /\ Len(seen[p].data) <= Len(pers[p].data)
    BY DEF PersKeepsSeen, TypeOK
  <2>2. ASSUME NEW p \in Paths, NEW id \in Blocks, Inject(p, id)
        PROVE  KeepsSeen(pers'[r].data, seen'[r].data)
    <3>1. \/ pers'[r] = pers[r] /\ seen'[r] = seen[r]
          \/ /\ pers'[r] = PersInject(pers[r], must[r], id)
             /\ seen'[r].data = [k \in 1 .. Len(seen[r].data) |-> seen[r].data[k] \cup {id}]
      BY <2>2 DEF Inject, TypeOK
    <3> QED
      BY <2>1, <3>1, KeptInject
  <2>3. ASSUME NEW p \in Paths, NEW q \in Paths, Join(p, q)
        PROVE  KeepsSeen(pers'[r].data, seen'[r].data)
    <3> DEFINE d == PersLub(pers[p], pers[q])
               n == Min2(Len(seen[p].data), Len(seen[q].data))
               s == Innermost(seen[r].data, n)
    <3>1. \/ pers'[r] = pers[r] /\ seen'[r] = seen[r]
          \/ r \in {p, q} /\ pers'[r] = d /\ seen'[r].data = s
      BY <2>3 DEF Join, TypeOK
    <3>2. CASE r \in {p, q}
      <4>1. pers[r] \in {pers[p], pers[q]}
        BY <3>2
      <4>2. /\ n \in Nat /\ n <= Len(seen[r].data) /\ n <= Len(pers[p].data)
        <5>1. /\ Len(seen[p].data) \in Nat /\ Len(seen[q].data) \in Nat
              /\ Len(seen[p].data) <= Len(pers[p].data) /\ Len(pers[p].data) \in Nat
          BY <2>1 DEF Levels, PersDomain
        <5> QED
          BY <3>2, <5>1 DEF Min2
      <4> HIDE DEF n
      <4>3. KeepsSeen(d.data, s)
        BY <2>1, <4>1, <4>2, KeptLub
      <4> QED
        BY <2>1, <3>1, <4>3
    <3> QED
      BY <2>1, <3>1, <3>2
  <2>4. ASSUME NEW p \in Paths, EnterLoop(p)
        PROVE  KeepsSeen(pers'[r].data, seen'[r].data)
    <3>1. \/ pers'[r] = pers[r] /\ seen'[r] = seen[r]
          \/ /\ pers'[r] = PersEnter(pers[r])
             /\ seen'[r].data = Append(seen[r].data, {})
      BY <2>4 DEF EnterLoop, TypeOK
    <3> QED
      BY <2>1, <3>1, KeptEnter
  <2>5. ASSUME NEW p \in Paths, LeaveLoop(p)
        PROVE  KeepsSeen(pers'[r].data, seen'[r].data)
    <3>1. \/ pers'[r] = pers[r] /\ seen'[r] = seen[r]
          \/ /\ Len(pers[r].data) > 0 /\ pers'[r] = PersLeave(pers[r])
             /\ seen'[r].data = SubSeq(seen[r].data, 1, Len(seen[r].data) - 1)
      BY <2>5 DEF LeaveLoop, TypeOK
    <3> QED
      BY <2>1, <3>1, KeptLeave
  <2>6. CASE UNCHANGED vars
    BY <2>1, <2>6 DEF vars
  <2> QED
    BY <2>2, <2>3, <2>4, <2>5, <2>6 DEF Next
<1> QED
  BY <1>1, <1>2, TypeCorrect, PTL DEF Spec
=============================================================================
