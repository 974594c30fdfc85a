------------------------------ MODULE MUSTPERS ------------------------------
(***************************************************************************)
(* The combined MUST/PERS analysis of one cache set (MUSTPERS.h), seen     *)
(* along the executions it stands for.  Each path is an execution: a real  *)
(* LRU set and the abstract state that the analysis has at that point.     *)
(* The analysis updates the abstract state at each access, joins it where  *)
(* paths meet, and opens and closes a level of PERS around each loop.      *)
(***************************************************************************)
EXTENDS CacheDomains

CONSTANTS Paths,     \* executions that meet at the joins
          Before,    \* what the set may hold when the program starts
          MaxDepth   \* bound on the nesting of loops

(* A tag outside Blocks is in no block of the program.                     *)
ASSUME TagsAssumption == Blocks \subseteq Tags
ASSUME BeforeAssumption == Before \subseteq Lines
ASSUME DepthAssumption == MaxDepth \in Nat

VARIABLES line,    \* the real cache set of each path
          must,    \* MUSTPERS::Domain::must
          pers,    \* MUSTPERS::Domain::pers
          seen     \* history: the blocks a path accessed since it entered
                   \* each of the levels of pers, for those that all the
                   \* states that were joined had (the inner ones)

vars == <<line, must, pers, seen>>

Levels == [whole : SUBSET Blocks, data : Seq(SUBSET Blocks)]

TypeOK == /\ line \in [Paths -> Lines]
          /\ must \in [Paths -> MustDomain]
          /\ pers \in [Paths -> PersDomain]
          /\ seen \in [Paths -> Levels]
          /\ \A p \in Paths : Len(seen[p].data) <= Len(pers[p].data)

Init == /\ line \in [Paths -> Before]
        /\ must = [p \in Paths |-> MustEntry]
        /\ pers = [p \in Paths |-> PersEntry]
        /\ seen = [p \in Paths |-> [whole |-> {}, data |-> <<>>]]

-----------------------------------------------------------------------------
(* MUSTPERS::Domain::inject: PERS first, with the MUST ages of before.     *)
Inject(p, id) ==
    /\ pers' = [pers EXCEPT ![p] = PersInject(@, must[p], id)]
    /\ must' = [must EXCEPT ![p] = MustInject(@, id)]
    /\ line' = [line EXCEPT ![p] = LRUAccess(id, @)]
    /\ seen' = [seen EXCEPT ![p] =
                  [whole |-> @.whole \cup {id},
                   data  |-> [k \in 1 .. Len(@.data) |-> @.data[k] \cup {id}]]]

(* Two paths reach the same point, and the analysis goes on with one       *)
(* state, at the depth of the left one.  The history goes on with the      *)
(* levels that both had.                                                   *)
Innermost(s, n) == [k \in 1 .. n |-> s[Len(s) - n + k]]

Join(p, q) ==
    LET m == MustLub(must[p], must[q])
        d == PersLub(pers[p], pers[q])
        n == Min2(Len(seen[p].data), Len(seen[q].data))
        Shared(s) == [whole |-> s.whole, data |-> Innermost(s.data, n)]
    IN  /\ p # q
        /\ must' = [must EXCEPT ![p] = m, ![q] = m]
        /\ pers' = [pers EXCEPT ![p] = d, ![q] = d]
        /\ seen' = [seen EXCEPT ![p] = Shared(@), ![q] = Shared(@)]
        /\ UNCHANGED line

EnterLoop(p) ==
    /\ Len(pers[p].data) < MaxDepth
    /\ pers' = [pers EXCEPT ![p] = PersEnter(@)]
    /\ seen' = [seen EXCEPT ![p] = [whole |-> @.whole,
                                    data  |-> Append(@.data, {})]]
    /\ UNCHANGED <<line, must>>

LeaveLoop(p) ==
    /\ Len(pers[p].data) > 0
    /\ pers' = [pers EXCEPT ![p] = PersLeave(@)]
    /\ seen' = [seen EXCEPT ![p] =
                  [whole |-> @.whole,
                   data  |-> SubSeq(@.data, 1, Len(@.data) - 1)]]
    /\ UNCHANGED <<line, must>>

Next == \E p \in Paths : \/ \E id \in Blocks : Inject(p, id)
                         \/ \E q \in Paths : Join(p, q)
                         \/ EnterLoop(p)
                         \/ LeaveLoop(p)

Spec == Init /\ [][Next]_vars

-----------------------------------------------------------------------------
(* A block in MUST is in the cache, no older than its MUST age, on every   *)
(* path that reaches this point and from any initial contents: an l-block  *)
(* categorised ALWAYS_HIT hits.                                            *)
MustSound == \A p \in Paths, b \in Blocks :
                 must[p][b] # Absent => Within(line[p], b, must[p][b])

(* At the level of the whole program PERS bounds the age that every        *)
(* accessed block has: one that is not wiped is still in the cache.        *)
LevelSound(l, item, blocks) ==
    \A b \in blocks : /\ item[b] # Absent
                      /\ item[b] < A => Within(l, b, item[b])

WholeSound == \A p \in Paths : LevelSound(line[p], pers[p].whole, seen[p].whole)

(* No level loses a block that a path accessed since it entered the level. *)
(* It is about the levels that all the states joined there had: those that *)
(* only the left one had stay in the stack, whatever the others accessed.  *)
KeepsSeen(d, s) == \A k \in 1 .. Len(s) :
                       \A b \in s[k] : d[Len(d) - Len(s) + k][b] # Absent

PersKeepsSeen == \A p \in Paths : KeepsSeen(pers[p].data, seen[p].data)

(* A block is at least as old at the level of the program as at any other, *)
(* and at an outer level as at an inner one, when all the states that met  *)
(* there had both.  What is evicted inside is then evicted outside: the    *)
(* fact by which CAT2Builder may stop climbing at the first level where a  *)
(* block is not persistent.                                                *)
NoOlder(x, y) == \A b \in Blocks : x[b] <= y[b]

Nested(d, n) == \A k \in 1 .. Len(d) : \A j \in (Len(d) - n + 1) .. k :
                    NoOlder(d[k], d[j])

PersNested == \A p \in Paths :
                  /\ \A k \in 1 .. Len(pers[p].data) :
                         NoOlder(pers[p].data[k], pers[p].whole)
                  /\ Nested(pers[p].data, Len(seen[p].data))
=============================================================================
