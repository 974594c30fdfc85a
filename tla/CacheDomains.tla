---------------------------- MODULE CacheDomains ----------------------------
(***************************************************************************)
(* The abstract cache states (ACS) of one cache set: MUSTProblem::Domain,  *)
(* MAYProblem::Domain, PERSProblem::Item and PERSProblem::Domain           *)
(* (include/otawa/cache/cat2).  A domain gives an age to each cache block  *)
(* of the set; blocks are numbered from 0, and the order of the numbers    *)
(* matters, because inject() updates the ages in that order and in place.  *)
(***************************************************************************)
EXTENDS CacheSet, Sequences

CONSTANT Size    \* number of cache blocks, LBlockSet::cacheBlockCount()

ASSUME SizeAssumption == Size \in Nat \ {0}

Blocks == 0 .. (Size - 1)
Absent == -1

Max2(x, y) == IF x < y THEN y ELSE x
Min2(x, y) == IF x < y THEN x ELSE y

-----------------------------------------------------------------------------
(* MUST: an upper bound of the age of a block that is surely in the set.   *)
MustDomain == [Blocks -> Absent .. (A - 1)]
MustEntry  == [b \in Blocks |-> Absent]
MustBottom == [b \in Blocks |-> 0]

(* Faulty form of the next definition, for the runs that must notice it.   *)
MustLub_union(x, y) == [b \in Blocks |-> Max2(x[b], y[b])]

MustLub(x, y) == [b \in Blocks |-> IF Absent \in {x[b], y[b]} THEN Absent
                                   ELSE Max2(x[b], y[b])]

(* Faulty form of the next definition, for the runs that must notice it.   *)
Older_late(a) == IF a \in {Absent, A} THEN Absent ELSE a + 1

Older(a) == IF a = Absent \/ a + 1 = A THEN Absent ELSE a + 1

MustInject(x, id) ==
    [b \in Blocks |->
        IF b = id THEN 0
        ELSE IF x[id] = Absent THEN Older(x[b])
        ELSE IF x[b] # Absent /\ x[b] < x[id] THEN x[b] + 1 ELSE x[b]]

-----------------------------------------------------------------------------
(* MAY: the youngest age a block may have.  When id is contained, the loop *)
(* of inject() compares each age with age[id], and increments age[id]      *)
(* itself on the way: the blocks after id see it one older.  Only a block  *)
(* that was not contained takes out those that come to the age A; others   *)
(* pass it.                                                                *)
MayDomain == [Blocks -> Int]
MayEntry  == [b \in Blocks |-> Absent]

(* Faulty form of the next definition, for the runs that must notice it.   *)
MayLub_both(x, y) == [b \in Blocks |-> Min2(x[b], y[b])]

MayLub(x, y) == [b \in Blocks |-> IF x[b] = Absent THEN y[b]
                                  ELSE IF y[b] = Absent THEN x[b]
                                  ELSE Min2(x[b], y[b])]

MayLimit(x, id, b) == IF b > id THEN x[id] + 1 ELSE x[id]

MayInject(x, id) ==
    [b \in Blocks |->
        IF b = id THEN 0
        ELSE IF x[id] = Absent THEN Older(x[b])
        ELSE IF x[b] # Absent /\ x[b] <= MayLimit(x, id, b)
             THEN x[b] + 1 ELSE x[b]]

-----------------------------------------------------------------------------
(* PERS, one level: the oldest age a block reached since the level was     *)
(* entered, A once it was evicted, Absent when it was not accessed.  The   *)
(* ages compared are those of the level; MUST only says which case it is.  *)
Item      == [Blocks -> Absent .. A]
ItemEmpty == [b \in Blocks |-> Absent]

(* Faulty form of the next definition, for the runs that must notice it.   *)
ItemLub_both(x, y) == [b \in Blocks |-> Min2(x[b], y[b])]

ItemLub(x, y) == [b \in Blocks |-> Max2(x[b], y[b])]

(* Faulty form of the next definition, for the runs that must notice it.   *)
ItemInject_hit(x, must, id) ==
    [b \in Blocks |->
        IF b = id THEN 0
        ELSE IF x[b] \notin {Absent, A} /\ x[b] < x[id] THEN x[b] + 1 ELSE x[b]]

ItemInject(x, must, id) ==
    [b \in Blocks |->
        IF b = id THEN 0
        ELSE IF x[b] \notin {Absent, A} /\ (must[id] = Absent \/ x[b] < x[id])
             THEN x[b] + 1 ELSE x[b]]

IsPersistent(x, id) == x[id] \notin {Absent, A}

(* PERS, the domain: a stack with one level per enclosing loop, outermost  *)
(* first, and a level for the whole program.                               *)
PersDomain == [whole : Item, data : Seq(Item)]
PersEntry  == [whole |-> ItemEmpty, data |-> <<>>]

PersEnter(p) == [whole |-> p.whole, data |-> Append(p.data, ItemEmpty)]
PersLeave(p) == [whole |-> p.whole, data |-> SubSeq(p.data, 1, Len(p.data) - 1)]

(* Faulty form of the next definition, for the runs that must notice it.   *)
PersLub_outer(p, q) ==
    [whole |-> ItemLub(p.whole, q.whole),
     data  |-> [k \in 1 .. Len(p.data) |->
                   IF k > Len(q.data) THEN p.data[k]
                   ELSE ItemLub(p.data[k], q.data[k])]]

(* Levels are matched innermost to innermost.  The outer levels that only  *)
(* the right stack has are dropped.  Those that only the left one has stay *)
(* as they are: data.remove(0) looks for a null pointer in the stack, and  *)
(* removes nothing.  So the join has the depth of its left operand.        *)
PersLub(p, q) ==
    LET over == Len(p.data) - Len(q.data)
    IN  [whole |-> ItemLub(p.whole, q.whole),
         data  |-> [k \in 1 .. Len(p.data) |->
                       IF k <= over THEN p.data[k]
                       ELSE ItemLub(p.data[k], q.data[k - over])]]

(* Faulty form of the next definition, for the runs that must notice it.   *)
PersInject_inner(p, must, id) ==
    [whole |-> ItemInject(p.whole, must, id),
     data  |-> [k \in 1 .. Len(p.data) |->
                   IF k = Len(p.data) THEN ItemInject(p.data[k], must, id)
                   ELSE p.data[k]]]

PersInject(p, must, id) ==
    [whole |-> ItemInject(p.whole, must, id),
     data  |-> [k \in 1 .. Len(p.data) |-> ItemInject(p.data[k], must, id)]]
=============================================================================
