----------------------------- MODULE WorkSpace ------------------------------
(***************************************************************************)
(* The feature map of a workspace: one FeatureDependency per provided      *)
(* feature, each with the list of those that depend on it and of those it  *)
(* depends on.  Invalidation walks the first list recursively and frees    *)
(* the nodes on its way back, so the pointers copied by an outer call can  *)
(* only be followed if no inner call freed their targets: each read and    *)
(* each deletion is a step here.  A node is named by its feature, since    *)
(* the map holds at most one per feature.                                  *)
(***************************************************************************)
EXTENDS Integers, Sequences, Dependents

CONSTANT  MaxProvide    \* bound of the model: features provided in a history

ASSUME BoundAssumption == MaxProvide \in Nat

VARIABLES featMap,      \* the features that have a node
          children,     \* dependents of each node, the list in its order
          parents,      \* what each node depends on
          stack,        \* calls of invalidate(): feature, rest of to_inv
          deps,         \* left to do by the workspace's destructor
          closing,      \* the destructor has started
          born,         \* history: when each feature was last provided
          clock         \* history: how many have been provided

graph == <<featMap, children, parents>>
vars  == <<featMap, children, parents, stack, deps, closing, born, clock>>

-----------------------------------------------------------------------------

Elems(s) == {s[i] : i \in 1..Len(s)}

(* Faulty form of the next definition, for the runs that must notice it.   *)
Linked_last(list, f) == Append(list, f)

\* SLList::add puts a new element in front.
Linked(list, f) == <<f>> \o list

\* SLList::remove drops the first occurrence.
Unlinked(list, f) ==
    IF f \notin Elems(list) THEN list
    ELSE LET at == CHOOSE i \in 1..Len(list) :
                        list[i] = f /\ \A j \in 1..i-1 : list[j] # f
         IN  [j \in 1..Len(list)-1 |->
                IF j < at THEN list[j] ELSE list[j + 1]]

\* Calls in progress.
Pending == [feature : Features, to_inv : Seq(Features)]

\* A call of invalidate() that has copied the dependents of its feature.
Call(f) == [feature |-> f, to_inv |-> children[f]]

Idle == stack = <<>>
Top  == stack[Len(stack)]

-----------------------------------------------------------------------------

Init ==
    /\ featMap = {}
    /\ children = [f \in Features |-> <<>>]
    /\ parents = [f \in Features |-> {}]
    /\ stack = <<>>
    /\ deps = {}
    /\ closing = FALSE
    /\ born = [f \in Features |-> 0]
    /\ clock = 0

(* Faulty form of the next definition, for the runs that must notice it.   *)
Provide_forward(f, required) ==
    /\ Idle /\ ~closing /\ clock < MaxProvide
    /\ f \notin featMap
    /\ featMap' = featMap \union {f}
    /\ children' = children
    /\ parents' = [parents EXCEPT ![f] = required]
    /\ clock' = clock + 1
    /\ born' = [born EXCEPT ![f] = clock + 1]
    /\ UNCHANGED <<stack, deps, closing>>

\* provide(): nothing if the feature is provided already; the processor that
\* calls it lists each requirement once, and all of them are provided.
Provide(f, required) ==
    /\ Idle /\ ~closing /\ clock < MaxProvide
    /\ f \notin featMap
    /\ featMap' = featMap \union {f}
    /\ children' = [g \in Features |->
                        IF g \in required THEN Linked(children[g], f)
                        ELSE children[g]]
    /\ parents' = [parents EXCEPT ![f] = required]
    /\ clock' = clock + 1
    /\ born' = [born EXCEPT ![f] = clock + 1]
    /\ UNCHANGED <<stack, deps, closing>>

\* invalidate() from outside: nothing if the feature is not provided.
Invalidate(f) ==
    /\ Idle /\ ~closing
    /\ f \in featMap
    /\ stack' = <<Call(f)>>
    /\ UNCHANGED <<graph, deps, closing, born, clock>>

(* Faulty form of the next definition, for the runs that must notice it.   *)
Descend_again ==
    /\ ~Idle
    /\ Top.to_inv # <<>>
    /\ stack' = IF Head(Top.to_inv) \in featMap
                THEN Append(stack, Call(Head(Top.to_inv))) ELSE stack
    /\ UNCHANGED <<graph, deps, closing, born, clock>>

\* One turn of the loop of invalidate(): the next copied pointer is followed
\* to find its feature, which is invalidated first if it is provided.
Descend ==
    /\ ~Idle
    /\ Top.to_inv # <<>>
    /\ LET f    == Head(Top.to_inv)
           rest == [stack EXCEPT ![Len(stack)] =
                        [feature |-> Top.feature, to_inv |-> Tail(Top.to_inv)]]
       IN  stack' = IF f \in featMap THEN Append(rest, Call(f)) ELSE rest
    /\ UNCHANGED <<graph, deps, closing, born, clock>>

(* Faulty form of the next definition, for the runs that must notice it.   *)
Delete_dangling ==
    /\ ~Idle
    /\ Top.to_inv = <<>>
    /\ featMap' = featMap \ {Top.feature}
    /\ children' = [children EXCEPT ![Top.feature] = <<>>]
    /\ parents' = [parents EXCEPT ![Top.feature] = {}]
    /\ stack' = SubSeq(stack, 1, Len(stack) - 1)
    /\ UNCHANGED <<deps, closing, born, clock>>

\* The loop is over: the node leaves the map and is deleted, which takes it
\* out of the lists of the nodes it depends on, and the call returns.
Delete ==
    /\ ~Idle
    /\ Top.to_inv = <<>>
    /\ featMap' = featMap \ {Top.feature}
    /\ children' = [g \in Features |->
                        IF g = Top.feature THEN <<>>
                        ELSE IF g \in parents[Top.feature]
                             THEN Unlinked(children[g], Top.feature)
                             ELSE children[g]]
    /\ parents' = [parents EXCEPT ![Top.feature] = {}]
    /\ stack' = SubSeq(stack, 1, Len(stack) - 1)
    /\ UNCHANGED <<deps, closing, born, clock>>

(* Faulty form of the next definition, for the runs that must notice it.   *)
Close_nodes ==
    /\ Idle /\ ~closing
    /\ closing' = TRUE
    /\ deps' = {Call(f) : f \in featMap}
    /\ UNCHANGED <<graph, stack, born, clock>>

(* Faulty form of the next definition, for the runs that must notice it.   *)
Close_roots ==
    /\ Idle /\ ~closing
    /\ closing' = TRUE
    /\ deps' = {f \in featMap : parents[f] # {}}
    /\ UNCHANGED <<graph, stack, born, clock>>

\* The destructor lists the features of the map,
Close ==
    /\ Idle /\ ~closing
    /\ closing' = TRUE
    /\ deps' = featMap
    /\ UNCHANGED <<graph, stack, born, clock>>

\* then invalidates those that are still provided, in the map's order.
CloseOne(f) ==
    /\ Idle /\ closing
    /\ f \in deps
    /\ deps' = deps \ {f}
    /\ stack' = IF f \in featMap THEN <<Call(f)>> ELSE stack
    /\ UNCHANGED <<graph, closing, born, clock>>

Next ==
    \/ \E f \in Features, required \in SUBSET featMap : Provide(f, required)
    \/ \E f \in Features : Invalidate(f) \/ CloseOne(f)
    \/ Descend
    \/ Delete
    \/ Close

\* A call of invalidate() that has started runs to its end in its thread, and
\* so does the destructor; whether anything is provided or invalidated, and
\* whether the workspace is deleted, is up to the application.
Spec ==
    /\ Init /\ [][Next]_vars
    /\ WF_vars(Descend \/ Delete \/ \E f \in Features : CloseOne(f))

-----------------------------------------------------------------------------

\* Types, and the shape of a call of invalidate(), of WorkSpace::featMap and
\* of the lists of FeatureDependency.
TypeOK ==
    /\ featMap \in SUBSET Features
    /\ children \in [Features -> Seq(Features)]
    /\ parents \in [Features -> SUBSET Features]
    /\ stack \in Seq(Pending)
    /\ deps \in SUBSET Features
    /\ closing \in BOOLEAN
    /\ born \in [Features -> Nat]
    /\ clock \in Nat

\* The loop of invalidate() never follows a pointer it copied to a node that
\* a deeper call has freed: the copy is made before the calls, and a feature
\* can be reached both directly and through another dependent.
NoDanglingRead ==
    ~Idle /\ Top.to_inv # <<>> => Head(Top.to_inv) \in featMap

\* What delFeatDep() and the destructor of a node assert: the node is still
\* in the map, and nothing depends on it any more.
DeletedAlone ==
    ~Idle /\ Top.to_inv = <<>> =>
        /\ Top.feature \in featMap
        /\ children[Top.feature] = <<>>

\* Even in the middle of an invalidation, a provided feature still has all it
\* was computed from, and the two lists of an edge agree: no analysis result
\* outlives the results it rests on.
NoneOutlivesItsBase ==
    \A f, g \in Features :
        /\ f \in featMap => parents[f] \subseteq featMap
        /\ f \in Elems(children[g]) <=> g \in parents[f]

\* The workspace's destructor leaves no feature behind, and so no cleaner that
\* was not run, though it follows the order of a hash table.
AllReleased ==
    closing /\ Idle /\ deps = {} => featMap = {}

\* Invalidation stops, on graphs where a feature is reached along several ways.
InvalidateEnds == ~Idle ~> Idle

\* The features as an observer sees them: what is being invalidated is gone
\* as soon as the outermost call starts.
Going == IF Idle THEN {} ELSE Cone(stack[1].feature, parents)

Promise == INSTANCE Features WITH
    provided <- featMap \ Going,
    needs    <- [f \in Features |-> IF f \in Going THEN {} ELSE parents[f]]

\* One invalidation removes what was computed from its feature, all of it and
\* nothing else, and providing a feature disturbs no other.
KeepsPromise == Promise!Spec
=============================================================================
