----------------------------- MODULE Processor ------------------------------
(***************************************************************************)
(* Processor::process(): a processor takes away the features it declares   *)
(* invalid, has those it requires provided by running their default        *)
(* processors, works, takes away the features it has just used up, and     *)
(* provides its own.  The runs nest, all on one workspace, which is seen   *)
(* here as the abstract specification Features sees it.  Features outside  *)
(* the constant Features are held to be provided throughout.               *)
(***************************************************************************)
EXTENDS Integers, Sequences, SequencesExt, Dependents

CONSTANTS Usages,       \* what each processor declares, in its order
          Default,      \* the processor each feature runs by default
          NoProcessor,  \* the one that only gives up
          Started,      \* processors a tool runs by name
          Asked,        \* features a tool requires
          Withdrawn,    \* features a tool invalidates
          MaxRequests   \* bound of the model: requests in a history

Processors == DOMAIN Usages

ASSUME UsageAssumption ==
    /\ \A p \in Processors :
            /\ Usages[p] \in Seq(ToSet(Usages[p]))
            /\ \A i \in 1..Len(Usages[p]) : Usages[p][i].kind
                    \in {"require", "use", "provide", "invalidate"}
    /\ IsFiniteSet(Features)
    /\ Default \in [Features -> Processors \union {NoProcessor}]
    /\ NoProcessor \notin Processors
    /\ Started \subseteq Processors /\ Asked \subseteq Features
    /\ Withdrawn \subseteq Features /\ MaxRequests \in Nat

VARIABLES provided,     \* the features of the workspace
          needs,        \* what each was computed from
          doomed,       \* being invalidated: their nodes are still to delete
          calls,        \* runs of process() in progress
          cancelled,    \* WorkSpace::cancel() was called
          thrown,       \* the exception that ended the last request, or none
          asked,        \* history: what the last request is to provide
          closing,      \* the workspace's destructor has started
          requests      \* how many requests a tool made

workspace == <<provided, needs, doomed>>
tool == <<asked, closing, requests>>
vars == <<workspace, calls, cancelled, thrown, tool>>

-----------------------------------------------------------------------------

\* The members of a list that a loop over it does not pass over, in their order.
Kept(list, wanted) ==
    LET Upto[i \in 0..Len(list)] ==
            IF i = 0 THEN <<>>
            ELSE IF list[i] \in wanted THEN Append(Upto[i - 1], list[i])
            ELSE Upto[i - 1]
    IN  Upto[Len(list)]

\* The features that p uses in one of some ways, in the order of a FeatureIter.
Declared(p, kinds) ==
    LET chosen == Kept(Usages[p], [kind : kinds, feature : Features])
    IN  [i \in 1..Len(chosen) |-> chosen[i].feature]

Uses(p, f) == f \in ToSet(Declared(p, {"require", "use"}))

\* The features that p invalidates, those it uses or those it does not.
Invalidated(p, used) ==
    Kept(Declared(p, {"invalidate"}), {f \in Features : Uses(p, f) = used})

\* Every feature that has a processor is provided by it, and a processor that
\* takes away, after its work, something it used keeps nothing it required.
ASSUME DeclarationAssumption ==
    /\ \A f \in Features : Default[f] # NoProcessor =>
            f \in ToSet(Declared(Default[f], {"provide"}))
    /\ \A p \in Processors : Invalidated(p, TRUE) # <<>> =>
            ToSet(Declared(p, {"require"}))
                \subseteq ToSet(Declared(p, {"invalidate"}))

\* What was computed directly from a feature that is being invalidated.
Reached == {g \in provided : needs[g] \cap doomed # {}}

Idle == calls = <<>>
Top  == calls[Len(calls)]

\* The call on top goes on; the others wait.
Becomes(call) == calls' = [calls EXCEPT ![Len(calls)] = call]
Return        == calls' = SubSeq(calls, 1, Len(calls) - 1)

\* A run at its start: it first invalidates what it does not use.
Begin(p) == [proc |-> p, at |-> "before", todo |-> Invalidated(p, FALSE),
             required |-> ToSet(Declared(p, {"require"}))]

\* The run on top enters a phase, with a list of features to go through.
Enter(phase, list) == Becomes([Top EXCEPT !.at = phase, !.todo = list])

\* The next feature of the list is done with.
Step == Becomes([Top EXCEPT !.todo = Tail(@)])

\* An exception leaves every run in progress.
Throw(what) == calls' = <<>> /\ thrown' = what

Ready(phase) == ~Idle /\ doomed = {} /\ Top.at = phase

-----------------------------------------------------------------------------

Init ==
    /\ provided = {}
    /\ needs = [f \in Features |-> {}]
    /\ doomed = {}
    /\ calls = <<>>
    /\ cancelled = FALSE
    /\ thrown = "none"
    /\ asked = {}
    /\ closing = FALSE
    /\ requests = 0

\* A tool asks something of an idle workspace.
Ask(wanted) ==
    /\ Idle /\ doomed = {} /\ ~closing
    /\ requests < MaxRequests
    /\ requests' = requests + 1
    /\ asked' = wanted
    /\ thrown' = "none"
    /\ cancelled' = FALSE
    /\ UNCHANGED closing

\* A tool runs a processor.
Process(p) ==
    /\ Ask(ToSet(Declared(p, {"provide"})))
    /\ calls' = <<Begin(p)>>
    /\ UNCHANGED workspace

\* A tool requires a feature that is missing.
Require(f) ==
    /\ Ask({f})
    /\ f \notin provided /\ Default[f] # NoProcessor
    /\ calls' = <<Begin(Default[f])>>
    /\ UNCHANGED workspace

\* A tool invalidates a feature.
Withdraw(f) ==
    /\ Ask({})
    /\ f \in provided
    /\ doomed' = {f}
    /\ UNCHANGED <<provided, needs, calls>>

\* A tool deletes the workspace, which invalidates what is left, in no order.
Close ==
    /\ Idle /\ doomed = {} /\ ~closing
    /\ closing' = TRUE
    /\ UNCHANGED <<workspace, calls, cancelled, thrown, asked, requests>>

CloseOne(f) ==
    /\ closing /\ doomed = {}
    /\ f \in provided
    /\ doomed' = {f}
    /\ UNCHANGED <<provided, needs, calls, cancelled, thrown, tool>>

\* Another thread asks the computation to stop.
Cancel ==
    /\ ~Idle /\ ~cancelled
    /\ cancelled' = TRUE
    /\ UNCHANGED <<workspace, calls, thrown, tool>>

-----------------------------------------------------------------------------

(* Faulty form of the next definition, for the runs that must notice it.   *)
InvalidateNext_kept ==
    /\ Ready("before") \/ Ready("after")
    /\ Top.todo # <<>>
    /\ doomed' = IF Head(Top.todo) \in provided THEN {Head(Top.todo)} ELSE {}
    /\ Becomes([Top EXCEPT !.todo = Tail(@)])
    /\ UNCHANGED <<provided, needs, cancelled, thrown, tool>>

(* Faulty form of the next definition, for the runs that must notice it.   *)
InvalidateNext_again ==
    /\ Ready("before") \/ Ready("after")
    /\ Top.todo # <<>>
    /\ LET f == Head(Top.todo)
       IN  /\ doomed' = IF f \in provided THEN {f} ELSE {}
           /\ Becomes([Top EXCEPT !.required = @ \ {f}])
    /\ UNCHANGED <<provided, needs, cancelled, thrown, tool>>

\* The run invalidates the next feature of its list, before or after its work.
InvalidateNext ==
    /\ Ready("before") \/ Ready("after")
    /\ Top.todo # <<>>
    /\ LET f == Head(Top.todo)
       IN  /\ doomed' = IF f \in provided THEN {f} ELSE {}
           /\ Becomes([Top EXCEPT !.todo = Tail(@), !.required = @ \ {f}])
    /\ UNCHANGED <<provided, needs, cancelled, thrown, tool>>

\* An invalidation reaches the dependents of the features it goes through,
Spread ==
    /\ ~ Reached \subseteq doomed
    /\ doomed' = doomed \union Reached
    /\ UNCHANGED <<provided, needs, calls, cancelled, thrown, tool>>

(* Faulty form of the next definition, for the runs that must notice it.   *)
Drop_first(g) ==
    /\ g \in doomed
    /\ provided' = provided \ {g}
    /\ needs' = [needs EXCEPT ![g] = {}]
    /\ doomed' = doomed \ {g}
    /\ UNCHANGED <<calls, cancelled, thrown, tool>>

\* and deletes the node of one that nothing depends on any more.
Drop(g) ==
    /\ g \in doomed
    /\ \A h \in provided : g \notin needs[h]
    /\ provided' = provided \ {g}
    /\ needs' = [needs EXCEPT ![g] = {}]
    /\ doomed' = doomed \ {g}
    /\ UNCHANGED <<calls, cancelled, thrown, tool>>

(* Faulty form of the next definition, for the runs that must notice it.   *)
StartRequiring_required ==
    /\ Ready("before") /\ Top.todo = <<>>
    /\ Enter("require", Declared(Top.proc, {"require"}))
    /\ UNCHANGED <<workspace, cancelled, thrown, tool>>

\* What was to be invalidated before the work is: now the requirements.
StartRequiring ==
    /\ Ready("before") /\ Top.todo = <<>>
    /\ Enter("require", Declared(Top.proc, {"require", "use"}))
    /\ UNCHANGED <<workspace, cancelled, thrown, tool>>

\* A feature that is provided is skipped; another has its processor run.
RequireNext ==
    /\ Ready("require") /\ Top.todo # <<>> /\ ~cancelled
    /\ LET f == Head(Top.todo)
           rest == [calls EXCEPT ![Len(calls)].todo = Tail(@)]
       IN  CASE f \in provided ->
                    calls' = rest /\ UNCHANGED thrown
             [] f \notin provided /\ Default[f] = NoProcessor ->
                    Throw("unavailable")
             [] OTHER ->
                    /\ calls' = Append(rest, Begin(Default[f]))
                    /\ UNCHANGED thrown
    /\ UNCHANGED <<workspace, cancelled, tool>>

(* Faulty form of the next definition, for the runs that must notice it.   *)
GiveUp_clearing ==
    /\ Ready("require") /\ cancelled
    /\ Return
    /\ cancelled' = FALSE
    /\ UNCHANGED <<workspace, thrown, tool>>

\* A cancelled run returns before it works.
GiveUp ==
    /\ Ready("require") /\ cancelled
    /\ Return
    /\ UNCHANGED <<workspace, cancelled, thrown, tool>>

\* All requirements were gone through once: all must be provided by now.
Check ==
    /\ Ready("require") /\ Top.todo = <<>> /\ ~cancelled
    /\ IF \A f \in Features : Uses(Top.proc, f) => f \in provided
       THEN Enter("work", <<>>) /\ UNCHANGED thrown
       ELSE Throw("circular")
    /\ UNCHANGED <<workspace, cancelled, tool>>

\* processWorkSpace(), then the features it used up are to be invalidated.
Work ==
    /\ Ready("work")
    /\ Enter("after", Invalidated(Top.proc, TRUE))
    /\ UNCHANGED <<workspace, cancelled, thrown, tool>>

\* processWorkSpace() throws: process() cleans up and lets the exception go.
Fail ==
    /\ Ready("work")
    /\ Throw("failed")
    /\ UNCHANGED <<workspace, cancelled, tool>>

\* cleanup() of the processor, then its features are to be provided.
CleanUp ==
    /\ Ready("after") /\ Top.todo = <<>>
    /\ Enter("provide", Declared(Top.proc, {"provide"}))
    /\ UNCHANGED <<workspace, cancelled, thrown, tool>>

(* Faulty form of the next definition, for the runs that must notice it.   *)
ProvideNext_alone ==
    /\ Ready("provide") /\ Top.todo # <<>>
    /\ provided' = provided \union {Head(Top.todo)}
    /\ Step
    /\ UNCHANGED <<needs, doomed, cancelled, thrown, tool>>

\* One more feature is provided, unless it is already.
ProvideNext ==
    /\ Ready("provide") /\ Top.todo # <<>>
    /\ LET f == Head(Top.todo)
       IN  /\ provided' = provided \union {f}
           /\ needs' = IF f \in provided THEN needs
                       ELSE [needs EXCEPT ![f] = Top.required]
    /\ Step
    /\ UNCHANGED <<doomed, cancelled, thrown, tool>>

\* The cleaners of the processor are put on the features, and it returns.
Finish ==
    /\ Ready("provide") /\ Top.todo = <<>>
    /\ Return
    /\ UNCHANGED <<workspace, cancelled, thrown, tool>>

Run ==
    \/ InvalidateNext
    \/ \E g \in Features : Drop(g) \/ CloseOne(g)
    \/ Spread
    \/ StartRequiring \/ RequireNext \/ GiveUp \/ Check
    \/ Work \/ Fail \/ CleanUp \/ ProvideNext \/ Finish

Next ==
    \/ \E p \in Started : Process(p)
    \/ \E f \in Asked : Require(f)
    \/ \E f \in Withdrawn : Withdraw(f)
    \/ Cancel \/ Close
    \/ Run

\* A run goes on until it returns or throws.
Spec == Init /\ [][Next]_vars /\ WF_vars(Run)

-----------------------------------------------------------------------------

\* What a feature may be recorded to rest on, as its processors declare it.
Rests(h) ==
    UNION {ToSet(Declared(p, {"require"})) \ ToSet(Declared(p, {"invalidate"})) :
            p \in {q \in Processors : h \in ToSet(Declared(q, {"provide"}))}}

\* What a request for each feature may take away, and an order of the
\* declarations that works: none undoes what those before it asked for.
InOrder(undone) ==
    /\ undone \in [Features -> SUBSET Features]
    /\ \A f \in Features : Default[f] # NoProcessor =>
            /\ ToSet(Declared(Default[f], {"invalidate"})) \subseteq undone[f]
            /\ \A g \in Features : Uses(Default[f], g) => undone[g] \subseteq undone[f]
    /\ \A f, h \in Features : Rests(h) \cap undone[f] # {} => h \in undone[f]
    /\ \A p \in Processors :
            LET list == Declared(p, {"require", "use"})
            IN  \A i, j \in 1..Len(list) : i < j => list[i] \notin undone[list[j]]

\* Types, and what process() keeps: the calls in progress, at some line of it,
\* and the local list of the features it requires.
TypeOK ==
    /\ provided \in SUBSET Features
    /\ needs \in [Features -> SUBSET Features]
    /\ doomed \in SUBSET Features
    /\ calls \in Seq([proc : Processors, todo : Seq(Features),
            at : {"before", "require", "work", "after", "provide"},
            required : SUBSET Features])
    /\ cancelled \in BOOLEAN
    /\ thrown \in {"none", "unavailable", "circular", "failed"}
    /\ asked \in SUBSET Features
    /\ closing \in BOOLEAN
    /\ requests \in 0..MaxRequests

\* No processor finds, after one pass over its requirements, that a later one
\* took away an earlier one: the declarations are in an order that works,
\* whatever was provided before.  It is what process() reports as a probable
\* circular dependency.
NotCircular == thrown # "circular"

\* The assertions of WorkSpace::provide(): a feature is not among those it is
\* recorded to depend on, and these are all provided, although the processor
\* may just have invalidated features that they rested on.
RequiredHold ==
    Ready("provide") /\ Top.todo # <<>> /\ Head(Top.todo) \notin provided =>
        /\ Head(Top.todo) \notin Top.required
        /\ Top.required \subseteq provided

\* "Ensure that a feature is provided": a request that was neither cancelled
\* nor ended by an exception leaves what it is for on the workspace, although
\* the runs it causes take features away.
RequestsDeliver ==
    Idle /\ doomed = {} /\ thrown = "none" /\ ~cancelled /\ ~closing =>
        asked \subseteq provided

\* A request comes to an end, with its features or with an exception, and so
\* do the requests of the processors it runs.
RequestsEnd == ~Idle ~> Idle

\* As an observer of the workspace sees it, a feature goes with all that was
\* computed from it as soon as the outermost invalidation starts; processors
\* only ever record a feature with features that are provided.
Going ==
    LET Grown[S \in SUBSET Features] ==
            LET more == {g \in Features \ S : needs[g] \cap S # {}}
            IN  IF more = {} THEN S ELSE Grown[S \union more]
    IN  Grown[doomed]

Promise == INSTANCE Features WITH
    provided <- provided \ Going,
    needs    <- LET gone == Going
                IN  [f \in Features |-> IF f \in gone THEN {} ELSE needs[f]]

KeepsPromise == Promise!Spec
=============================================================================
