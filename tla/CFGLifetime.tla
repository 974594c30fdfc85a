---------------------------- MODULE CFGLifetime -----------------------------
(***************************************************************************)
(* The graphs that processors pass to each other through two properties of *)
(* the workspace, INVOLVED_CFGS (a collection of CFG) and ENTRY_CFG, while *)
(* Processor runs them.  Each graph is built by one processor, read by     *)
(* others, and freed by a cleaner put on the feature it stands for; some   *)
(* cleaners free whatever a property holds by the time they run.  A use of *)
(* something freed or missing is recorded as a fault, and ends the model:  *)
(* nothing is known of what the program does next.  A collection is named  *)
(* with its first CFG, the only one the properties tell apart.             *)
(***************************************************************************)
EXTENDS Processor

VARIABLES memory,       \* the two properties and what is allocated
          cleaners,     \* what to do when the node of a feature is deleted
          about         \* history: the CFG each feature was computed from

lifetime == <<memory, cleaners, about>>

Null == [id |-> 0, cfg |-> 0]     \* no collection; no CFG is the CFG 0

\* Processors that make a new graph of the one they read.
Transformers == {"Virtualizer", "LoopUnroller", "DelayedBuilder", "LoopReductor"}

\* Results hooked on the blocks of the graph.
Analyses == {"DOMINANCE", "LOOP_HEADERS", "LOOP_INFO", "CLP"}

-----------------------------------------------------------------------------

Blame(m, what) == IF m.fault = "none" THEN [m EXCEPT !.fault = what] ELSE m

\* INVOLVED_CFGS is read, and its CFG visited.
ReadInvolved(m) ==
    IF m.involved = Null THEN Blame(m, "assertion")
    ELSE IF m.involved \notin m.collections \/ m.involved.cfg \notin m.cfgs
         THEN Blame(m, "freed")
    ELSE m

ReadEntry(m) ==
    IF m.entry = 0 \/ m.entry \notin m.cfgs THEN Blame(m, "freed")
    ELSE IF m.made[m.entry] = {} THEN Blame(m, "assertion")
    ELSE m

\* What was done to a CFG since it was first built.
History(m, c) == IF c = 0 THEN {} ELSE m.made[c]

\* A CFG is allocated, the result of a processor applied to another.
NewCFG(m, done) ==
    LET c == Len(m.made) + 1
    IN  [m EXCEPT !.made = Append(@, done), !.cfgs = @ \union {c}, !.built = c]

\* A collection is allocated, and INVOLVED_CFGS set to it.
NewCollection(m, c) ==
    LET coll == [id |-> m.count + 1, cfg |-> c]
    IN  [m EXCEPT !.count = @ + 1, !.collections = @ \union {coll},
                  !.involved = coll]

Free(m, c) ==
    IF c \in m.cfgs THEN [m EXCEPT !.cfgs = @ \ {c}] ELSE Blame(m, "twice")

FreeCollection(m, coll) ==
    IF coll \in m.collections THEN [m EXCEPT !.collections = @ \ {coll}]
    ELSE Blame(m, "twice")

-----------------------------------------------------------------------------

\* CFGCollector: the entry is ENTRY_CFG, else the CFG found in the program.
Collect(m) ==
    LET e == IF m.entry # 0 THEN m.entry ELSE m.original
    IN  [NewCollection(IF e \in m.cfgs THEN m ELSE Blame(m, "freed"), e)
            EXCEPT !.entry = e]

\* The collection in use is read, and a processor makes a new graph of it.
Rebuild(p, m) ==
    NewCFG(ReadInvolved(m), History(m, m.involved.cfg) \union {p})

\* Some move ENTRY_CFG on to the new graph as they build it.
MoveEntry(m, new) ==
    IF m.entry = m.involved.cfg THEN [new EXCEPT !.entry = new.built] ELSE new

(* Faulty form of the next definition, for the runs that must notice it.   *)
Unroll_clearing(m) ==
    [MoveEntry(m, Rebuild("LoopUnroller", m)) EXCEPT !.involved = Null]

Unroll(m) == MoveEntry(m, Rebuild("LoopUnroller", m))

\* LoopReductor clears INVOLVED_CFGS as well.
Reduce(m) ==
    [MoveEntry(m, Rebuild("LoopReductor", m)) EXCEPT !.involved = Null]

\* SubCFGBuilder makes a new CFG of the entry.
CutOut(m) == NewCFG(ReadEntry(m), History(m, m.entry) \union {"SubCFGBuilder"})

\* processWorkSpace() of each processor.
WorkOf(p, m) ==
    CASE p = "CFGBuilder" ->
            [NewCFG(m, {}) EXCEPT !.original = Len(m.made) + 1]
      [] p = "CFGCollector" -> Collect(m)
      [] p \in {"Virtualizer", "DelayedBuilder"} -> Rebuild(p, m)
      [] p = "LoopUnroller" -> Unroll(m)
      [] p = "LoopReductor" -> Reduce(m)
      [] p = "SubCFGBuilder" -> CutOut(m)
      [] OTHER -> ReadInvolved(m)

(* Faulty form of the next definition, for the runs that must notice it.   *)
CleanUpOf_entry(p, m) ==
    CASE p \in {"Virtualizer", "LoopUnroller", "DelayedBuilder"} ->
            NewCollection(m, m.built)
      [] p = "CFGCollector" -> IF m.involved = Null THEN m ELSE ReadInvolved(m)
      [] OTHER -> m

\* cleanup() of each processor.
CleanUpOf(p, m) ==
    CASE p \in {"Virtualizer", "LoopUnroller", "DelayedBuilder"} ->
            [NewCollection(m, m.built) EXCEPT !.entry = m.built]
      [] p = "SubCFGBuilder" -> [m EXCEPT !.entry = m.built]
      [] p = "CFGCollector" -> IF m.involved = Null THEN m ELSE ReadInvolved(m)
      [] OTHER -> m

Cleaner(do, on) == <<[do |-> do, on |-> on]>>

(* Faulty form of the next definition, for the runs that must notice it.   *)
CleanersOf_tracked(p, m) ==
    CASE p = "CFGBuilder" -> [CFG_INFO |-> Cleaner("free_cfg", m.original)]
      [] p = "CFGCollector" ->
            [COLLECTED_CFG |-> Cleaner("free_collection", m.involved)]
      [] p = "Virtualizer" ->
            [COLLECTED_CFG |-> Cleaner("free_involved", 0),
             VIRTUALIZED_CFG |-> Cleaner("free_entry", 0)]
      [] p = "Dominance" -> [DOMINANCE |-> Cleaner("visit_involved", 0)]
      [] OTHER -> [none |-> <<>>]

(* Faulty form of the next definition, for the runs that must notice it.   *)
CleanersOf_both(p, m) ==
    CASE p \in {"CFGCollector", "DelayedBuilder"} ->
            [COLLECTED_CFG |-> Cleaner("free_collection", m.involved)
                               \o Cleaner("free_involved", 0)]
      [] p = "Virtualizer" -> [COLLECTED_CFG |-> Cleaner("free_involved", 0)]
      [] OTHER -> [none |-> <<>>]

\* The cleaners that each processor puts on its features.
CleanersOf(p, m) ==
    CASE p = "CFGBuilder" -> [CFG_INFO |-> Cleaner("free_cfg", m.original)]
      [] p = "CFGCollector" ->
            [COLLECTED_CFG |-> Cleaner("free_collection", m.involved)]
      [] p = "Dominance" -> [DOMINANCE |-> Cleaner("visit_involved", 0)]
      [] p = "Virtualizer" ->
            [COLLECTED_CFG |-> Cleaner("free_involved", 0),
             VIRTUALIZED_CFG |-> Cleaner("remove_entry", 0)]
      [] p = "DelayedBuilder" -> [COLLECTED_CFG |-> Cleaner("free_involved", 0)]
      [] p = "SubCFGBuilder" -> [VIRTUALIZED_CFG |-> Cleaner("free_entry", 0)]
      [] p = "ClpAnalysis" -> [CLP |-> Cleaner("visit_cfg", m.involved.cfg)]
      [] OTHER -> [none |-> <<>>]

\* What a cleaner does.
Clean(m, c) ==
    CASE c.do = "free_cfg" -> Free(m, c.on)
      [] c.do = "free_collection" -> FreeCollection(m, c.on)
      [] c.do = "free_involved" ->
            [IF m.involved = Null THEN m ELSE FreeCollection(m, m.involved)
                EXCEPT !.involved = Null]
      [] c.do = "remove_entry" -> [m EXCEPT !.entry = 0]
      [] c.do = "free_entry" ->
            [IF m.entry = 0 THEN m ELSE Free(m, m.entry) EXCEPT !.entry = 0]
      [] c.do = "visit_involved" -> ReadInvolved(m)
      [] c.do = "visit_cfg" -> IF c.on \in m.cfgs THEN m ELSE Blame(m, "freed")

\* The cleaners of a node are run in the order of their list.
Cleaned(m, list) ==
    LET Upto[i \in 0..Len(list)] ==
            IF i = 0 THEN m ELSE Clean(Upto[i - 1], list[i])
    IN  Upto[Len(list)]

-----------------------------------------------------------------------------

LifetimeInit ==
    /\ Init
    /\ memory = [involved |-> Null, entry |-> 0, original |-> 0, built |-> 0,
                 made |-> <<>>, cfgs |-> {}, count |-> 0, collections |-> {},
                 fault |-> "none"]
    /\ cleaners = [f \in Features |-> <<>>]
    /\ about = [f \in Features |-> 0]

Working ==
    /\ Work
    /\ memory' = WorkOf(Top.proc, memory)
    /\ UNCHANGED <<cleaners, about>>

\* CFGCollector does not find the task, and process() has it clean up; a
\* DelayedBuilder that finds a branch it does not support is not cleaned up.
Failing ==
    /\ Fail
    /\ \/ Top.proc = "CFGCollector" /\ memory.entry = 0
       \/ Top.proc = "DelayedBuilder"
    /\ memory' = IF Top.proc = "CFGCollector"
                 THEN CleanUpOf(Top.proc, memory) ELSE memory
    /\ UNCHANGED <<cleaners, about>>

CleaningUp ==
    /\ CleanUp
    /\ memory' = CleanUpOf(Top.proc, memory)
    /\ UNCHANGED <<cleaners, about>>

\* A result is about the graph its processor read, or the one it built.
Providing ==
    /\ ProvideNext
    /\ about' = [about EXCEPT ![Head(Top.todo)] =
                    IF Top.proc \in Transformers THEN memory.built
                    ELSE memory.involved.cfg]
    /\ UNCHANGED <<memory, cleaners>>

\* The latest cleaners come first.
Finishing ==
    /\ Finish
    /\ LET new == CleanersOf(Top.proc, memory)
       IN  cleaners' = [f \in Features |->
                IF f \in DOMAIN new THEN new[f] \o cleaners[f] ELSE cleaners[f]]
    /\ UNCHANGED <<memory, about>>

(* Faulty form of the next definition, for the runs that must notice it.   *)
Dropping_kept(g) ==
    /\ Drop(g)
    /\ memory' = Cleaned(memory, cleaners[g])
    /\ about' = [about EXCEPT ![g] = 0]
    /\ UNCHANGED cleaners

\* A node is deleted, which runs its cleaners in their order.
Dropping(g) ==
    /\ Drop(g)
    /\ memory' = Cleaned(memory, cleaners[g])
    /\ cleaners' = [cleaners EXCEPT ![g] = <<>>]
    /\ about' = [about EXCEPT ![g] = 0]

Proceeding ==
    \/ Working \/ Failing \/ CleaningUp \/ Providing \/ Finishing
    \/ \E g \in Features : Dropping(g)
    \/ /\ \/ InvalidateNext \/ StartRequiring \/ RequireNext \/ GiveUp \/ Check
          \/ Spread
          \/ \E f \in Features : CloseOne(f)
       /\ UNCHANGED lifetime

Asking ==
    /\ \/ \E p \in Started : Process(p)
       \/ \E f \in Asked : Require(f)
       \/ \E f \in Withdrawn : Withdraw(f)
       \/ Cancel \/ Close
    /\ UNCHANGED lifetime

LifetimeNext == memory.fault = "none" /\ (Asking \/ Proceeding)

LifetimeSpec == LifetimeInit /\ [][LifetimeNext]_<<vars, lifetime>>

-----------------------------------------------------------------------------

Requires(p) == ToSet(Declared(p, {"require"}))
Gives(p)    == ToSet(Declared(p, {"provide"}))
Takes(p)    == ToSet(Declared(p, {"invalidate"}))

\* Processors that put a new graph in the place of the one they read, and give
\* its collection to COLLECTED_CFG.
Builders == Transformers \ {"LoopReductor"}

\* Results of which every processor needs the graph.
OnGraph(P) == {f \in Analyses : \A p \in P :
                   f \in Gives(p) => "COLLECTED_CFG" \in Requires(p)}

\* What processors that share the graph declare, P being those that may run:
\* two of them make it and are run for it alone; others replace it, and take
\* the old one away; the rest reads it, and takes nothing away.
SharesGraph(P) ==
    /\ P \subseteq Processors \ {"LoopReductor", "SubCFGBuilder"}
    /\ Started \subseteq P \ {"CFGBuilder", "CFGCollector"}
    /\ \A f \in Features : f \in Asked \/ (\E p \in P : Uses(p, f)) =>
            Default[f] \in P \union {NoProcessor}
    /\ {"CFG_INFO", "COLLECTED_CFG", "VIRTUALIZED_CFG"} \subseteq Features
    /\ {"CFG_INFO", "VIRTUALIZED_CFG"} \cap Withdrawn = {}
    /\ \A p \in P :
        /\ "CFG_INFO" \in Gives(p) <=> p = "CFGBuilder"
        /\ "COLLECTED_CFG" \in Gives(p) <=> p \in Builders \union {"CFGCollector"}
        /\ "VIRTUALIZED_CFG" \in Gives(p) <=> p = "Virtualizer"
        /\ Analyses \cap Gives(p) # {} => p \notin Builders
        /\ \A f \in Gives(p) : Default[f] \in Transformers => Default[f] = p
        /\ Takes(p) = IF p \in Builders THEN {"COLLECTED_CFG"} ELSE {}
        /\ CASE p = "CFGBuilder" ->
                    Gives(p) = {"CFG_INFO"} /\ \A f \in Features : ~Uses(p, f)
             [] p = "CFGCollector" ->
                    /\ Gives(p) = {"COLLECTED_CFG"}
                    /\ "CFG_INFO" \in Requires(p)
                    /\ \A f \in Features : Uses(p, f) => f = "CFG_INFO"
             [] p \in Builders -> Uses(p, "COLLECTED_CFG")
             [] OTHER -> Requires(p) \cap (OnGraph(P) \union {"COLLECTED_CFG"}) # {}
        /\ p = "Dominance" => {"DOMINANCE"} \cap Features \subseteq Gives(p)
        /\ p = "ClpAnalysis" => {"CLP"} \cap Features \subseteq Gives(p)

-----------------------------------------------------------------------------

CFGs        == 1..Len(memory.made)
Collections == [id : 1..memory.count, cfg : CFGs]

\* Types of the two properties, of what is allocated and of the cleaners.
LifetimeTypeOK ==
    /\ TypeOK
    /\ memory.involved \in Collections \union {Null}
    /\ {memory.entry, memory.original, memory.built} \subseteq CFGs \union {0}
    /\ memory.made \in Seq(SUBSET Processors)
    /\ memory.cfgs \subseteq CFGs /\ memory.collections \subseteq Collections
    /\ memory.fault \in {"none", "assertion", "freed", "twice"}
    /\ \A f \in Features : (cleaners[f] # <<>> => f \in provided)
                            /\ about[f] \in CFGs \union {0}

\* The assertions of the code on the graph it is given: there is a collection
\* when a processor or a cleaner goes through the CFG of the task, and the CFG
\* to cut a part of is a virtual one.
AssertionsHold == memory.fault # "assertion"

\* No processor, clean-up or cleaner goes through a CFG or a collection that
\* the cleaner of another feature freed before, while the graph is rebuilt,
\* invalidated, or released with the workspace in any order.
NothingFreedRead == memory.fault # "freed"

\* Two cleaners never free the same object, although some free whatever a
\* property of the workspace holds when they run.
FreedOnce == memory.fault # "twice"

\* Nothing is under way, or a processor is about to read what it required.
Settled ==
    /\ (Idle /\ doomed = {}) \/ Ready("work")
    /\ "COLLECTED_CFG" \in provided

\* A result that the workspace provides is about the graph it provides: the
\* processors that replace the graph take away what was found on the old one.
ResultsCurrent ==
    Settled => \A f \in Analyses \cap provided : about[f] = memory.involved.cfg

\* A transformation that the workspace says was done was done on the graph it
\* provides, whatever transformations came before and after it.
TransformsKept ==
    Settled => \A f \in provided :
        Default[f] \in Transformers =>
            Default[f] \in History(memory, memory.involved.cfg)

\* The two properties agree: the collection in use is allocated, and the entry
\* is its first CFG unless it was removed.
EntryCollected ==
    Settled => /\ memory.involved \in memory.collections
               /\ memory.entry \in {0, memory.involved.cfg}
=============================================================================
