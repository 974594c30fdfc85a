# TLA+ models of the OTAWA WCET analyser

OTAWA (`src/otawa/otawa`) computes bounds of the execution time of a program.
Everything it finds is put as *properties* on a *workspace*; *processors* make
the properties; *features* say which properties are there. Most of its own logic
is sequential, but it is made of objects that outlive each other in orders nobody
wrote down, of fixpoints whose soundness is a statement about all executions of
the analysed program, and of caches that are described in two places (a simulator
and an abstract domain) which have to agree. These are the subjects of the
modules here.

Paths below are relative to `src/otawa/otawa/`, and `prog/` means `src/prog/`.
`PROJECT.json` has the definition-by-definition map to the source, the runs, the
faulty forms each property is known to notice, the hazards and the findings.


## 1. Inventory

| part | state it keeps | operations | interacts with | what makes it correct |
|---|---|---|---|---|
| **workspace features** `prog/prog_WorkSpace.cpp`, `proc_Feature.cpp` | `featMap`: one `FeatureDependency` per provided feature with lists of dependents and of requirements; a cancellation flag | `provide`, `invalidate`, `require`, `cancel`, destructor | processors call it, cleaners run when a node is deleted | a result never outlives what it was computed from; the recursive invalidation follows no freed node and frees each once |
| **processors** `prog/proc_Processor.cpp`, `proc_Registry.cpp` | the local list `required` of each `process()` in progress; registrations | `process` with its phases, nested through `require` | the feature map, the registrations of every analysis | whatever is asked is there afterwards, or an exception says it is not; the order of declarations works from every state |
| **life of the control-flow graph** `prog/cfg_*.cpp` | `INVOLVED_CFGS`, `ENTRY_CFG`, the CFG they point to, the cleaners on features | build, collect, virtualise, unroll, delay, reduce, cut out | replaces the object that all other analyses hook their results on | nothing freed is read, nothing is freed twice, results are about the graph that is provided |
| **cache simulators** `prog/sim_AbstractCacheDriver.cpp` | the tags of all sets in one array, FIFO counters | `access` | simulators of blocks; the reference for the abstract domains | each set follows its replacement policy |
| **cache abstract domains** `include/otawa/cache/cat2/*.h` | ages of cache blocks: MUST, MAY, a stack of PERS levels | `inject`, `lub`, `enterContext`, `leaveContext` | driven by the fixpoint engine, read by the category builders | the ages bound those in a real LRU set on every execution |
| **half abstract interpretation** `include/otawa/dfa/hai/` | work list, call stack, marks `FIXED`/`FIRST_ITER`, states on edges, kept on the graph | `solve` with two handlers of loops | runs a domain over the CFGs, reads the loop information | each block is computed from all the states that reach it, a loop is left when it is stable, it ends, and it leaves nothing for the next run |
| **cache analyses, categories and constraints** `prog/cache_*.cpp` | states and categories as properties | build, categorise, add ILP constraints | engine, domains, IPET | `ALWAYS_HIT` hits, `ALWAYS_MISS` misses, `FIRST_MISS` misses once per entry |
| **dominance, loop information** `prog/cfg_Dominance.cpp`, `util_PostDominance.cpp`, `cfg_LoopInfoBuilder.cpp` | marks on blocks and edges | compute, clean | engine, unroller, IPET | dominators, headers, enclosing loops and exits are those of the paths, also when they are computed again |
| IPET, ILP systems `prog/ipet_*.cpp`, `ilp_*.cpp` | variables and constraints | build, solve (lp_solve) | categories, flow facts | the counts of every execution satisfy the constraints |
| flow facts and contexts `prog/util_FlowFactLoader.cpp`, `prop_ContextualProperty.cpp` | bounds per context | load, look up | IPET, unroller | the bound of the most specific context |
| **iterative data-flow analyses** `include/otawa/dfa/IterativeDFA.h`, `prog/dfa_*.cpp` | bit sets, work list | iterate | dominance, loops, stack and variable analyses | best fixpoint |
| execution graphs and block times `prog/exegraph_*.cpp`, `parexegraph_*.cpp` | graphs of pipeline stages | build, solve, add times to blocks | hardware description, IPET | the time of a block is not exceeded by any execution of it |
| address and stack analyses `prog/clp_*.cpp`, `util_StackAnalysis.cpp` | abstract values of registers and memory | join, widen, filter, update | engine, data caches | the values of every execution are in the abstract value |
| data caches `src/dcache` | states and categories per access | as for instruction caches, with ranges of addresses | address analysis, domains | as for instruction caches |
| branch prediction `src/bpred`, `src/branch` | history graphs, states of predictors | build, categorise, add constraints | CFG, IPET | every sequence of predictions is allowed by the constraints |
| older cache plugins `src/cat`, `src/ccg`, `src/ets` | conflict graphs, syntax trees | earlier forms of the analyses above | | |
| hardware description `prog/hardware_*.cpp` | caches, memories, pipelines | load, query | simulators, cache analyses | the set of an address is that of the real cache |
| properties `prog/prop_*.cpp` | lists of typed pairs on every object | add, find, remove | everything | the latest value is found, a removed one is freed once |
| programs, loaders, instruction sets `prog/prog_*.cpp`, plugins | decoded instructions | load, decode | CFG builder | |
| simulators of blocks `prog/sim_*.cpp` | none of their own | drive a simulator along a path | cache simulators | |
| command line tools `src/owcet`, ... | none of their own | ask processors in a sequence | workspace | any sequence of requests is safe |
| ELM `src/otawa/elm` | lists, vectors, hash tables, cleaners | containers | everything | the order of its lists is part of the models that depend on it |

Of these, the rows in bold are modelled, in whole or in part; `PROJECT.json` ("components") says of each
other why it is not, or when it will be.

What is hard here:

* *Order.* An invalidation is a recursion over a graph while it is destroyed; the
  destructor of the workspace follows the order of a hash table; requirements are
  satisfied in the order of their declaration, and the processor run for one may
  take another away.
* *Stale state.* Cleaners read the properties of the workspace when they run, not
  when they were registered; invalidation copies pointers before it recurses.
* *Failure and cancellation.* An exception leaves a nest of runs with features
  already taken away; another thread may ask to stop at any point.
* *Statements about all executions.* An age in MUST, MAY or PERS is right or wrong
  for all paths that meet at a point, from any initial contents of the cache.

* *Work lists.* What is computed again, and when, depends on bits that are cleared and
  set by hand, and on states that several nested fixpoints share.

There is one thread, apart from the one that may cancel; nothing is persistent,
so there is no crash recovery, and no messages.


## 2. The modules

    CacheSet ── CacheDriver ── MCCacheDriver           Dependents ── Features (abstract)
        │                                                  │            ▲        ▲
        └─ CacheDomains ─┬─ MUSTPERS ── MCMUSTPERS         ├─ WorkSpace ┘        │
                         ├─ MAY ── MCMAY                   └─ Processor ─────────┘
                         └─ InstCache ── Reducible ─┐           └─ CFGLifetime
             HalfAbsInt ──────┘        MCInstCache ─┤   Registrations ─ MCProcessor, MCCFGLifetime
                                                    │
             IterativeDFA ── LoopInfo ─┐   Loops (abstract)
                                       └─ MCLoopInfo┘

with `CacheSet_proofs`, `CacheDriver_proofs`, `MUSTPERS_proofs`, `MAY_proofs` and `WorkSpace_proofs`
beside what they prove about; `CacheSet_proofs` has the lemmas on CacheDomains too, `LoopInfo_proofs` is about IterativeDFA and
LoopInfo, `InstCache_proofs` about HalfAbsInt and InstCache, `Processor_proofs` about Processor and
CFGLifetime. A definition named `X_something` under the comment
"Faulty form of the next definition" is a plausible bug, there to show that a
property notices it; no specification uses one.

### Caches

**CacheSet** is one set: the array of `A` tags and the loop of
`AbstractCacheDriver::access()`, `touch()` and `replace()` of
`LRUCacheDriver`. **CacheDriver** is the whole driver. `policy` is the
`replacementPolicy()` by which `lookup()` picks a class; `lines`, `counters` are
the fields; `hit` is the value that `access()` returned. Actions `Hit`, `MissLRU`,
`MissFIFO` are the paths through `access()`. The tags are never initialised, so
`Init` takes any. `ReplaceNum` is the number that `access()` hands to `replace()`:
the number of ways, where the number of the set is expected. `recent` is a history
variable.

**CacheDomains** has the operations of the domains as operators: `MustLub`,
`MustInject`, `MayLub`, `MayInject`, `ItemInject`, `PersLub`, `PersEnter`... The
loops of `inject()` update the ages in place and in the order of the block
numbers; for MAY that order matters (the age of the accessed block changes on the
way, `MayLimit`), and the model has it. `PersLub` joins two stacks of PERS levels from the innermost level out. The
result is as deep as the left operand: outer levels of the right one are dropped, and those that only the left one
has stay as they are, because `data.remove(0)` looks for a null pointer and removes nothing (section 4).

**MUSTPERS** and **MAY** pair the domains with reality. Each *path* is an
execution: a real LRU set (`line`), and the abstract state the analysis has there.
`Inject` is an access: both change. `Join` is a point where two paths meet: both
go on with the join of their states, each with its own set. `EnterLoop` and
`LeaveLoop` are `enterContext()` and `leaveContext()`. So a soundness property
is an invariant, and it is about any number of executions, in any order of
accesses and joins. `seen` is history: the blocks accessed since each level was entered, for the inner levels that all the states
joined so far had. For MUST and PERS the set may hold anything at the start; for MAY
`ColdAssumption` says that it holds no block of the program, since the entry state of
the code says so (`prog/cache_MAYProblem.cpp:36` calls that wrong itself).

Blocks of other sets do not matter, since an analysis works on one set at a time
(`LBlockSet`). How a CFG orders accesses and joins is the engine's part (HalfAbsInt): these modules
allow every order, more than the engine makes.

### Graphs, dominance and loops

**IterativeDFA** is `IterativeDFA::compute()` for any problem: a merge ("all" for the
intersection, "any" for the union), what each block generates and kills, and from which
blocks it takes results. `todo` is the queue, `present` the bit vector that says what is in
it. One turn of the loop is `Keep` or `Change`, as the result of the block is the
recorded one or not; blocks are put back in any order of the edges (`Orders`).

**Loops** says, of the paths of a graph, what the features promise: dominators are on all
paths from the entry, the loop of a header is what reaches its back edges without it, an
exit edge belongs to the outermost loop it leaves. It is the abstract side of **LoopInfo**, which
runs the engine three times as the code does (`DominanceProblem`, `PostDominanceProblem`, `LoopProblem`)
and keeps the properties left on the graph: `REVERSE_DOM`, `REVERSE_POSTDOM`,
`LOOP_HEADER`, `BACK_EDGE`, `ENCLOSING_LOOP_HEADER`, `LOOP_EXIT_EDGE`, `EXIT_LIST`. The headers are sorted by
`SortedSLList::add` (`Insert`), with a comparison that orders only headers of which one
dominates the other. `BuildAgain` is the invalidation of the features while the graph
stays, and the next request: what the cleaner removes and what it forgets, then all
again. `builds` counts, up to `MaxBuilds`. CALL edges are left out: every loop of this code skips them.
`ScanAssumption` is what `CFG::scan` (`prog/CFG.cpp:428`) makes of any program: the blocks are found by following the edges from the
entry, to which no edge leads. The exit may be out of reach, when the function does not return.

### The analysis of the instruction cache

**HalfAbsInt** is the engine, over a problem that is a parameter (`Lub`, `Update`, `EnterLoop`...).
A turn of the loop of `solve()` is two steps, `...Input` and `...Output`, one action for each branch
of `inputProcessing()` and `outputProcessing()`. `mark` is the property `STATE` of edges and
entries, `first` and `fixed` are `FIRST_ITER` and `FIXED`, `fpstate` is `FIXPOINT_STATE`. All these are
on the graph, not in the engine, so `HaiInit` starts from what an earlier run leaves (`FIXED` set or
not, nothing else: `ReadyForNext`). `unrolling` chooses between `DefaultFixPoint` and
`FirstUnrollingFixPoint`, whose assertions are `HeaderOK` and the argument of `EndTurn`; a failed one ends
the model in phase "failed". CFGs are `prog`, a record of `Loops!Program`: the engine runs
on what LOOP_INFO_FEATURE promises, and the run `loops` shows that LoopInfoBuilder keeps the
promise. The iterations that FirstUnrollingFixPoint counts are capped at two, which is all it
tells apart. `Union` joins the marks of a set of edges in some order (`CHOOSE`). The code takes them in the order of the
lists of edges, which the builder of the CFG decides; it matters only where the depths of the states differ. Nothing else in these modules has a bound, but for the run of the program.

**InstCache** gives the engine the domain of `MUSTPERS`, one cache set at a time as `ACSBuilder` does,
and then runs the program: `StartRun` chooses `FIRSTMISS_LEVEL`, and `Run`, `Call` and `Return` follow any
path, with the accesses made to a real LRU set, from a set full of foreign blocks. `entered` and
`misses` are the values the run gives to the variables of the ILP system: how often each
loop was entered, and how often the first l-block of each block missed. `AlwaysHit`, `FirstMiss` and
`CategoryHeader` are the categories of `CAT2Builder`, `Linked` the groups of `LinkedBlocksDetector`,
`LinkedConstraint` the constraint that `CAT2OnlyConstraintBuilder` builds for them. Blocks have a list of
l-blocks (cache blocks) in the set, of which `update` injects the last (`LastOf`).

**Reducible** says which programs the theorems on the two are about: `Structured(p)` is one CFG without calls, reducible, with the loops
and the exit edges that LOOP_INFO_FEATURE promises; `OneLevel(p)`, that no edge leaves two loops at once;
`EnclosingRight(p)`, that each block has the innermost loop around as its `ENCLOSING_LOOP_HEADER`; `ListsOfBlocks` and
`OnePerBlock` are codes. MCInstCache has TLC evaluate them on the instances: `CallFreeAreStructured` on the six programs
of `icache` without calls, `SeveralAreStructured` on the four with an edge that leaves two loops (not `OneLevel`), `CodesAreLists`, `AnyContents` and `KnownLevels` on all codes, contents and levels of first miss.

### Features and processors

**Features** is the abstract specification: `provided`, and `needs`, what each
provided feature was computed from. A feature is provided; or a feature goes
together with everything computed from it, and nothing else. It is one step.

**WorkSpace** is what the code does. `featMap`, `children` (the list of dependents
*in its order*, `SLList::add` puts new ones in front), `parents`. `stack` has one
entry per call of `invalidate()` in progress, with the rest of its copied list
`to_inv`. `Invalidate` starts a call; `Descend` is one turn of its loop, the read of
one copied pointer; `Delete` is the end of a call: the node leaves the map and its
destructor takes it out of the lists it is in. `Close` and `CloseOne` are
`~WorkSpace()`. `born` and `clock` are history. `Provide` has the preconditions its
only caller gives it: requirements that are provided and listed once
(`prog/proc_Processor.cpp:431`, and the assertions of `provide()`). Two features with
the same node cannot be, so a node is named by its feature.

**Registrations** has, processor by processor, what the repository declares, in the
order in which a `FeatureIter` gives it: usages of the processor before those of its
base, and the older forms reversed. **Processor** is `process()`. `calls` are its runs
in progress, with the phase each is in (`at`), what is left of the list it is going
through (`todo`) and its local `required`. The workspace is that of Features, with
one difference: an invalidation takes several steps (`doomed`: what it has reached and
not yet deleted), because the cleaners of each deleted feature matter in the next
module. `Process`, `Require`, `Withdraw` and `Close` are what a tool may ask; `Cancel` may
come from another thread whenever something runs; `Fail` is an exception of
`processWorkSpace()`. `asked` is history. Features outside the constant `Features`
(`DECODED_TEXT`, `INITIAL_STATE`, `CACHE_CONFIGURATION`) are held to be provided.

No two processors of the repository require each other; if they did, `process()` would
recurse without end before it reached its check for a "circular" dependency.
`RequestsEnd` would show it.

`InOrder` says when declarations are in an order that works, with a table of what a request for each feature may take away:
no processor's later requirement may take away an earlier one. `MCProcessor` gives the table for `Registrations`
(`Undone`), and TLC evaluates that it is one. The list of a `FeatureIter` is cut with `Kept`, a recursive function.

### The graph

**CFGLifetime** composes Processor with the two properties through which graphs are
passed. `memory.involved` is `INVOLVED_CFGS`, `memory.entry` is `ENTRY_CFG`;
`memory.cfgs` and `memory.collections` are what is allocated and not freed; `made` says
what was done to each CFG. `cleaners` are those put on each feature, in the order they
will run. The actions are those of Processor joined with what each processor does in
its `processWorkSpace()` (`WorkOf`), in its `cleanup()` (`CleanUpOf`), with the cleaners
it registers (`CleanersOf`), and with what these do when a node is deleted (`Clean`, run
by `Dropping`). `about` is history: the CFG that each provided feature was computed
from.

A use of something freed or missing is recorded in `memory.fault` and ends the model,
since nothing is known of what the program does next. A collection is named with its
first CFG, the only one the properties tell apart: a task of one function. How blocks
and edges are built inside a CFG is left out. `DelayedBuilder` may also throw without a
clean-up, because what it throws is not a `ProcessorException`. `SharesGraph` says what processors that share the graph have to
declare for the theorems of section 5; `MCCFGLifetime` has TLC evaluate it on those of `lifetime_chain` (`ChainShares`).


## 3. What TLC checks

| run | instance | what it shows |
|---|---|---|
| `driver_access` | LRU and FIFO, 3 ways, 4 tags, 2 of 4 sets, any initial tags | `LRURecency`: the front of a set is its most recently used tags, latest first, whatever the uninitialised ways held. `HitIffRecent`: `access()` answers accordingly. `NoNewCopy`: no access adds a second copy of a tag to a set |
| `driver_fifo` | FIFO, 2 ways | violation: a set evicts the tag it loaded last (finding 1) |
| `mustpers` | 2 paths, 2 blocks and a foreign tag, 2 ways, a set full of foreign blocks or of one block, loops of depth 2 | `MustSound`: a block that MUST holds is in the set, no older than MUST says. `WholeSound`: so for the whole-program level of PERS, for blocks accessed before and not wiped. `PersNested`: the level of the program never has a smaller age than another, nor an outer level than an inner one; by this a category builder may stop climbing. `PersKeepsSeen`: no level loses a block accessed since it was entered. Both at any depths of the stacks that are joined, of the levels that all had |
| `may_two` | 2 paths, 3 blocks, 2 ways, cold | `MayContains`: a block out of MAY is not in the cache |
| `may_four` | 1 path, 5 blocks, 4 ways, cold | violation: a block in the cache and out of MAY (finding 2) |
| `workspace` | all dependency graphs of 4 features, 5 provisions | `NoDanglingRead`, `DeletedAlone`, `NoneOutlivesItsBase`, `AllReleased`; `InvalidateEnds`; `KeepsPromise`: WorkSpace implements Features |
| `processor` | 11 processors, 12 features, 3 requests | `NotCircular`, `RequiredHold`, `RequestsDeliver`, `RequestsEnd`; `KeepsPromise`: what nested runs do to the workspace, Features allows |
| `lifetime_chain` | 4 processors by name, 6 features asked, 4 requests | virtualisation, unrolling and delayed branches in any order with analyses between: `AssertionsHold`, `NothingFreedRead`, `FreedOnce`, `ResultsCurrent`, `TransformsKept`, `EntryCollected` |
| `lifetime_reductor` | 3 requests | violation (finding 3) |
| `loops` | every graph of 3 blocks after the entry with one or two successors each, with or without a way to the exit, features built twice | `DominanceRight`, `LoopsRight`: what the three analyses leave on the graph is what Loops says of its paths. `QueueMatches`: bit vector and queue agree, so that no block is lost or queued twice. `AnalysesEnd` |
| `icache` | 9 programs of at most 8 blocks (below), every placing of at most 3 cache blocks, 2 ways, both handlers of loops, 3 levels of first miss | the engine: `AssertionsHold`, `ExitsWait` (what follows a loop waits for its fixpoint), `ReadyForNext` (every block interpreted, nothing left behind), `LevelsMatch` (one level of PERS per loop around the block), `AnalysisEnds`. Its results: `HitSound`, `FirstMissSound` (misses of first-miss l-blocks are bounded by the entries of their loop) on every path |
| `linked` | one loop with a choice | violation (finding 4) |

**Bounds.** Two paths are enough for a join to be of different states; more than two joins
happen one after another on the same two. Depth 2 lets stacks of depth 0, 1 and 2 be
joined, each on either side, and an inner loop be entered again. Of the initial contents, what tells two apart is whether a block of the
program is there before its first access; the proofs take any. In `mustpers` the two blocks never evict each
other, only the foreign tags; three blocks that evict each other in two ways are in
`icache`, and any number is proved (section 5). The driver has one more tag than ways.
Graphs of three inner blocks have nested loops, loops with two back edges, two exits, one block, and two
entries (not reducible); with four blocks the run passes too, with half a
million states. The programs of `icache` are: a block that loops; a
choice in a loop; two choices in a loop; a loop in a loop, with and without a way around the inner one; a loop
left by two edges to one block; a function with a loop, called once; a function called in a loop; a call through
a pointer to two functions. Cache blocks are numbered by first use, since MUST and PERS treat all
alike, and a loop is entered at most twice by a run (`MaxEntries`): the second entry is what tells one
miss per entry from one miss per run. Four features are the smallest graph where a feature is reached directly and
along two ways, and five provisions let one be provided again after an
invalidation. Three requests are one to build, one to change, one to use; the chain
of transformations has four, so that two transformations can be followed by an
analysis and another transformation, with the deletion of the workspace at any
point (deletion is not a request). `Withdrawn` of the chain is `COLLECTED_CFG`
alone: no tool invalidates `CFG_INFO_FEATURE`, and a request that did
would leave `ENTRY_CFG` pointing to a freed CFG (`prog/cfg_CFGCollector.cpp:146` sets it
without a cleaner).

`CHECK_DEADLOCK FALSE` is in the runs where the workspace may be deleted, after
which nothing happens, where processors stop when their features are built, and where the analysed program
ends.

**Fairness.** `invalidate()` and the destructor run in the thread that called them and
wait for nothing, so WorkSpace has weak fairness of their steps; likewise `process()`
goes on until it returns or throws, so Processor has `WF_vars(Run)`. Nothing is assumed
of tools, of cancellation or of the deletion of the workspace. CFGLifetime has only
safety properties, and no fairness. The engines are loops of one thread: weak fairness of their steps
(`WF_vars(Analyse)`), and of each processor of LoopInfo until it returns. How far the analysed program
runs, and whether features are asked for again, is left open.


## 4. Findings

1. `prog/sim_AbstractCacheDriver.cpp:102`: `access()` hands the number of ways to
   `replace()` as the number of the set. All sets of a FIFO cache advance one counter,
   and a set may evict the tag it has just loaded. With more ways than sets the counter
   is past the array.
2. `include/otawa/cache/cat2/MAYProblem.h:131`: the loop increments the age it
   compares with. Blocks after the accessed one age once too often, and with three or
   more ways may leave MAY while in the cache. With one or two ways it is harmless
   (proved).
3. `prog/cfg_LoopReductor.cpp:113` clears `INVOLVED_CFGS` in its work; the features
   computed from the collection are deleted after that, and the cleaner of
   `DOMINANCE_FEATURE` asserts that there is a collection.
4. `prog/cache_CAT2ConstraintBuilder.cpp:344` builds the constraint of a group of linked
   l-blocks while it processes the last of them, whose `MISS_VAR` is only set at the end of the
   turn (line 379). The null variable counts as the constant 1 (`lp_solve5/lp_solve5.cpp:498`), so that
   the others may miss once less than they do, and the last one is not bounded: the run is an execution that
   the system forbids.

Known and not among the runs:

* `include/otawa/cache/cat2/PERSProblem.h:247`: the comment on `lub()` (line 224) says that of two stacks the outer levels that only one has are discarded. For a left
  stack that is deeper the code calls `data.remove(0)`, which is `Vector::remove(const T& value)` (`elm/genstruct/Vector.h:112`;
  removal by position is `removeAt`), finds no null pointer and removes nothing. These levels stay, un-joined: they
  do not hold what the other path accessed, and an outer level may lack a block that an inner one has (`[{}, {}]` joined with `[{b:0}]` gives
  `[{}, {b:0}]`). `PersLub` does the same. So `PersNested` and `PersKeepsSeen` leave these levels out: checked on all the levels of
  the stacks, TLC finds `PersNested` violated.
* `include/otawa/cache/cat2/MAYProblem.h:131`: in the loop of finding 2 there is no test that takes a block out of MAY at age `A`, and
  with the limit changed on the way a block of age `A - 1` gets to `A`, where line 180 says that ages go to `A - 1`. The other branch takes out what is at
  `A` exactly after its increment (line 139), so such a block stays in MAY for good. This is imprecise and not unsound: a miss is not
  classified as one. Two accesses to one block are enough.
* `prog/cfg_SubCFGBuilder.cpp:343` frees its CFG with `VIRTUALIZED_CFG_FEATURE`, on which
  the collection that holds it does not depend: when the workspace is deleted, a
  cleaner may visit the freed CFG. `lifetime_chain` shows it (`NothingFreedRead`) with
  `SubCFGBuilder` among the processors run by name.
* `prog/cfg_LoopReductor.cpp:62` provides `LOOP_HEADERS_FEATURE` when
  `COLLECTED_CFG_FEATURE` has left its requirements, so the feature survives the graph it
  is about (`ResultsCurrent`, with `LoopReductor` and `Virtualizer`).
* `HalfAbsInt.h:275`: an edge that leaves two nested loops leaves one context. The stack of PERS is then too deep
  after the loops, where `prog/cache_MUSTPERS.cpp:75` says that it has one item per loop around
  the block: with such a program `LevelsMatch` and `FirstMissSound` fail. `AssertionsHold` is right there (proved, and
  TLC finds it so with `Programs <- SeveralAtOnce`).
* `HalfAbsInt.h:275` with `PERSProblem.h:246`: when the two loops are in a third one, and the deeper state is the left operand of the join after them,
  `FirstUnrollingFixPoint` gives the header of the third loop a stack one level deeper at each iteration. The states of two iterations
  then never are equal, and `solve()` need not end. With `Programs <- DeeperEachTime` the states have no end.
* `HalfAbsInt.h:322`: nothing is recorded for blocks with CALL edges and for exits of called CFGs. Their
  result stays bottom, and their l-blocks are taken for `ALWAYS_HIT`: with an l-block there `HitSound` fails.
  (Virtualized graphs have no such blocks.)
* `HalfAbsInt.h:174`: a loop header with CALL edges loses the states of the edges that enter the loop and is never
  ready again; `HalfAbsInt.h:493`: nor is any block of a loop with two entries. The run ends in silence
  (`ReadyForNext` fails).
* `prog/cache_CAT2ConstraintBuilder.cpp:334`: in a function called from a loop, the category may belong
  to a loop around the call, and its header is null: with an l-block there, `FirstMissSound` fails.
* `prog/cache_MUSTPERS.cpp:116`: of several l-blocks of one block in one set, only the last is injected.
* `prog/cfg_Dominance.cpp:45` removes `BACK_EDGE` from blocks, where it is on edges, and
  `prog/cfg_LoopInfoBuilder.cpp:282` adds to lists that it never clears. On a graph that stays the same, `loops`
  shows that dominance, headers, enclosing loops and exit edges are right when they are built again; an edge is then twice
  on its list, and the engine would leave its loop twice.

So the programs of `icache` leave loops one at a time, are reducible, have no calls in loop headers, and fetch
nothing in blocks that call or in functions called from a loop (`Fetching`): what the analyses claim is
checked where it can be true.

`LoopReductor` and `SubCFGBuilder` are therefore not among the processors of
`lifetime_chain`, nor is `CFGCollector` run by name over a graph that `Virtualizer` made:
the cleaner of Virtualizer (`prog/cfg_Virtualizer.cpp:408`) frees whatever `INVOLVED_CFGS` holds
when it runs, which would then be the collection of `CFGCollector`, freed a second
time. To see it, check `FreedOnce` with
`Started = {"CFGCollector", "Virtualizer"}`.

The pages of `LoopReductor` (`prog/cfg_LoopReductor.cpp:48`) and `SubCFGBuilder`
(`prog/cfg_SubCFGBuilder.cpp:141`) list `COLLECTED_CFG_FEATURE` as provided; they declare that
they invalidate it. The registrations here are those of the code.

`prog/cfg_LoopInfoBuilder.cpp:83-86` gives an empty gen set to every loop header. In the code (`:192`) a header that is the source of a back edge to another header has
that one in its set. The model has the sets of the code.

`PERSProblem::Item::inject()` ages a level from its own ages, where `prog/cache_MUSTPERS.cpp:64-66`
describes an ageing by the ages of MUST: after a loop is entered, an access to a block
that MUST holds from before ages nothing in the level. `WholeSound` is thus stated
for the whole-program level, where every access was seen; at the level of a loop only
`PersKeepsSeen` and `PersNested` are claimed, of the levels that all the joined states had. That first misses are right nevertheless, in a whole analysis, is `FirstMissesAreSound` (section 5).


## 5. What is proved

With TLAPS, for any number of ways, blocks, paths, features, processors and any nesting:

| theorem | statement |
|---|---|
| `MUSTPERS_proofs!TypeCorrect` | `Spec => []TypeOK` |
| `MUSTPERS_proofs!MustSoundness` | `Spec => []MustSound` |
| `MUSTPERS_proofs!WholeSoundness` | `Spec => []WholeSound` |
| `MUSTPERS_proofs!PersNesting`, `PersMemory` | `Spec => []PersNested`, `[]PersKeepsSeen` |
| `MAY_proofs!MayContainsTwoWays` | `A <= 2` gives `Spec => []MayContains` |
| `WorkSpace_proofs!TypeCorrect`, `CopiedPointersLive`, `AssertionsHold`, `BasesPresent`, `DestructorEmpties` | the five invariants of `workspace` |
| `WorkSpace_proofs!ImplementsFeatures` | `Spec => KeepsPromise` |
| `LoopInfo_proofs!LoopInvariant`, `QueueOnce` | `DFASpec => []IInv`, `[]QueueMatches` |
| `LoopInfo_proofs!EndsWithBest` | `DFASpec => []BestSolution` |
| `LoopInfo_proofs!LoopQueueOnce`, `DominanceIsRight`, `LoopsAreRight` | `LoopSpec => []QueueMatches`, `[]DominanceRight`, `[]LoopsRight` |
| `InstCache_proofs!LoopsFirst`, `AllInterpreted` | structured programs give `Spec => []ExitsWait`, `[]ReadyForNext` |
| `InstCache_proofs!AssertionsNeverFail` | structured programs give `Spec => []AssertionsHold` |
| `InstCache_proofs!LevelsAreRight` | structured programs, of one level, give `Spec => []LevelsMatch` |
| `InstCache_proofs!HitsAreSound` | structured programs, one l-block per block, give `Spec => []HitSound` |
| `InstCache_proofs!FirstMissesAreSound` | structured programs, of one level, one l-block per block, give `Spec => []FirstMissSound` |
| `CacheDriver_proofs!NoAccessDuplicates` | `Spec => NoNewCopy` |
| `CacheDriver_proofs!RecencyInvariant`, `FrontIsRecent`, `HitsAreRecent` | `Spec => []RecencyInv`, `[]LRURecency`, `HitIffRecent` |
| `Processor_proofs!TypeCorrect`, `Invariance` | `Spec => []TypeOK`, `[]IInv` |
| `Processor_proofs!ProvideAssertions`, `RequestsAreServed` | `Spec => []RequiredHold`, `[]RequestsDeliver` |
| `Processor_proofs!NeverCircular` | `InOrder(undone)` gives `Spec => []NotCircular` |
| `Processor_proofs!ImplementsFeatures` | `Spec => KeepsPromise` |
| `Processor_proofs!GraphInvariance` | `SharesGraph(P)` gives `LifetimeSpec => []LInv(P)` |
| `Processor_proofs!LifetimeTypes`, `GraphIsThere`, `FreedIsNotRead`, `FreedAtMostOnce`, `ResultsAreCurrent`, `TransformsAreKept`, `EntryIsCollected` | `SharesGraph(P)` gives the seven invariants of `lifetime_chain` |

*Assumptions.* Those named in the modules: a positive number of ways and of blocks, the
blocks are tags, the initial contents are lines (for MAY without blocks), the bounds are
natural numbers; the graphs are those of `CFG::scan`. Of the processors, `UsageAssumption` says what a list of usages and a default
processor are, and `DeclarationAssumption` two things of their contents: the default processor of a feature provides it, and a processor that
takes away something it used takes away all it required (`Virtualizer`, `LoopUnroller`, `DelayedBuilder`... do). `NeverCircular` is about
declarations that are `InOrder`. The theorems on CFGLifetime are about declarations of which `SharesGraph(P)` holds, where P are the processors
that may run: CFGBuilder and CFGCollector are only run for what they provide; a processor that makes a new graph takes away
`COLLECTED_CFG_FEATURE` and nothing else, and provides no analysis; a processor that only reads the graph takes nothing away, and requires
the collection or a result on it; no tool takes `CFG_INFO_FEATURE` or `VIRTUALIZED_CFG_FEATURE` away. `LoopReductor` and `SubCFGBuilder`
do not declare this, and do not keep the properties (section 4). The theorems on InstCache are about programs that are `Structured`: any size, any nesting of loops, any
number of exits, also edges that leave several loops at once (`LevelsAreRight` and `FirstMissesAreSound` excepted, because `leaveContext()` is called
once for such an edge, section 4). For such programs the theorems speak of what the engine has done whenever it gets there, and not of its ending,
which is denied there. They are about one CFG without calls, because of what `HalfAbsInt.h:174` and `:322` do
to blocks that call. `HitsAreSound` and `FirstMissesAreSound` are about codes with one l-block at most per block and set, since `cache_MUSTPERS.cpp:116` injects the last
of several only; what the set holds when the program starts is free. `FirstMissesAreSound` also uses `EnclosingRight`, that `ENCLOSING_LOOP_HEADER` is the
innermost loop around, which `LoopsAreRight` proves of LoopInfoBuilder, and that `FIRSTMISS_LEVEL` is one of its three values. TLC evaluates all of these assumptions on the registrations of the repository. None restricts the size of an
instance.

*Caches.* `CacheSet_proofs` has the types of the operations of the domains, and the facts on one real set: an access puts its tag in front
(`AccessFront`), moves another by at most one way, and leaves it within the same ways if
the accessed tag was not behind them (`AccessKeeps`). `MustSound` is then inductive with the types: the accessed
block is at age 0; a block that MUST does not age is younger than the accessed
one, or MUST says it is older, in which case a move stays within the bound. At a join
the older bound is kept. `WholeSound` is not inductive by itself, because MUST decides what PERS ages:
when MUST holds the accessed block, only younger blocks of the level age, which is
right if the level bounds the age of that block. Hence `MustSeen`: a block in MUST was
accessed before, since the entry state is empty. (A level of a loop starts later, and
has no such invariant.)
`PersNested` and `PersKeepsSeen` go level by level, counted from the innermost as `PersLub` matches them. The join of two levels keeps every block that
either has, and of the levels in `seen` each has its counterpart in the other operand (`KeptLub`, `NestedLub`). Above them the left operand may keep levels
that only it has; these give no block a greater age than the level of the program, since that one is joined at any depth.

*Cache drivers.* `NoNewCopy` says that one access makes no tag more frequent than it was, unless it is there once. The ways
that hold a tag after the access are mapped injectively to ways that held it before (`CopiesFrom`): `touch()` and
`replace()` only move tags, and the one that is loaded was in no way. The array may start with any tags, several times the
same, and the counter of FIFO may point anywhere: the proof needs no more than `lines \in [Used -> Lines]`.
`RecencyInv` adds that the history of a set has at most `A` tags, each once, and that the array starts with them (`InFront`); an
access then moves the tag to the front of both (`AccessInFront`), since the position where `lookup()` finds a tag of the history is its
position there, whatever stands behind. So a hit may also be on a tag that was in the uninitialised array, but only while the
history is shorter than the set (`HitsAreRecent`).

*MAY with two ways.* The invariant adds `NotFront` to `MayContains`: a block whose age in
MAY is 1 or more is not in the front way. What the faulty limit of `inject()` ages too
much is then never a block that is still young enough to be missed.

*WorkSpace.* The five properties are far from inductive: the pointers copied by an
outer call stay valid only because of *what else* holds. `IInv` is the conjunction of
the types and
`Graph` (features without a node have no edges; the lists of an edge agree; a
feature is younger than what it needs; lists of dependents are youngest first),
`Calls` (the features of the calls in progress are present, each younger than the one
below), `Copies` (what a call has left to read is exactly what the list of its feature
holds after the feature the call is waiting for) and `Closed` (the destructor has
listed or is deleting whatever is left). A call frees features younger than its own,
and these stand in front of what outer calls have still to read: that is why no copied
pointer dangles, and it rests on `SLList::add` putting new elements in front (the faulty
form `Linked_last` violates `NoDanglingRead`). For the
refinement, an invalidation is one step of Features at the start of the outermost call,
and the abstract state is the concrete one without `Going`, the cone of the outermost
call's feature (`Dependents`); each deletion inside leaves it as it was (`DeleteStutters`).

*Processor.* `IInv` is the types and three parts. `Bases`: what goes is still provided, and so is what a provided feature was computed
from. `Runs`: only the run on top is past its requirements, only a run that takes away has an invalidation in progress, and each run is
`Sound`, which says what each phase of `process()` relies on. The part of it that is not obvious is the phase after the work: either
the run has nothing to take away, and what it required is provided; or all it required is among what it has still to
take away, so that `required` is empty when it comes to `provide()`. That is where `DeclarationAssumption` is needed, and why it is not enough
that `process()` removes one feature from its list when it invalidates it (the faulty form `InvalidateNext_kept` breaks
this). `Serves`: the first run is for what was asked. `ProvideAssertions` and `RequestsAreServed` follow. For the refinement, an invalidation is
one step of Features when it starts: `Going` computes the least set that holds what goes and is closed under `needs` (`GoingIsLeast`);
each step of the invalidation reaches only features in it (`SpreadKeeps`), and each deletion takes one out of it (`DropKeeps`).

`NeverCircular` needs more: that a run which has gone through a part of its list, and waits for the default processor of the next feature, still has
what it went through. `Turn` says so of all waiting runs at once. Whatever is being taken away is in the table entry of
the feature that each of them waits for (`Waits`); the entries get smaller from one run to the one it waits for; and
what a provided feature rests on was declared (`Rests`), so that an invalidation stays in the entry as it spreads. So
what goes is never something that a run below went through, because `InOrder` says that no requirement comes before one whose request may take
it away. When a run has gone through its list, all of it is provided, and `process()` does not reach its "circular dependency" exception. A
cancelled run promises nothing, and returns before it looks.

*The life of the graph.* `LInv` is the invariant of Processor and six parts more, none of which holds without the others. `Stack`: what
each run has still to do is what its processor declares; CFGBuilder and CFGCollector run only while what they make is missing, and
nothing but CFGBuilder runs above CFGCollector, so neither replaces what is in use. `Rooted`: every result on the graph rests on
the collection, directly or through a result that does, so that nothing is left on a graph that goes
(`NoResults`); the first CFG and the virtual entry only go with the workspace. `Owned`: every CFG made is allocated, but the first once
its cleaner has run, which is after the collections that hold it have gone, since these were computed from it. `Graph`: the collection that is provided is allocated, what
was done to it is all that the workspace says was done, the entry is its first CFG; and when there is none, the next is
made of an entry to which all that was done. `Stage`: between its work and its last `provide()`, a
builder has its new CFG in a field while the old graph is still taken away. `Hooks`: the cleaners that can be on
each feature. In particular there is never more than one on `COLLECTED_CFG_FEATURE`, and what it frees is the collection in use, though some free whatever
`INVOLVED_CFGS` holds when they run: that is what `FreedAtMostOnce` rests on. Each action has a lemma (`WorkingStep`,
`FailingStep`, `CleaningUpStep`, `ProvidingStep`, `FinishingStep`, `DroppingStep`, and `QuietSteps` for those that leave the graph alone); `Dropped` says what
the cleaners of a deleted node change, whatever their number (`CleanedStays`).

*IterativeDFA.* For any finite set of blocks and any problem. `IInv` is the types, `QueueMatches`, *Settled* (a block that is not in the
queue has the result that its neighbours ask for, which is why only the neighbours of what changed are
queued again, and why the cleared bit of the block at work matters when it is its own neighbour) and *Ahead*
(every result contains, or is contained in, that of every solution, from the full or empty sets at the start on).
With an empty queue the first makes the results a solution and the second makes it the best:
`EndsWithBest`, in whatever order the queue was served. So dominators do not depend on the order of the edges of a CFG.

*LoopInfo.* That the best solution is dominance is a statement about paths. `Reached`, what can be reached without some
blocks, is the least set closed under the edges (`ReachedLeast`). The blocks on all paths to each block are a solution of
the equations (`PathsSolve`), and contain every solution, because the blocks that a solution does not say to be dominated by
x are closed under the edges that avoid x (`SolutionsOnPaths`). So an engine that has done has found them
(`EngineFindsPaths`). `LInv` carries this through the phases: the engine's invariant, the problem of the phase, and
the marks that finished phases left; a restart of the engine makes the invariant true again (`RestartHolds`). The graph
is any that `CFG::scan` makes; `BuildAgain` may come any number of times.

For `LoopsRight`, the engine's third run gives for each block the set of headers of the loops around it: these sets are a solution of the
equations of `LoopProblem` (`AroundSolves`), and are contained in every solution (`AroundLeast`), because a block from which a back edge is reached without
the header has the bit of the header (`EngineFindsLoops`). That they make ENCLOSING_LOOP_HEADER and LOOP_EXIT_EDGE right rests on the order of the list of
headers. `SortedSLList::add` puts a header in front of the first that it comes before, in a comparison that is no order on all
headers; but it is one on those that dominate each other (`DominatorsChain`: the dominators of a block are a chain), and the headers of
the loops around a block, or left by an edge, dominate it. So among those the list is sorted (`InsertKeepsOrder`, `HeadersAreSorted`), the first set bit is the
innermost and the last the outermost (`FirstAndLast`). `MarksInv` carries the marks through the phases, from one building
to the next: what the cleaner forgets, `EXIT_LIST` and the marks of edges, is what the next building writes again.

*HalfAbsInt.* `ScheduleInv` says where the engine is by five sets (`Control`): D, the blocks processed in the iterations in progress; G, the headers of
these; M, the edges with a mark; F, the headers whose `FIXED` is set; P, the block whose output is to be done. The work list is then exactly the
blocks all of whose edges are marked, or are back edges of a loop not yet in progress, or exits of a loop at its fix point (`ToDo`, `ReadyEdges`). Each
branch of the engine has its lemma on these sets: `VisitControl`, `EnterControl` and `AgainControl` (all that was processed in a loop is
forgotten for the next iteration), `FixControl`, `OutputControl`. A header comes up
again only when the whole of its loop was processed (`LoopProcessed`): that is where the shape of a natural loop is used. And when
nothing is left to do, all is processed (`EndControl`), because a set of blocks without a first one would be a cycle without a back edge (`NoCycle`): hence
`ReadyForNext`. `addSuccessors()` and the loop over `EXIT_LIST` in `outputProcessing()` are folds over lists, whose results
come by induction on the position (`AddSuccessorsFacts`, `ActivateExitsFacts`); `Once` is what keeps a block from being queued twice.

`ValueInv` adds the states. No mark is bottom, and the levels of the state of an edge are counted from each header in progress: at least as many as the loops
entered since (`Deep`), exactly as many on a program of one level (`Flat`). Why at least: an edge out of two loops takes one
level off, so that states of several depths meet, each at least deep enough, and a join has the depth of one of them, its left operand
(`ProperLub`). With the default handler the state of a header in progress has one level more than the join of its entry edges; the marks of these edges
stay while the loop is in progress, and so does the join, which depends on nothing else (`SameUnion`). With the unrolling one it has those of what came back. So an exit
edge has a level to leave whenever the fix point of its loop is reached, and `AssertionsHold` follows with `ScheduleInv`, since the states that
`inputProcessing()` reads are on the edges that `Done` names.

*InstCache.* What the engine computes is a fix point only at the end, and the states that prove it are gone by then: marks
are used up. `CoverInv` therefore speaks of the MUST states `I[b]` with which a block b was ever interpreted. What each of them becomes along an edge
is covered by one of the target, or by the mark of the edge, which waits for the target to be taken (`Passed`); and the
result of b covers it. When an iteration ends in the fix point, the state of the header is the one that was
kept (`HeaderTurned`), so that what waits on the back edges is covered by a member of `I[h]`; otherwise the join
of both is a new member. At the end no mark is left (`ReadyForNext`), so `I` is closed under all edges. An execution then goes with it: some member of `I[pos]`
bounds the ages in the real set (`RunSound`), by the same facts on accesses and joins as `MustSound`. At an access, the result covers
that member: what it has is in the set.

`FirstMissSound` is about two misses of a cache block in one stay in a loop: there must be none if PERS says at the level of the loop that an access to it is
persistent. The proof has five parts.

- *Levels.* On a program of one level the depth of every state is known (`Exact`), so that the level of the loop of a header h
  is at one place (`Rank`) in every state inside the loop. A *view* is what a state says at that level: its MUST and one item of PERS.
- *One loop.* `LevelInv(h, F)` does for the views in the loop of h what `CoverInv` does for MUST, but F is emptied when the
  header is taken again (`BeginLevel`): other than those of MUST, its views are those of the last iteration only. So at
  the end there is one view m of the header, and F is closed under the edges of the loop, the back edges included (`Settled`); every result in the loop covers the views of its block.
- *Back to the header.* From every block of the loop edges lead back to the header (`LoopGoesOn`), so that what every access on the way keeps true of a view is
  true of one that m covers (`LoopReturns`): m has an age for every cache block that is accessed in the loop (`LoopIds`). `Fits(x, j)` says
  that the ages below j in x are not crowded: at most v + 1 blocks are of age v or less, as in a real line. PERS does not
  ensure it: the items of a loop start empty, and an access that MUST knows to be young ages only what is younger. But an access that MUST does not know ages all other blocks; so where
  there is one, `Fits(v.item, j)` gives `Fits(m.item, j + 1)` (`LoopFits`). `Shadow` says that the views along an execution fit as far as m does;
  so at such an access, from one age to the next, they fit for all ages below `A` (`ShadowFull`).
- *The execution.* `Trace` keeps for each cache block accessed since the loop was entered the set of those accessed after it, to which the real line,
  MUST and PERS are true (`RecentAfter`, `OrderAfter`). For a second miss there were at least `A` after it. MUST then does not know the block; and PERS gives none of
  them an older age than the block's, so that only `A` is left for it (`SecondMiss`): the access is not persistent in the loop (`MissedTwice`). Hence one stay in the loop
  has one miss of the cache block at most, by whichever of the accesses that are persistent there (`Counts`).
- *The category.* CAT2Builder climbs `ENCLOSING_LOOP_HEADER` as it goes down the levels: `StreakUp`, `ClimbUp` and `OutermostUp` show
  that the header it ends with is the one of the last level at which the access is persistent, for each of the three settings (`MissHeader`).
  What LinkedBlocksDetector puts together is then in one group of one loop (`LinkedGroup`).

*Induction.* The theorems of the library that take a predicate as a parameter cannot be used with the provers at hand. Induction over a
recursive function (`Kept`, `Cleaned`, `SortedHeaders`, `Going`, `AddSuccessors`, `Union`...) is done with a set: `AllNaturals` says that a set with 0 and the successor of each of its
members holds all natural numbers, and `LeastNatural` that a set of natural numbers has a least one.

*Only model-checked.* The liveness properties (`InvalidateEnds`, `RequestsEnd`, `AnalysesEnd`, `AnalysisEnds`), since TLAPS
proves nothing of `ENABLED`. Programs with
calls: the run `icache` has three of them, the theorems on InstCache none. CFGLifetime with `LoopReductor` is outside the theorems, and run
`lifetime_reductor` shows what goes wrong there.


## 6. What is left, in order

1. **More of the instruction cache**: MAY on the graph and `ALWAYS_MISS`, ACS and categories on
   edges (`cache_EdgeACSBuilder.cpp`, `cache_EdgeCAT2Builder.cpp`), how `cache_LBlockBuilder.cpp` cuts blocks.
2. **The rest of the engine**: the partial analyses (`HAI_BYPASS_SOURCE`, `HAI_DONT_ENTER`), the fix points with
   widening, the context listeners.
3. **IPET and contexts** (`ipet_*Builder.cpp`, `prop_ContextualProperty.cpp`): the counts of
   every walk satisfy the constraints.
4. As operators: linear expressions of `ilp_Expression.cpp`, circular linear progressions of
   `clp_*.cpp` on small words, `ContextualProperty`.
5. **Proofs**: the theorems on InstCache for programs with calls.

Left out for good: parsers, loaders, decoders and generated code; tools and printers;
`lp_solve`; the execution graphs (wide numeric data, little control); the plugins that
CAT2 and IPET replaced. The repository is also, for the most part, not OTAWA's analyses at all: instruction sets,
decoder tables, a boot loader, vendored solvers; hence the small part of its lines that the modules stand for.
