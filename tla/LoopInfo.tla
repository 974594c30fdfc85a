------------------------------ MODULE LoopInfo ------------------------------
(***************************************************************************)
(* Dominance, post-dominance and loops of a CFG: Dominance and             *)
(* LoopInfoBuilder (cfg_Dominance.cpp, cfg_LoopInfoBuilder.cpp) and        *)
(* PostDominance (util_PostDominance.cpp), each a run of the engine of     *)
(* IterativeDFA and the properties it leaves on the blocks and the edges.  *)
(* The blocks are their numbers: the entry is 0, the exit the last.  CALL  *)
(* edges, which all of this skips, are left out of the graph.              *)
(***************************************************************************)
EXTENDS IterativeDFA

CONSTANTS Graphs,     \* CFGs to process, as sets of edges
          Exit,       \* number of the exit block
          NoBlock,    \* the null BasicBlock *
          MaxBuilds   \* bound on how often the features are built again

Entry == 0

ASSUME GraphsAssumption == /\ Exit \in Nat
                           /\ Blocks = 0 .. Exit
                           /\ Graphs \subseteq SUBSET (Blocks \X Blocks)
                           /\ NoBlock \notin Blocks
                           /\ MaxBuilds \in Nat \ {0}
(* The bits of the three problems stand for blocks.                        *)
ASSUME FactsAssumption == Facts = Blocks

VARIABLES graph,       \* the CFG
          phase,       \* the processor at work, or what was built
          dom,         \* REVERSE_DOM
          pdom,        \* REVERSE_POSTDOM
          header,      \* blocks with LOOP_HEADER
          back,        \* edges with BACK_EDGE
          hdrs,        \* LoopInfoProblem::hdrs
          enclosing,   \* ENCLOSING_LOOP_HEADER
          exitEdge,    \* LOOP_EXIT_EDGE
          exitList,    \* EXIT_LIST: how often the list of a header has an edge
          builds       \* how often the features were built

marks == <<dom, pdom, header, back, hdrs, enclosing, exitEdge, exitList>>
vars  == <<dfavars, graph, phase, marks, builds>>

Edges == Blocks \X Blocks

(* What is promised of the graph: Preds, Succs, Dominators, LoopsOf...      *)
INSTANCE Loops

(* CFG::scan (CFG.cpp) finds the blocks by following the edges from the    *)
(* entry, a block of its own that no edge leads to; the exit is added to   *)
(* them even if no block returns.                                          *)
ASSUME ScanAssumption ==
    \A g \in Graphs : \A e \in g :
        /\ e[1] \in Reached(Succs(g), {Entry}, {})
        /\ e[2] # Entry

-----------------------------------------------------------------------------
(* Faulty form of the next definition, for the runs that must notice it.   *)
DominanceProblem_open(g) == [merge |-> "all",
                             from  |-> Preds(g),
                             gen   |-> [b \in Blocks |-> {b}],
                             kill  |-> [b \in Blocks |-> {}]]

DominanceProblem(g) == [merge |-> "all",
                        from  |-> Preds(g),
                        gen   |-> [b \in Blocks |-> {b}],
                        kill  |-> [b \in Blocks |-> IF b = Entry THEN Blocks
                                                                 ELSE {}]]

PostDominanceProblem(g) == [merge |-> "all",
                            from  |-> Succs(g),
                            gen   |-> [b \in Blocks |-> {b}],
                            kill  |-> [b \in Blocks |-> IF b = Exit THEN Blocks
                                                                    ELSE {}]]

(* LoopInfoProblem: a block is in the loops of the back edges it reaches   *)
(* without going through their headers.                                    *)
LoopProblem(g, d, h) ==
    [merge |-> "any",
     from  |-> Succs(g),
     gen   |-> [b \in Blocks |-> {c \in Succs(g)[b] : c # b /\ c \in d[b]}],
     kill  |-> [b \in Blocks |-> IF b \in h THEN {b} ELSE {}]]

(* SortedSLList::add: before the first header that dominates h.            *)
Before(d, s, h) == {i \in 1 .. Len(s) : s[i] \in d[h]}
Insert(d, s, h) ==
    IF Before(d, s, h) = {} THEN Append(s, h)
    ELSE LET i == CHOOSE i \in Before(d, s, h) : \A j \in Before(d, s, h) : i <= j
         IN  SubSeq(s, 1, i - 1) \o <<h>> \o SubSeq(s, i, Len(s))

(* Faulty form of the next definition, for the runs that must notice it.   *)
SortedHeaders_plain(d, h) ==
    LET S[n \in 0 .. Exit] == IF n = 0 THEN <<>>
                              ELSE IF n \in h THEN Append(S[n - 1], n)
                              ELSE S[n - 1]
    IN  S[Exit]

(* LoopInfoProblem::LoopInfoProblem, the blocks in the order of their      *)
(* numbers: inner headers before those that dominate them.                 *)
SortedHeaders(d, h) ==
    LET S[n \in 0 .. Exit] == IF n = Entry THEN <<>>
                              ELSE IF n \in h THEN Insert(d, S[n - 1], n)
                              ELSE S[n - 1]
    IN  S[Exit]

(* First and last bit of a set, in the order of hdrs.                      *)
Bits(S)  == {i \in 1 .. Len(hdrs) : hdrs[i] \in S}
First(S) == hdrs[CHOOSE i \in Bits(S) : \A j \in Bits(S) : i <= j]
Last(S)  == hdrs[CHOOSE i \in Bits(S) : \A j \in Bits(S) : j <= i]

-----------------------------------------------------------------------------
Numbered == [i \in 1 .. Exit + 1 |-> i - 1]

Unmarked == /\ dom = [b \in Blocks |-> {}]
            /\ pdom = [b \in Blocks |-> {}]
            /\ header = {}
            /\ back = {}
            /\ hdrs = <<>>
            /\ enclosing = [b \in Blocks |-> NoBlock]
            /\ exitEdge = [e \in Edges |-> NoBlock]
            /\ exitList = [h \in Blocks |-> [e \in Edges |-> 0]]

LoopInit == /\ graph \in Graphs
            /\ Unmarked
            /\ builds = 1
            /\ \/ phase = "dominance" /\ Start(DominanceProblem(graph), Numbered)
               \/ phase = "postdominance" /\ Start(PostDominanceProblem(graph), Numbered)

(* The engine is started again, for another problem.                       *)
Restart(p) == /\ problem' = p
              /\ outs' = Empty(p)
              /\ todo' = Numbered
              /\ present' = Blocks

Analyse == Step /\ UNCHANGED <<graph, phase, marks, builds>>

(* PostDominance::processCFG, after compute().                             *)
RecordPostDominance ==
    /\ phase = "postdominance" /\ todo = <<>>
    /\ pdom' = outs
    /\ phase' = "post-dominated"
    /\ UNCHANGED <<dfavars, graph, dom, header, back, hdrs, enclosing,
                   exitEdge, exitList, builds>>

(* Dominance::processCFG, after compute(): the marks of markLoopHeaders()  *)
(* are added to those that are there.                                      *)
RecordDominance ==
    /\ phase = "dominance" /\ todo = <<>>
    /\ dom' = outs
    /\ LET new == {e \in graph : e[2] \in outs[e[1]]}
       IN  /\ back' = back \cup new
           /\ header' = header \cup {e[2] : e \in new}
    /\ phase' = "dominated"
    /\ UNCHANGED <<dfavars, graph, pdom, hdrs, enclosing, exitEdge, exitList,
                   builds>>

(* LoopInfoBuilder::processCFG, up to compute(); a CFG without loops is    *)
(* left as it is.                                                          *)
NoLoop == /\ phase = "dominated" /\ header = {}
          /\ phase' = "built"
          /\ UNCHANGED <<dfavars, graph, marks, builds>>

FindLoops == /\ phase = "dominated" /\ header # {}
             /\ hdrs' = SortedHeaders(dom, header)
             /\ Restart(LoopProblem(graph, dom, header))
             /\ phase' = "loops"
             /\ UNCHANGED <<graph, dom, pdom, header, back, enclosing,
                            exitEdge, exitList, builds>>

(* The headers of the loops that an edge leaves: a header is in its loop.  *)
WithSelf(b) == IF b \in header THEN outs[b] \cup {b} ELSE outs[b]
Left(e)     == WithSelf(e[1]) \ WithSelf(e[2])

(* ... and from there on: properties are set where there is a loop, and    *)
(* keep their value elsewhere; the lists get the edges at their end.       *)
RecordLoops ==
    /\ phase = "loops" /\ todo = <<>>
    /\ enclosing' = [b \in Blocks |-> IF outs[b] # {} THEN First(outs[b])
                                      ELSE enclosing[b]]
    /\ exitEdge' = [e \in Edges |->
                       IF /\ e \in graph
                          /\ enclosing'[e[1]] # NoBlock \/ e[1] \in header
                          /\ Left(e) # {}
                       THEN Last(Left(e)) ELSE exitEdge[e]]
    /\ exitList' = [h \in Blocks |-> [e \in Edges |->
                       IF e \in graph /\ exitEdge'[e] = h
                       THEN exitList[h][e] + 1 ELSE exitList[h][e]]]
    /\ phase' = "built"
    /\ UNCHANGED <<dfavars, graph, dom, pdom, header, back, hdrs, builds>>

(* The features are invalidated, while the CFG stays, and asked for again. *)
(* DominanceCleaner removes BACK_EDGE from the blocks, not from the edges, *)
(* and LoopInfoBuilder has no cleaner.                                     *)
BuildAgain ==
    /\ phase = "built" /\ builds < MaxBuilds
    /\ builds' = builds + 1
    /\ dom' = [b \in Blocks |-> {}]
    /\ header' = {}
    /\ Restart(DominanceProblem(graph))
    /\ phase' = "dominance"
    /\ UNCHANGED <<graph, pdom, back, hdrs, enclosing, exitEdge, exitList>>

LoopNext == \/ Analyse
            \/ RecordPostDominance
            \/ RecordDominance
            \/ NoLoop
            \/ FindLoops
            \/ RecordLoops
            \/ BuildAgain

(* A processor runs to its end; whether its features are built again is up *)
(* to who uses them.                                                       *)
LoopSpec == /\ LoopInit /\ [][LoopNext]_vars
            /\ WF_vars(Analyse) /\ WF_vars(RecordPostDominance)
            /\ WF_vars(RecordDominance) /\ WF_vars(NoLoop)
            /\ WF_vars(FindLoops) /\ WF_vars(RecordLoops)

-----------------------------------------------------------------------------
(* A block dominates another when it is on all paths to it from the entry, *)
(* and post-dominates it when it is on all paths from it to the exit.      *)
DominanceRight ==
    /\ phase \in {"dominated", "built"} => dom = Dominators(graph, {Entry})
    /\ phase = "post-dominated" =>
           \A x \in Blocks :
               {b \in Blocks : x \in pdom[b]} = OnAllPaths(Preds(graph), {Exit}, x)

(* LOOP_INFO_FEATURE: the enclosing loop of a block is the innermost that  *)
(* holds it (for a header, beside its own), and the loop of an exit edge   *)
(* the outermost that the edge leaves; its edges are on its list.          *)
LoopsRight ==
    phase = "built" =>
        LET loops == LoopsOf(graph, dom)
        IN  /\ header = DOMAIN loops
            /\ \A b \in Blocks : enclosing[b] = Enclosing(dom, loops, b)
            /\ \A e \in graph : exitEdge[e] = ExitOf(dom, loops, e)
            /\ \A e \in graph, h \in Blocks : exitList[h][e] > 0 <=> exitEdge[e] = h

(* Each processor comes to its end, though a change puts blocks back in    *)
(* the queue.                                                              *)
AnalysesEnd == /\ phase = "dominance" ~> phase = "built"
               /\ phase = "postdominance" ~> phase = "post-dominated"
=============================================================================
