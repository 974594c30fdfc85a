--------------------------- MODULE MCCFGLifetime ----------------------------
(* The processors that share the control-flow graph, as constants of         *)
(* CFGLifetime.                                                             *)
EXTENDS CFGLifetime, Registrations

GraphFeatures ==
    {"CFG_INFO", "COLLECTED_CFG", "DOMINANCE", "LOOP_HEADERS", "LOOP_INFO",
     "VIRTUALIZED_CFG", "UNROLLED_LOOPS", "DELAYED_CFG", "REDUCED_LOOPS", "CLP"}

DefaultOfGraph == [f \in GraphFeatures |-> DefaultProcessor[f]]

\* The processors whose results follow each other without a fault.
RunByName == {"Virtualizer", "LoopUnroller", "DelayedBuilder", "Dominance"}
AskedFor ==
    {"COLLECTED_CFG", "LOOP_INFO", "VIRTUALIZED_CFG", "UNROLLED_LOOPS",
     "DELAYED_CFG", "CLP"}

\* They and those they cause to run declare what the proofs about the life of
\* the graph ask of processors that share it.
Chain == {"CFGBuilder", "CFGCollector", "LoopInfoBuilder", "ClpAnalysis"} \union RunByName

ASSUME ChainShares == Started = RunByName => SharesGraph(Chain)
=============================================================================
