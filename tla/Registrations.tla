---------------------------- MODULE Registrations ---------------------------
(***************************************************************************)
(* What the processors that build and rebuild the control-flow graph, and  *)
(* two that use it, declare: each list is in the order a FeatureIter gives *)
(* it, the processor's own usages before those of its base.  p::init keeps *)
(* the order of the declarations; the older forms (a list of arguments, or *)
(* calls made by the constructor) reverse it.                              *)
(***************************************************************************)
EXTENDS Sequences

Req(f)  == [kind |-> "require", feature |-> f]
Use(f)  == [kind |-> "use", feature |-> f]
Prov(f) == [kind |-> "provide", feature |-> f]
Inv(f)  == [kind |-> "invalidate", feature |-> f]

\* Declared by the base class of the processors that visit each CFG.
CFGProcessor == <<Req("COLLECTED_CFG")>>

CFGBuilder == <<Req("DECODED_TEXT"), Prov("CFG_INFO")>>

\* Registered once, and declared again by the constructor.
CFGCollector == <<Prov("COLLECTED_CFG"), Req("CFG_INFO"),
                  Req("CFG_INFO"), Prov("COLLECTED_CFG")>>

Dominance == <<Prov("LOOP_HEADERS"), Prov("DOMINANCE")>> \o CFGProcessor

LoopInfoBuilder ==
    <<Prov("LOOP_INFO"), Req("LOOP_HEADERS"), Req("DOMINANCE")>> \o CFGProcessor

Virtualizer == <<Use("COLLECTED_CFG"), Inv("COLLECTED_CFG"),
                 Prov("VIRTUALIZED_CFG"), Prov("COLLECTED_CFG")>>

LoopUnroller == <<Use("DOMINANCE"), Use("LOOP_HEADERS"), Use("LOOP_INFO"),
                  Use("COLLECTED_CFG"), Inv("COLLECTED_CFG"),
                  Prov("COLLECTED_CFG"), Prov("UNROLLED_LOOPS")>>

DelayedBuilder == <<Prov("DELAYED_CFG"), Prov("COLLECTED_CFG"),
                    Inv("COLLECTED_CFG"), Req("COLLECTED_CFG")>> \o CFGProcessor

LoopReductor == <<Prov("REDUCED_LOOPS"), Prov("LOOP_HEADERS"),
                  Inv("COLLECTED_CFG"), Req("COLLECTED_CFG")>>

SubCFGBuilder == <<Prov("VIRTUALIZED_CFG"), Inv("COLLECTED_CFG"),
                   Use("VIRTUALIZED_CFG"), Req("COLLECTED_CFG")>>

ClpAnalysis == <<Req("VIRTUALIZED_CFG"), Req("LOOP_INFO"),
                 Req("INITIAL_STATE"), Prov("CLP")>>

BlockBuilder == <<Prov("DATA_BLOCK"), Req("ADDRESS_ANALYSIS"),
                  Req("CACHE_CONFIGURATION")>> \o CFGProcessor

Registered ==
    [CFGBuilder |-> CFGBuilder, CFGCollector |-> CFGCollector,
     Dominance |-> Dominance, LoopInfoBuilder |-> LoopInfoBuilder,
     Virtualizer |-> Virtualizer, LoopUnroller |-> LoopUnroller,
     DelayedBuilder |-> DelayedBuilder, LoopReductor |-> LoopReductor,
     SubCFGBuilder |-> SubCFGBuilder, ClpAnalysis |-> ClpAnalysis,
     BlockBuilder |-> BlockBuilder]

\* The processor that a feature runs when it is required and missing;
\* NoProcessor gives up.
DefaultProcessor ==
    [CFG_INFO         |-> "CFGBuilder",
     COLLECTED_CFG    |-> "CFGCollector",
     DOMINANCE        |-> "Dominance",
     LOOP_HEADERS     |-> "Dominance",
     LOOP_INFO        |-> "LoopInfoBuilder",
     VIRTUALIZED_CFG  |-> "Virtualizer",
     UNROLLED_LOOPS   |-> "LoopUnroller",
     DELAYED_CFG      |-> "DelayedBuilder",
     REDUCED_LOOPS    |-> "LoopReductor",
     CLP              |-> "ClpAnalysis",
     DATA_BLOCK       |-> "BlockBuilder",
     ADDRESS_ANALYSIS |-> "NoProcessor"]
=============================================================================
