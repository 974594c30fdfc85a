---------------------------- MODULE MCProcessor -----------------------------
(* The registrations of the repository, as constants of Processor.          *)
EXTENDS Processor, Registrations

AllFeatures ==
    {"CFG_INFO", "COLLECTED_CFG", "DOMINANCE", "LOOP_HEADERS", "LOOP_INFO",
     "VIRTUALIZED_CFG", "UNROLLED_LOOPS", "DELAYED_CFG", "REDUCED_LOOPS",
     "CLP", "DATA_BLOCK", "ADDRESS_ANALYSIS"}

DefaultOfAll == [f \in AllFeatures |-> DefaultProcessor[f]]

\* BlockBuilder is only run for its feature.
RunByName == DOMAIN Registered \ {"BlockBuilder"}

\* A request for a transformed graph, or for what is computed from one, takes
\* away the graph and what was computed from it.
Undone ==
    [f \in AllFeatures |->
        IF f \in {"VIRTUALIZED_CFG", "UNROLLED_LOOPS", "DELAYED_CFG",
                  "REDUCED_LOOPS", "CLP"}
        THEN {"COLLECTED_CFG", "DOMINANCE", "LOOP_HEADERS", "LOOP_INFO", "CLP",
              "DATA_BLOCK"}
        ELSE {}]

ASSUME RegistrationsInOrder == InOrder(Undone)
=============================================================================
