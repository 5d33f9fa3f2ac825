-------------------------- MODULE MCMetricsPipeline ---------------------------
(***************************************************************************)
(* Two events for one counter and one that is no metric event.             *)
(***************************************************************************)
EXTENDS MetricsPipeline

MCCounterOf == [e \in Events |-> IF e \in Malformed THEN NoCounter ELSE "ingested"]

===============================================================================
