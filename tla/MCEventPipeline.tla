-------------------------- MODULE MCEventPipeline ---------------------------
(***************************************************************************)
(* EventPipeline on a small instance: two processes compete for one event  *)
(* and for the receipt of its one consumer.                                *)
(***************************************************************************)
EXTENDS EventPipeline

CONSTANTS e1, d1, d2, l1, l2, audit

OneConsumer == {audit}
BothServeAudit == [l \in {l1, l2} |-> audit]

=============================================================================
