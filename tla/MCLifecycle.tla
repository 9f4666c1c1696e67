---------------------------- MODULE MCLifecycle -----------------------------
(***************************************************************************)
(* Lifecycle on small instances.                                           *)
(***************************************************************************)
EXTENDS Lifecycle, TLC

CONSTANTS e1, d1, d2, l1, l2, p1, p2, audit, documents

(* Two processes that serve one consumer ... *)
OneConsumer == {audit}
BothServeAudit == [l \in {l1, l2} |-> audit]
OneLoopPerProcess == l1 :> p1 @@ l2 :> p2
TwoWorkers == p1 :> d1 @@ p2 :> d2

(* ... or one process that serves two. *)
TwoConsumers == {audit, documents}
OneLoopEach == l1 :> audit @@ l2 :> documents
BothInOneProcess == [l \in {l1, l2} |-> p1]
OneWorker == p1 :> d1

=============================================================================
