--------------------------- MODULE MCNatsPipeline ---------------------------
(***************************************************************************)
(* NatsPipeline on a small instance.                                       *)
(***************************************************************************)
EXTENDS NatsPipeline

CONSTANTS e1, d1, l1, t1, t2, audit

OneConsumer == {audit}
OneLoop == [l \in {l1} |-> audit]

(* The event decodes or not; the consumer keeps up or not. *)
AnyWorld == [poison : SUBSET Events, lagging : BOOLEAN]

=============================================================================
