----------------------------- MODULE EventBase ------------------------------
(***************************************************************************)
(* What the outbox and the mailbox share: the events that flow through     *)
(* them and SQL's NULL.                                                    *)
(***************************************************************************)
EXTENDS Naturals

CONSTANTS
  Events,   \* event ids
  None      \* SQL NULL

(* The operator requeues one dead row or all of them. *)
OneOrAll(D) == {{x} : x \in D} \cup {D}

=============================================================================
