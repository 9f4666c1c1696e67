------------------------------- MODULE Outbox -------------------------------
(***************************************************************************)
(* The transactional outbox of shared/events/postgres/store.ts (class      *)
(* Store) and the dispatchers that drain it (OutboxDispatcher,             *)
(* OutboxWorker).                                                          *)
(*                                                                         *)
(* A row is written by the transaction that changes an aggregate.  Any     *)
(* number of dispatchers, in any number of processes, claim due rows under *)
(* a lease, publish the event outside the transaction and then record the  *)
(* outcome under the same lease.  Every database transaction is one step;  *)
(* between the steps of one dispatch anything may happen.                  *)
(*                                                                         *)
(* Time is abstracted to two flags per row: oExpired (lease_until has      *)
(* passed) and oDue (available_at has passed).  A lease token is the       *)
(* dispatcher that drew it: a dispatcher runs one dispatch at a time, so   *)
(* the token of its current dispatch is the only one it can still present. *)
(***************************************************************************)
EXTENDS EventBase

CONSTANTS
  Dispatchers,        \* dispatch loops, over all processes
  OutboxMaxAttempts,  \* RetryPolicy.maxAttempts of the Store
  Undecodable,        \* events whose stored envelope no longer decodes
  MaxRequeues         \* bound: operator requeues of the outbox

ASSUME OutboxAssumption ==
  /\ OutboxMaxAttempts \in Nat \ {0}
  /\ Undecodable \subseteq Events
  /\ MaxRequeues \in Nat
  /\ None \notin Dispatchers

VARIABLES
  committed,   \* events whose writing transaction has committed (history)
  oState,      \* state of the row, "absent" when there is none
  oAttempts,   \* attempts
  oLease,      \* lease token, None for NULL
  oExpired,    \* lease_until <= clock_timestamp()
  oDue,        \* available_at <= clock_timestamp()
  oRequeues,   \* requeue calls so far
  dPc,         \* where each dispatcher is
  dEvent,      \* the event of its lease
  dAttempt,    \* the attempt of its lease
  dOk          \* whether publishing returned a durable receipt

outboxRows == <<committed, oState, oAttempts, oLease, oExpired, oDue, oRequeues>>
dispatchVars == <<dPc, dEvent, dAttempt, dOk>>
outboxVars == <<outboxRows, dispatchVars>>

RowStates == {"absent", "pending", "sent", "dead"}

OutboxTypeOK ==
  /\ committed \in SUBSET Events
  /\ oState \in [Events -> RowStates]
  /\ oAttempts \in [Events -> 0..OutboxMaxAttempts]
  /\ oLease \in [Events -> Dispatchers \cup {None}]
  /\ oExpired \in [Events -> BOOLEAN]
  /\ oDue \in [Events -> BOOLEAN]
  /\ oRequeues \in 0..MaxRequeues
  /\ dPc \in [Dispatchers -> {"idle", "publishing", "finishing"}]
  /\ dEvent \in [Dispatchers -> Events \cup {None}]
  /\ dAttempt \in [Dispatchers -> 0..OutboxMaxAttempts]
  /\ dOk \in [Dispatchers -> BOOLEAN]

OutboxInit ==
  /\ committed = {}
  /\ oState = [e \in Events |-> "absent"]
  /\ oAttempts = [e \in Events |-> 0]
  /\ oLease = [e \in Events |-> None]
  /\ oExpired = [e \in Events |-> FALSE]
  /\ oDue = [e \in Events |-> FALSE]
  /\ oRequeues = 0
  /\ dPc = [d \in Dispatchers |-> "idle"]
  /\ dEvent = [d \in Dispatchers |-> None]
  /\ dAttempt = [d \in Dispatchers |-> 0]
  /\ dOk = [d \in Dispatchers |-> FALSE]

-----------------------------------------------------------------------------
(* The writer's side.                                                      *)

(* enqueue: the row is inserted in the transaction of the aggregate it is
   about, so the event is committed exactly when the row is. *)
Enqueue(e) ==
  /\ e \notin committed
  /\ committed' = committed \cup {e}
  /\ oState' = [oState EXCEPT ![e] = "pending"]
  /\ oDue' = [oDue EXCEPT ![e] = TRUE]
  /\ UNCHANGED <<oAttempts, oLease, oExpired, oRequeues, dispatchVars>>

-----------------------------------------------------------------------------
(* Claiming.                                                               *)

(* lease_until IS NULL OR lease_until <= clock_timestamp() *)
OutboxFree(e) == oLease[e] = None \/ oExpired[e]

OutboxCandidate(e) ==
  /\ oState[e] = "pending"
  /\ oAttempts[e] < OutboxMaxAttempts
  /\ oDue[e]
  /\ OutboxFree(e)

(* Rows left behind by a dispatcher that crashed on its last attempt. *)
OutboxExhausted ==
  {e \in Events : /\ oState[e] = "pending"
                  /\ oAttempts[e] >= OutboxMaxAttempts
                  /\ OutboxFree(e)}

(* The claim transaction.  It first buries the exhausted rows.  With a
   candidate it also leases that row and counts the attempt; if the envelope
   does not decode the row is buried in the same transaction and the
   dispatcher has nothing to publish. *)
DispatchClaim(d, e) ==
  LET dead == OutboxExhausted \cup ({e} \cap Undecodable)
  IN /\ dPc[d] = "idle"
     /\ OutboxCandidate(e)
     /\ oState' = [x \in Events |-> IF x \in dead THEN "dead" ELSE oState[x]]
     /\ oLease' = [x \in Events |-> IF x \in dead THEN None
                                    ELSE IF x = e THEN d ELSE oLease[x]]
     /\ oExpired' = [x \in Events |-> x \notin dead \cup {e} /\ oExpired[x]]
     /\ oAttempts' = [oAttempts EXCEPT ![e] = @ + 1]
     /\ IF e \in Undecodable
          THEN UNCHANGED dispatchVars
          ELSE /\ dPc' = [dPc EXCEPT ![d] = "publishing"]
               /\ dEvent' = [dEvent EXCEPT ![d] = e]
               /\ dAttempt' = [dAttempt EXCEPT ![d] = oAttempts[e] + 1]
               /\ UNCHANGED dOk
     /\ UNCHANGED <<committed, oDue, oRequeues>>

(* A claim that finds no candidate (none is due, or SKIP LOCKED passed over
   the ones other claims hold) still commits the burial of exhausted rows. *)
DispatchNothing(d) ==
  /\ dPc[d] = "idle"
  /\ OutboxExhausted # {}
  /\ oState' = [x \in Events |-> IF x \in OutboxExhausted THEN "dead" ELSE oState[x]]
  /\ oLease' = [x \in Events |-> IF x \in OutboxExhausted THEN None ELSE oLease[x]]
  /\ oExpired' = [x \in Events |-> x \notin OutboxExhausted /\ oExpired[x]]
  /\ UNCHANGED <<committed, oAttempts, oDue, oRequeues, dispatchVars>>

-----------------------------------------------------------------------------
(* Publishing and finishing.                                               *)

(* Seeded fault: any answer of the publisher counts as a durable receipt. *)
DispatchPublishedUnchecked(d, ok) ==
  /\ dPc[d] = "publishing"
  /\ dPc' = [dPc EXCEPT ![d] = "finishing"]
  /\ dOk' = [dOk EXCEPT ![d] = TRUE]
  /\ UNCHANGED <<dEvent, dAttempt, outboxRows>>

(* publisher.publish returns: ok is a durable receipt for this event,
   anything else (an error, a throw, a receipt that is not durable) is not. *)
DispatchPublished(d, ok) ==
  /\ dPc[d] = "publishing"
  /\ dPc' = [dPc EXCEPT ![d] = "finishing"]
  /\ dOk' = [dOk EXCEPT ![d] = ok]
  /\ UNCHANGED <<dEvent, dAttempt, outboxRows>>

(* The dispatch returns and its locals are gone. *)
DispatchReturns(d) ==
  /\ dPc' = [dPc EXCEPT ![d] = "idle"]
  /\ dEvent' = [dEvent EXCEPT ![d] = None]
  /\ dAttempt' = [dAttempt EXCEPT ![d] = 0]
  /\ dOk' = [dOk EXCEPT ![d] = FALSE]

(* WHERE clause of finish: the lease is still this one and has not expired. *)
OutboxHolds(d) ==
  /\ oState[dEvent[d]] = "pending"
  /\ oLease[dEvent[d]] = d
  /\ ~oExpired[dEvent[d]]

OutboxOutcome(ok, attempt) ==
  IF ok THEN "sent"
  ELSE IF attempt >= OutboxMaxAttempts THEN "dead" ELSE "pending"

(* ack and release: both are finish. *)
DispatchFinish(d) ==
  LET e == dEvent[d]
  IN /\ dPc[d] = "finishing"
     /\ OutboxHolds(d)
     /\ oState' = [oState EXCEPT ![e] = OutboxOutcome(dOk[d], dAttempt[d])]
     /\ oLease' = [oLease EXCEPT ![e] = None]
     /\ oExpired' = [oExpired EXCEPT ![e] = FALSE]
     /\ oDue' = [oDue EXCEPT ![e] = dOk[d]]
     /\ DispatchReturns(d)
     /\ UNCHANGED <<committed, oAttempts, oRequeues>>

(* finish matched no row: events.lease_lost, nothing is written. *)
DispatchLeaseLost(d) ==
  /\ dPc[d] = "finishing"
  /\ ~OutboxHolds(d)
  /\ DispatchReturns(d)
  /\ UNCHANGED outboxRows

(* The process dies, or the outcome of a COMMIT is unknown to it: the
   dispatch is forgotten and the row keeps its lease. *)
DispatchAbandon(d) ==
  /\ dPc[d] # "idle"
  /\ DispatchReturns(d)
  /\ UNCHANGED outboxRows

-----------------------------------------------------------------------------
(* Time and the operator.                                                  *)

OutboxLeaseExpires(e) ==
  /\ oLease[e] # None
  /\ ~oExpired[e]
  /\ oExpired' = [oExpired EXCEPT ![e] = TRUE]
  /\ UNCHANGED <<committed, oState, oAttempts, oLease, oDue, oRequeues, dispatchVars>>

OutboxBackoffEnds(e) ==
  /\ oState[e] = "pending"
  /\ ~oDue[e]
  /\ oDue' = [oDue EXCEPT ![e] = TRUE]
  /\ UNCHANGED <<committed, oState, oAttempts, oLease, oExpired, oRequeues, dispatchVars>>

(* requeue of one dead row, or of all of them, with a fresh budget. *)
OutboxRequeue(S) ==
  /\ oRequeues < MaxRequeues
  /\ S # {}
  /\ \A e \in S : oState[e] = "dead"
  /\ oState' = [x \in Events |-> IF x \in S THEN "pending" ELSE oState[x]]
  /\ oAttempts' = [x \in Events |-> IF x \in S THEN 0 ELSE oAttempts[x]]
  /\ oDue' = [x \in Events |-> x \in S \/ oDue[x]]
  /\ oRequeues' = oRequeues + 1
  /\ UNCHANGED <<committed, oLease, oExpired, dispatchVars>>

OutboxPrunable(e) == oState[e] = "sent"

(* prune deletes sent rows whose retention has passed, up to a limit. *)
OutboxPrune(S) ==
  /\ S # {}
  /\ \A e \in S : OutboxPrunable(e)
  /\ oState' = [x \in Events |-> IF x \in S THEN "absent" ELSE oState[x]]
  /\ oAttempts' = [x \in Events |-> IF x \in S THEN 0 ELSE oAttempts[x]]
  /\ oDue' = [x \in Events |-> x \notin S /\ oDue[x]]
  /\ UNCHANGED <<committed, oLease, oExpired, oRequeues, dispatchVars>>

-----------------------------------------------------------------------------
(* What the outbox keeps true by itself, whatever its environment does.    *)

(* There is no row before the commit, and a missing row has no attempts. *)
OutboxAbsent ==
  \A e \in Events :
    /\ e \notin committed => oState[e] = "absent"
    /\ oState[e] = "absent" => oAttempts[e] = 0

(* A lease belongs to a pending row; whoever still holds it knows the row's
   current attempt, and whoever is at work is at work on a committed event. *)
OutboxLeases ==
  /\ \A e \in Events : oLease[e] # None => oState[e] = "pending"
  /\ \A d \in Dispatchers : dPc[d] # "idle" => dEvent[d] \in committed
  /\ \A d \in Dispatchers :
       dPc[d] # "idle" /\ oLease[dEvent[d]] = d => dAttempt[d] = oAttempts[dEvent[d]]

OutboxDeadSpent ==
  \A e \in Events :
    oState[e] = "dead" => oAttempts[e] = OutboxMaxAttempts \/ e \in Undecodable

OutboxNotStranded ==
  \A e \in Events :
    oState[e] = "pending" /\ oAttempts[e] = OutboxMaxAttempts => oLease[e] # None

OutboxInv ==
  /\ OutboxTypeOK
  /\ OutboxAbsent
  /\ OutboxLeases
  /\ OutboxDeadSpent
  /\ OutboxNotStranded

=============================================================================
