---------------------------- MODULE EventPipeline ---------------------------
(***************************************************************************)
(* The event pipeline with the local transport (runtime.module.ts): the    *)
(* outbox dispatchers publish to EventDelivery, which accepts the event in *)
(* the mailbox for every subscribed consumer; the delivery loops hand it   *)
(* to the consumers' handlers.                                             *)
(***************************************************************************)
EXTENDS Outbox, Mailbox

vars == <<outboxVars, mailboxVars>>

Init == OutboxInit /\ MailboxInit

(* EventDelivery.publish succeeds: the accept transaction commits and the
   dispatcher gets a durable receipt. *)
PublishAccepted(d) ==
  /\ DispatchPublished(d, TRUE)
  /\ Accept(dEvent[d])

(* publish fails and nothing was stored (canceled, timeout, rollback). *)
PublishFailed(d) ==
  /\ DispatchPublished(d, FALSE)
  /\ UNCHANGED mailboxVars

(* The accept transaction commits but its answer is lost: the dispatcher
   sees a failure (commit_uncertain). *)
PublishUncertain(d) ==
  /\ DispatchPublished(d, FALSE)
  /\ Accept(dEvent[d])

(* One dispatcher at work. *)
Dispatch(d) ==
  \/ \E e \in Events : DispatchClaim(d, e) /\ UNCHANGED mailboxVars
  \/ DispatchNothing(d) /\ UNCHANGED mailboxVars
  \/ PublishAccepted(d)
  \/ PublishFailed(d)
  \/ PublishUncertain(d)
  \/ DispatchFinish(d) /\ UNCHANGED mailboxVars
  \/ DispatchLeaseLost(d) /\ UNCHANGED mailboxVars

(* One delivery loop at work. *)
Deliver(l) ==
  \/ \E r \in Receipts : DeliverClaim(l, r) /\ UNCHANGED outboxVars
  \/ DeliverNothing(l) /\ UNCHANGED outboxVars
  \/ \E ok \in BOOLEAN : DeliverHandled(l, ok) /\ UNCHANGED outboxVars
  \/ DeliverFinish(l) /\ UNCHANGED outboxVars
  \/ DeliverLeaseLost(l) /\ UNCHANGED outboxVars

Crash ==
  \/ \E d \in Dispatchers : DispatchAbandon(d) /\ UNCHANGED mailboxVars
  \/ \E l \in Loops : DeliverAbandon(l) /\ UNCHANGED outboxVars

OutboxTime(e) ==
  /\ OutboxLeaseExpires(e) \/ OutboxBackoffEnds(e)
  /\ UNCHANGED mailboxVars

MailboxTime(r) ==
  /\ ReceiptLeaseExpires(r) \/ ReceiptBackoffEnds(r)
  /\ UNCHANGED outboxVars

(* EventMaintenance deletes what is finished; an operator requeues dead rows
   with scripts/events-requeue.ts. *)
Maintenance ==
  \/ \E S \in OneOrAll({e \in Events : oState[e] = "dead"}) :
       OutboxRequeue(S) /\ UNCHANGED mailboxVars
  \/ \E c \in Consumers :
       \E S \in OneOrAll({r \in Receipts : r[2] = c /\ rState[r] = "dead"}) :
          MailboxRequeue(c, S) /\ UNCHANGED outboxVars
  \/ \E S \in SUBSET Events : OutboxPrune(S) /\ UNCHANGED mailboxVars
  \/ \E S \in SUBSET Events : MailboxPrune(S) /\ UNCHANGED outboxVars

Next ==
  \/ \E e \in Events : Enqueue(e) /\ UNCHANGED mailboxVars
  \/ \E d \in Dispatchers : Dispatch(d)
  \/ \E l \in Loops : Deliver(l)
  \/ Crash
  \/ \E e \in Events : OutboxTime(e)
  \/ \E r \in Receipts : MailboxTime(r)
  \/ Maintenance

Spec == Init /\ [][Next]_vars

(* Every dispatch and delivery loop keeps polling (outbox-worker.ts poll,
   event-delivery.ts #run) and clocks advance; nothing is assumed of the
   publisher, the handlers, crashes or the operator. *)
Fairness ==
  /\ \A d \in Dispatchers : WF_vars(Dispatch(d))
  /\ \A l \in Loops : WF_vars(Deliver(l))
  /\ \A e \in Events : WF_vars(OutboxTime(e))
  /\ \A r \in Receipts : WF_vars(MailboxTime(r))

FairSpec == Spec /\ Fairness

-----------------------------------------------------------------------------
(* Properties.                                                             *)

(* Rows, receipts and worker states are well formed; in particular attempts
   never exceed the retry policy's budget (claim in store.ts). *)
TypeOK == OutboxTypeOK /\ MailboxTypeOK

(* At-least-once delivery: for every event a writer committed and every
   consumer, the handler has succeeded, or a pending or dead row still owes
   the delivery.  Marking rows sent, both prunes, lost leases, crashes and
   uncertain commits never make an event disappear. *)
NothingLost ==
  \A r \in Receipts :
    r[1] \in committed =>
      \/ r \in handled
      \/ rState[r] \in {"pending", "dead"}
      \/ oState[r[1]] \in {"pending", "dead"}

(* A row or receipt is dead only when its attempt budget is spent or its
   envelope cannot be decoded: no stale dispatcher or delivery loop buries a
   row that was requeued or claimed by someone else in the meantime. *)
DeadOnlyWhenSpent == OutboxDeadSpent /\ ReceiptDeadSpent

(* A spent row that is still pending is under a lease, so it is waiting for
   an outcome or for the lease to expire: no row is stranded that no claim
   would either pick up or bury. *)
NoStrandedRow == OutboxNotStranded /\ ReceiptNotStranded

(* A receipt is marked processed only by the loop that made its latest claim,
   after its handler succeeded under that claim: a handler that outlived its
   lease cannot decide for the claim that replaced it. *)
LatestClaimDecides ==
  [][\A r \in Receipts :
       rState[r] = "pending" /\ rState'[r] = "processed" =>
         \E l \in Loops : /\ lPc[l] = "finishing"
                          /\ lOk[l]
                          /\ lReceipt[l] = r
                          /\ lClaim[l] = claims[r]]_vars

(* A sent row and a processed receipt are final until retention deletes them:
   a late failure never returns them to the queue. *)
FinishedIsFinal ==
  [][/\ \A e \in Events :
          oState[e] = "sent" => oState'[e] \in {"sent", "absent"}
     /\ \A r \in Receipts :
          rState[r] = "processed" => rState'[r] \in {"processed", "absent"}]_vars

(* Every committed event is eventually handled by each consumer or parked as
   dead where an operator sees it, however often processes crash and however
   often publishing and handling fail. *)
Settled(r) ==
  r \in handled \/ rState[r] = "dead" \/ oState[r[1]] = "dead"

EventuallySettled ==
  \A r \in Receipts : r[1] \in committed ~> Settled(r)

-----------------------------------------------------------------------------
(* The pipeline implements AtLeastOnce.  A delivery is owed or parked as its
   receipt says; before there is a receipt the outbox row speaks for it. *)
Owed ==
  {r \in Receipts : \/ rState[r] = "pending"
                    \/ ~Known(r) /\ oState[r[1]] = "pending"}
Parked ==
  {r \in Receipts : \/ rState[r] = "dead"
                    \/ ~Known(r) /\ oState[r[1]] = "dead"}

ALO == INSTANCE AtLeastOnce WITH owed <- Owed, parked <- Parked, done <- handled

(* Outbox, mailbox, dispatchers and loops together implement at-least-once
   delivery: every step settles, parks, resumes or repeats deliveries as
   AtLeastOnce allows, and only a successful handler settles one. *)
DeliversAtLeastOnce == ALO!Spec

-----------------------------------------------------------------------------
(* The inductive invariant behind the safety properties.                   *)

(* Before the outbox lets go of an event the mailbox has accepted it. *)
SentWasAccepted ==
  /\ \A d \in Dispatchers : dPc[d] = "finishing" /\ dOk[d] => Accepted(dEvent[d])
  /\ \A e \in committed : oState[e] \in {"sent", "absent"} => Accepted(e)

(* The mailbox knows of no event before its commit, and when it knows of one
   it knows of it for every consumer: accept is one transaction. *)
AcceptedWhole ==
  \A r \in Receipts : Known(r) => r[1] \in committed /\ Accepted(r[1])

IInv == OutboxInv /\ MailboxInv /\ SentWasAccepted /\ AcceptedWhole

=============================================================================
