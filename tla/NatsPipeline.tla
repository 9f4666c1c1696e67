---------------------------- MODULE NatsPipeline ----------------------------
(***************************************************************************)
(* The event pipeline with the NATS transport (runtime.module.ts with      *)
(* eventTransport nats): the outbox dispatchers publish to JetStream and   *)
(* NatsEventWorker moves each message into the mailbox for every consumer. *)
(***************************************************************************)
EXTENDS Outbox, Mailbox, NatsTransport

CONSTANT MaxClaims   \* bound: claims of one receipt, over all its lives

ASSUME NatsPipelineAssumption == MaxClaims \in Nat

vars == <<outboxVars, mailboxVars, natsVars>>

Init == OutboxInit /\ MailboxInit /\ NatsInit

(* A dispatcher's publish is Broker.publish. *)
BrokerPublish(d) ==
  \/ DispatchPublished(d, TRUE) /\ PublishSucceeds(dEvent[d])
  \/ DispatchPublished(d, FALSE) /\ PublishRefused
  \/ DispatchPublished(d, FALSE) /\ PublishTimesOut(dEvent[d])

Dispatch(d) ==
  /\ \/ BrokerPublish(d)
     \/ /\ \/ \E e \in Events : DispatchClaim(d, e)
           \/ DispatchNothing(d)
           \/ DispatchFinish(d)
           \/ DispatchLeaseLost(d)
        /\ UNCHANGED natsVars
  /\ UNCHANGED mailboxVars

(* The sink of transfer is EventDelivery.publish: the inbox accepts the event
   and says so; it accepts it and the answer is lost; or it does not. *)
Sink(t) ==
  \/ \E ok \in BOOLEAN : TransferSunk(t, ok) /\ Accept(tMsg[t][1])
  \/ TransferSunk(t, FALSE) /\ UNCHANGED mailboxVars

Transfer(t) ==
  /\ \/ Sink(t)
     \/ /\ \/ \E m \in Messages : TransferFetch(t, m)
           \/ TransferTerm(t)
           \/ TransferVerdict(t)
        /\ UNCHANGED mailboxVars
  /\ UNCHANGED outboxVars

Deliver(l) ==
  /\ \/ \E r \in Receipts : claims[r] < MaxClaims /\ DeliverClaim(l, r)
     \/ DeliverNothing(l)
     \/ \E ok \in BOOLEAN : DeliverHandled(l, ok)
     \/ DeliverFinish(l)
     \/ DeliverLeaseLost(l)
  /\ UNCHANGED <<outboxVars, natsVars>>

Crash ==
  \/ \E d \in Dispatchers : DispatchAbandon(d) /\ UNCHANGED <<mailboxVars, natsVars>>
  \/ \E l \in Loops : DeliverAbandon(l) /\ UNCHANGED <<outboxVars, natsVars>>
  \/ \E t \in Transfers : TransferAbandon(t) /\ UNCHANGED <<outboxVars, mailboxVars>>

Network(e) ==
  /\ PublishArrives(e) \/ PublishNeverArrives(e)
  /\ UNCHANGED <<outboxVars, mailboxVars>>

StreamTime(m) == Redeliver(m) /\ UNCHANGED <<outboxVars, mailboxVars>>

Retention ==
  /\ (\E e \in Events : WindowEnds(e)) \/ (\E m \in Messages : Discard(m))
  /\ UNCHANGED <<outboxVars, mailboxVars>>

RowTime ==
  \/ \E e \in Events :
       /\ OutboxLeaseExpires(e) \/ OutboxBackoffEnds(e)
       /\ UNCHANGED <<mailboxVars, natsVars>>
  \/ \E r \in Receipts :
       /\ ReceiptLeaseExpires(r) \/ ReceiptBackoffEnds(r)
       /\ UNCHANGED <<outboxVars, natsVars>>

Maintenance ==
  \/ \E S \in OneOrAll({e \in Events : oState[e] = "dead"}) :
       OutboxRequeue(S) /\ UNCHANGED <<mailboxVars, natsVars>>
  \/ \E c \in Consumers :
       \E S \in OneOrAll({r \in Receipts : r[2] = c /\ rState[r] = "dead"}) :
          MailboxRequeue(c, S) /\ UNCHANGED <<outboxVars, natsVars>>
  \/ \E S \in SUBSET Events : OutboxPrune(S) /\ UNCHANGED <<mailboxVars, natsVars>>
  \/ \E S \in SUBSET Events : MailboxPrune(S) /\ UNCHANGED <<outboxVars, natsVars>>

Next ==
  \/ \E e \in Events : Enqueue(e) /\ UNCHANGED <<mailboxVars, natsVars>>
  \/ \E d \in Dispatchers : Dispatch(d)
  \/ \E t \in Transfers : Transfer(t)
  \/ \E l \in Loops : Deliver(l)
  \/ Crash
  \/ \E e \in Events : Network(e)
  \/ \E m \in Messages : StreamTime(m)
  \/ Retention
  \/ RowTime
  \/ Maintenance

Spec == Init /\ [][Next]_vars

(* The inbox accepts m from one of the loops and says so. *)
SinkAccepts(m) ==
  \E t \in Transfers :
    tMsg[t] = m /\ TransferSunk(t, TRUE) /\ Accept(m[1]) /\ UNCHANGED outboxVars

(* +ACK or +TERM of m arrives. *)
Settles(m) ==
  \E t \in Transfers :
    /\ tMsg[t] = m
    /\ (tPc[t] = "acking" /\ TransferVerdict(t)) \/ TransferTerm(t)
    /\ UNCHANGED <<outboxVars, mailboxVars>>

(* Some NatsEventWorker polls (poll) and the server redelivers.  Outages end: a
   message that is offered to the inbox again and again is accepted, and its
   +ACK or +TERM, sent again and again, arrives. *)
FairSpec ==
  /\ Spec
  /\ WF_vars(\E t \in Transfers : Transfer(t))
  /\ WF_vars(\E m \in Messages : StreamTime(m))
  /\ \A m \in Messages : SF_vars(SinkAccepts(m)) /\ SF_vars(Settles(m))

-----------------------------------------------------------------------------
(* Properties.                                                             *)

InStream(e) == \E m \in Messages : m[1] = e /\ sState[m] \in Waiting

(* A message is acknowledged only once the inbox holds its event, and no
   pruning, redelivery or late verdict changes that: what JetStream forgets
   the mailbox remembers or has delivered. *)
AckedWasAccepted ==
  \A m \in Messages : sState[m] = "acked" => Accepted(m[1])

(* The event can be decoded and the consumer stays within the stream's
   retention. *)
Steady(e) == e \notin world.poison /\ ~world.lagging

(* A durable receipt of Broker.publish is true when it is given: the event is
   in the stream, waiting to be transferred, or in the inbox, even when the
   stream discards what was not consumed.  A duplicate acknowledgement proves
   neither once the original has been discarded. *)
ReceiptMeansHeld ==
  [][\A d \in Dispatchers :
       dPc[d] = "publishing" /\ dPc'[d] = "finishing" /\ dOk'[d]
         /\ dEvent[d] \notin world.poison =>
         (InStream(dEvent[d]) \/ Accepted(dEvent[d]))']_vars

(* With a consumer that keeps up, an event the outbox has let go of, or is
   about to, is in the stream, waiting to be transferred, or in the inbox. *)
SentIsHeld ==
  /\ \A e \in committed :
       Steady(e) /\ oState[e] \in {"sent", "absent"} => InStream(e) \/ Accepted(e)
  /\ \A d \in Dispatchers :
       dPc[d] = "finishing" /\ dOk[d] /\ Steady(dEvent[d]) =>
         InStream(dEvent[d]) \/ Accepted(dEvent[d])

(* Only a message that cannot be decoded is terminated, and with a consumer
   that keeps up only a message that is done with is discarded. *)
SettledRightly ==
  \A m \in Messages :
    /\ sState[m] = "termed" => m[1] \in world.poison
    /\ sState[m] = "discarded" /\ Steady(m[1]) => Accepted(m[1])

(* A loop works on a message that was stored and acknowledges it only after
   the inbox has accepted the event; the duplicate window remembers a message
   that was stored. *)
StreamReferences ==
  /\ \A t \in Transfers : tPc[t] # "idle" => tMsg[t] \in Messages
  /\ \A t \in Transfers : tPc[t] # "idle" => sState[tMsg[t]] # "absent"
  /\ \A t \in Transfers : tPc[t] = "acking" => Accepted(tMsg[t][1])
  /\ \A e \in Events : window[e] # 0 => sState[<<e, window[e]>>] # "absent"

(* Nothing is on its way, stored or known to the inbox before its commit, and
   the inbox knows of an event for every consumer or for none. *)
AfterCommit ==
  /\ transit \subseteq committed
  /\ \A m \in Messages : sState[m] # "absent" => m[1] \in committed
  /\ \A r \in Receipts : Known(r) => r[1] \in committed /\ Accepted(r[1])

(* Types, what the outbox and the inbox keep true by themselves, and where an
   event is once the outbox or the stream has let go of it. *)
CustodyInv ==
  /\ OutboxInv
  /\ MailboxInv
  /\ NatsTypeOK
  /\ AckedWasAccepted
  /\ SentIsHeld
  /\ SettledRightly
  /\ StreamReferences
  /\ AfterCommit

(* Every stored message is eventually acknowledged, terminated or discarded:
   neither a refusing inbox nor a message that cannot be decoded keeps one in
   redelivery for ever. *)
StreamDrains ==
  \A m \in Messages :
    sState[m] # "absent" ~> sState[m] \in {"acked", "termed", "discarded"}

(* With a consumer that keeps up, outbox, stream, inbox and their workers
   implement AtLeastOnce.  A delivery without a receipt is owed while its row
   is pending or a message waits for transfer. *)
SteadyReceipts == {r \in Receipts : Steady(r[1])}

Owed ==
  {r \in SteadyReceipts :
     \/ rState[r] = "pending"
     \/ ~Known(r) /\ (oState[r[1]] = "pending" \/ InStream(r[1]))}
Parked ==
  {r \in SteadyReceipts :
     \/ rState[r] = "dead"
     \/ ~Known(r) /\ oState[r[1]] = "dead" /\ ~InStream(r[1])}
Done == handled \cap SteadyReceipts

ALO == INSTANCE AtLeastOnce WITH owed <- Owed, parked <- Parked, done <- Done

(* Every step of the NATS pipeline is a step AtLeastOnce allows. *)
DeliversAtLeastOnce == ALO!Spec

=============================================================================
