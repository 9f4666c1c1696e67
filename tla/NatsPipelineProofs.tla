------------------------- MODULE NatsPipelineProofs -------------------------
(***************************************************************************)
(* Proofs about NatsPipeline, for any number of events, consumers,         *)
(* dispatchers, polling and delivery loops, copies of a message and        *)
(* attempts, whatever decodes and whether or not the consumer keeps up.    *)
(***************************************************************************)
EXTENDS NatsPipeline, QueueProofs, TLAPS

-----------------------------------------------------------------------------
(* Who takes part in a step.                                               *)

(* The stream, the network and the polling loops by themselves. *)
StreamStep ==
  \/ \E t \in Transfers, m \in Messages : TransferFetch(t, m)
  \/ \E t \in Transfers : TransferTerm(t)
  \/ \E t \in Transfers : TransferSunk(t, FALSE)
  \/ \E t \in Transfers : TransferVerdict(t)
  \/ \E t \in Transfers : TransferAbandon(t)
  \/ \E e \in Events : PublishArrives(e)
  \/ \E e \in Events : PublishNeverArrives(e)
  \/ \E m \in Messages : Redeliver(m)
  \/ \E e \in Events : WindowEnds(e)
  \/ \E m \in Messages : Discard(m)

(* A publish that reaches the stream or the network. *)
PublishStep ==
  \E d \in Dispatchers :
    /\ dPc[d] = "publishing"
    /\ dEvent[d] \in committed
    /\ \/ DispatchPublished(d, TRUE) /\ PublishSucceeds(dEvent[d])
       \/ DispatchPublished(d, FALSE) /\ PublishTimesOut(dEvent[d])

(* The sink's accept transaction commits. *)
SinkStep ==
  \E t \in Transfers, ok \in BOOLEAN :
    /\ TransferSunk(t, ok)
    /\ tMsg[t] \in Messages
    /\ tMsg[t][1] \in committed
    /\ Accept(tMsg[t][1])

(* A step of the pipeline is a step of one part alone, a publish, in which
   outbox and stream take part, or a sink, in which stream and inbox do. *)
LEMMA NextIsStep ==
  ASSUME CustodyInv, [Next]_vars
  PROVE  \/ OutboxStep /\ UNCHANGED <<mailboxVars, natsVars>>
         \/ DeliveryStep /\ UNCHANGED <<outboxVars, natsVars>>
         \/ StreamStep /\ UNCHANGED <<outboxVars, mailboxVars>>
         \/ PublishStep /\ UNCHANGED mailboxVars
         \/ SinkStep /\ UNCHANGED outboxVars
  <1> DEFINE Goal == \/ OutboxStep /\ UNCHANGED <<mailboxVars, natsVars>>
                     \/ DeliveryStep /\ UNCHANGED <<outboxVars, natsVars>>
                     \/ StreamStep /\ UNCHANGED <<outboxVars, mailboxVars>>
                     \/ PublishStep /\ UNCHANGED mailboxVars
                     \/ SinkStep /\ UNCHANGED outboxVars
  <1> USE DEF OutboxStep, DeliveryStep, StreamStep
  <1>1. ASSUME NEW d \in Dispatchers, Dispatch(d) PROVE Goal
    <2>1. dPc[d] = "publishing" => dEvent[d] \in committed
      BY DEF CustodyInv, OutboxInv, OutboxLeases
    <2>2. TRUE \in BOOLEAN /\ FALSE \in BOOLEAN
      OBVIOUS
    <2>3. CASE DispatchPublished(d, TRUE) /\ PublishSucceeds(dEvent[d])
      BY <1>1, <2>1, <2>3 DEF Dispatch, DispatchPublished, PublishStep
    <2>4. CASE DispatchPublished(d, FALSE) /\ PublishRefused
      BY <1>1, <2>2, <2>4 DEF Dispatch, PublishRefused
    <2>5. CASE DispatchPublished(d, FALSE) /\ PublishTimesOut(dEvent[d])
      BY <1>1, <2>1, <2>5 DEF Dispatch, DispatchPublished, PublishStep
    <2> QED
      BY <1>1, <2>3, <2>4, <2>5, DispatcherReturnIsStep DEF Dispatch, BrokerPublish
  <1>2. ASSUME NEW t \in Transfers, Transfer(t) PROVE Goal
    <2>1. CASE Sink(t)
      <3>1. CASE TransferSunk(t, FALSE) /\ UNCHANGED mailboxVars
        BY <1>2, <3>1 DEF Transfer
      <3>2. ASSUME NEW ok \in BOOLEAN, TransferSunk(t, ok), Accept(tMsg[t][1])
            PROVE  Goal
        <4>1. tMsg[t] \in Messages /\ tMsg[t][1] \in committed
          BY <3>2 DEF TransferSunk, CustodyInv, StreamReferences, AfterCommit
        <4> QED
          BY <1>2, <3>2, <4>1 DEF Transfer, SinkStep
      <3> QED
        BY <2>1, <3>1, <3>2 DEF Sink
    <2> QED
      BY <1>2, <2>1 DEF Transfer
  <1>3. ASSUME NEW l \in Loops, Deliver(l) PROVE Goal
    BY <1>3, LoopReturnIsStep DEF Deliver, CustodyInv, MailboxInv
  <1>4. CASE Crash
    BY <1>4, DispatcherReturnIsStep, LoopReturnIsStep DEF Crash, CustodyInv, MailboxInv
  <1>5. ASSUME NEW e \in Events, Network(e) PROVE Goal
    BY <1>5 DEF Network
  <1>6. ASSUME NEW m \in Messages, StreamTime(m) PROVE Goal
    BY <1>6 DEF StreamTime
  <1>7. CASE Retention
    BY <1>7 DEF Retention
  <1>8. CASE RowTime
    BY <1>8 DEF RowTime
  <1>9. CASE Maintenance
    <2>1. ASSUME NEW S \in OneOrAll({e \in Events : oState[e] = "dead"})
          PROVE  S \in SUBSET Events
      BY DEF OneOrAll
    <2>2. ASSUME NEW c \in Consumers,
                 NEW S \in OneOrAll({r \in Receipts : r[2] = c /\ rState[r] = "dead"})
          PROVE  S \in SUBSET Receipts
      BY DEF OneOrAll
    <2> QED
      BY <1>9, <2>1, <2>2 DEF Maintenance
  <1>10. CASE UNCHANGED vars
    BY <1>10 DEF vars
  <1>11. ASSUME NEW e \in Events, Enqueue(e), UNCHANGED <<mailboxVars, natsVars>>
         PROVE  Goal
    BY <1>11
  <1> QED
    BY <1>1, <1>2, <1>3, <1>4, <1>5, <1>6, <1>7, <1>8, <1>9, <1>10, <1>11 DEF Next

(* So outbox and mailbox take one of their own steps, or none. *)
LEMMA NextIsSteps ==
  ASSUME CustodyInv, [Next]_vars
  PROVE  OutboxStep /\ MailboxStep
  <1>1. CASE UNCHANGED mailboxVars
    BY <1>1, NextIsStep DEF MailboxStep, DeliveryStep, OutboxStep, PublishStep, SinkStep
  <1>2. CASE DeliveryStep /\ UNCHANGED outboxVars
    BY <1>2 DEF MailboxStep, OutboxStep
  <1>3. CASE SinkStep /\ UNCHANGED outboxVars
    BY <1>3, AcceptIsStep DEF SinkStep, OutboxStep, CustodyInv, OutboxInv, OutboxTypeOK
  <1> QED
    BY <1>1, <1>2, <1>3, NextIsStep

-----------------------------------------------------------------------------
(* The stream.                                                             *)

(* What may become of a message in one step. *)
MessageMoves(m) ==
  \/ sState'[m] = sState[m]
  \/ sState[m] = "absent" /\ sState'[m] = "ready" /\ m[1] \in committed
  \/ sState[m] \in Waiting /\ sState'[m] \in Waiting
  \/ sState[m] \in Waiting /\ sState'[m] = "acked" /\ Accepted(m[1])
  \/ sState[m] \in Waiting /\ sState'[m] = "termed" /\ m[1] \in world.poison
  \/ sState[m] \in {"acked", "termed"} /\ sState'[m] = "discarded"
  \/ sState[m] \in Waiting /\ sState'[m] = "discarded" /\ world.lagging

(* A stored copy is a new message of the event, and the window knows it. *)
LEMMA StoreCopyStores ==
  ASSUME NatsTypeOK, NEW e \in Events, StoreCopy(e)
  PROVE  \E k \in 1..MaxCopies :
           /\ <<e, k>> \in Messages
           /\ sState[<<e, k>>] = "absent"
           /\ sState' = [sState EXCEPT ![<<e, k>>] = "ready"]
           /\ window' = [window EXCEPT ![e] = k]
  <1>1. \A k \in 1..MaxCopies : <<e, k>> \in Messages
    BY DEF Messages
  <1> QED
    BY <1>1 DEF StoreCopy

(* A verdict changes at most the loop's message, from waiting. *)
LEMMA VerdictMoves ==
  ASSUME NatsTypeOK, NEW t \in Transfers, tMsg[t] \in Messages, NEW s,
         Verdict(t, s), NEW m \in Messages
  PROVE  \/ sState'[m] = sState[m]
         \/ m = tMsg[t] /\ sState[m] \in Waiting /\ sState'[m] = s
  BY DEF Verdict, NatsTypeOK

(* Messages move only so, and the world stays as it is. *)
LEMMA MessagesMove ==
  ASSUME CustodyInv, [Next]_vars
  PROVE  /\ world' = world
         /\ \A m \in Messages : MessageMoves(m)
  <1> DEFINE Goal == world' = world /\ \A m \in Messages : MessageMoves(m)
  <1>0. NatsTypeOK /\ committed \in SUBSET Events
    BY DEF CustodyInv, OutboxInv, OutboxTypeOK
  <1>1. ASSUME UNCHANGED <<world, sState>> PROVE Goal
    BY <1>1 DEF MessageMoves
  <1>2. ASSUME NEW e \in Events, e \in committed, StoreCopy(e), UNCHANGED world
        PROVE  Goal
    <2>1. PICK k \in 1..MaxCopies :
            /\ <<e, k>> \in Messages
            /\ sState[<<e, k>>] = "absent"
            /\ sState' = [sState EXCEPT ![<<e, k>>] = "ready"]
      BY <1>0, <1>2, StoreCopyStores
    <2>2. <<e, k>>[1] = e
      OBVIOUS
    <2>3. ASSUME NEW m \in Messages PROVE MessageMoves(m)
      <3>1. CASE m = <<e, k>>
        BY <1>0, <1>2, <2>1, <2>2, <3>1 DEF MessageMoves, NatsTypeOK
      <3>2. CASE m # <<e, k>>
        BY <1>0, <2>1, <3>2 DEF MessageMoves, NatsTypeOK
      <3> QED
        BY <3>1, <3>2
    <2> QED
      BY <1>2, <2>3
  <1>3. ASSUME NEW t \in Transfers, NEW m \in Messages, TransferFetch(t, m) PROVE Goal
    BY <1>0, <1>3 DEF TransferFetch, MessageMoves, NatsTypeOK, Waiting
  <1>4. ASSUME NEW t \in Transfers, TransferTerm(t) PROVE Goal
    <2>1. tMsg[t] \in Messages /\ tMsg[t][1] \in world.poison /\ Verdict(t, "termed")
      BY <1>4 DEF TransferTerm, CustodyInv, StreamReferences
    <2> QED
      BY <1>0, <1>4, <2>1, VerdictMoves DEF TransferTerm, MessageMoves
  <1>5. ASSUME NEW t \in Transfers, TransferVerdict(t) PROVE Goal
    <2>1. tMsg[t] \in Messages /\ (tPc[t] = "acking" => Accepted(tMsg[t][1]))
      BY <1>5 DEF TransferVerdict, CustodyInv, StreamReferences
    <2>2. CASE tPc[t] = "acking"
      <3>1. Verdict(t, "acked")
        BY <1>5, <2>2 DEF TransferVerdict
      <3> QED
        BY <1>0, <1>5, <2>1, <2>2, <3>1, VerdictMoves DEF TransferVerdict, MessageMoves
    <2>3. CASE tPc[t] # "acking"
      <3>1. Verdict(t, "delayed")
        BY <1>5, <2>3 DEF TransferVerdict
      <3> QED
        BY <1>0, <1>5, <2>1, <3>1, VerdictMoves DEF TransferVerdict, MessageMoves, Waiting
    <2> QED
      BY <2>2, <2>3
  <1>6. ASSUME NEW e \in Events, PublishArrives(e) PROVE Goal
    <2>1. e \in committed
      BY <1>6 DEF PublishArrives, CustodyInv, AfterCommit
    <2> QED
      BY <1>1, <1>2, <1>6, <2>1 DEF PublishArrives
  <1>7. ASSUME NEW m \in Messages, Redeliver(m) PROVE Goal
    BY <1>0, <1>7 DEF Redeliver, MessageMoves, NatsTypeOK, Waiting
  <1>8. ASSUME NEW m \in Messages, Discard(m) PROVE Goal
    BY <1>0, <1>8 DEF Discard, MessageMoves, NatsTypeOK
  <1>9. CASE StreamStep
    BY <1>1, <1>3, <1>4, <1>5, <1>6, <1>7, <1>8, <1>9 DEF StreamStep, TransferSunk,
       TransferAbandon, PublishNeverArrives, WindowEnds, streamVars
  <1>10. CASE PublishStep
    <2>1. PICK d \in Dispatchers :
            /\ dEvent[d] \in committed
            /\ PublishSucceeds(dEvent[d]) \/ PublishTimesOut(dEvent[d])
      BY <1>10 DEF PublishStep
    <2>2. dEvent[d] \in Events
      BY <1>0, <2>1
    <2> QED
      BY <1>1, <1>2, <2>1, <2>2 DEF PublishSucceeds, PublishTimesOut
  <1>11. CASE SinkStep
    BY <1>1, <1>11 DEF SinkStep, TransferSunk, streamVars
  <1> QED
    BY <1>1, <1>9, <1>10, <1>11, NextIsStep DEF natsVars, streamVars

Held(e) == InStream(e) \/ Accepted(e)

(* What the stream or the inbox holds they go on holding between them, as
   long as the event decodes and the consumer keeps up. *)
LEMMA HeldStable ==
  ASSUME CustodyInv, [Next]_vars, NEW e \in Events, Steady(e), Held(e)
  PROVE  Held(e)'
  <1>1. Accepted(e) => Accepted(e)'
    BY NextIsSteps, AcceptedStable DEF CustodyInv
  <1>2. CASE Accepted(e)
    BY <1>1, <1>2 DEF Held
  <1>3. CASE ~Accepted(e)
    <2>1. PICK m \in Messages : m[1] = e /\ sState[m] \in Waiting
      BY <1>3 DEF Held, InStream
    <2>2. MessageMoves(m)
      BY MessagesMove
    <2>3. sState'[m] \in Waiting
      BY <1>3, <2>1, <2>2 DEF MessageMoves, Steady, Waiting
    <2> QED
      BY <2>1, <2>3 DEF Held, InStream
  <1> QED
    BY <1>2, <1>3

(* A durable receipt of Broker.publish says the truth: the copy has just been
   stored, or the one it duplicates is waiting or was acknowledged. *)
LEMMA PublishedIsHeld ==
  ASSUME CustodyInv, NEW e \in Events, e \notin world.poison, PublishSucceeds(e),
         UNCHANGED mailboxVars
  PROVE  Held(e)'
  <1>0. NatsTypeOK
    BY DEF CustodyInv
  <1>1. CASE StoreCopy(e)
    <2>1. PICK k \in 1..MaxCopies :
            /\ <<e, k>> \in Messages
            /\ sState' = [sState EXCEPT ![<<e, k>>] = "ready"]
      BY <1>0, <1>1, StoreCopyStores
    <2>2. sState'[<<e, k>>] \in Waiting /\ <<e, k>>[1] = e
      BY <1>0, <2>1 DEF NatsTypeOK, Waiting
    <2> QED
      BY <2>1, <2>2 DEF Held, InStream
  <1>2. CASE window[e] # 0 /\ OriginalStored(e) /\ UNCHANGED sState
    <2> DEFINE m == <<e, window[e]>>
    <2>1. m \in Messages /\ m[1] = e
      BY <1>0, <1>2, NatsAssumption DEF NatsTypeOK, Messages
    <2>2. sState[m] \notin {"absent", "discarded"} /\ sState[m] \in MessageStates
      BY <1>0, <1>2, <2>1 DEF OriginalStored, CustodyInv, StreamReferences, NatsTypeOK
    <2>3. sState[m] # "termed"
      BY <2>1 DEF CustodyInv, SettledRightly
    <2>4. sState[m] = "acked" => Accepted(e)
      BY <2>1 DEF CustodyInv, AckedWasAccepted
    <2>5. CASE sState[m] \in Waiting
      BY <1>2, <2>1, <2>5 DEF Held, InStream
    <2>6. CASE Accepted(e)
      <3>1. UNCHANGED <<rState, handled>>
        BY DEF mailboxVars, receiptRows
      <3> QED
        BY <2>6, <3>1 DEF Held, Accepted, Known
    <2> HIDE DEF m
    <2> QED
      BY <2>2, <2>3, <2>4, <2>5, <2>6 DEF MessageStates, Waiting
  <1> QED
    BY <1>1, <1>2 DEF PublishSucceeds

-----------------------------------------------------------------------------
(* The invariant, conjunct by conjunct.                                    *)

(* Messages, windows and polling loops stay well formed. *)
LEMMA StreamTypes ==
  ASSUME CustodyInv, [Next]_vars
  PROVE  NatsTypeOK'
  <1> USE NatsAssumption DEF NatsTypeOK, MessageStates, Waiting
  <1>0. NatsTypeOK /\ committed \in SUBSET Events
    BY DEF CustodyInv, OutboxInv, OutboxTypeOK
  <1>1. ASSUME NEW t \in Transfers, TransferReturns(t)
        PROVE  /\ tPc' \in [Transfers -> {"idle", "received", "acking", "naking"}]
               /\ tMsg' \in [Transfers -> Messages \cup {None}]
    BY <1>0, <1>1 DEF TransferReturns
  <1>2. ASSUME NEW t \in Transfers, NEW s \in MessageStates, Verdict(t, s),
               tMsg[t] \in Messages
        PROVE  sState' \in [Messages -> MessageStates]
    BY <1>0, <1>2 DEF Verdict
  <1>3. ASSUME NEW e \in Events, StoreCopy(e)
        PROVE  /\ sState' \in [Messages -> MessageStates]
               /\ window' \in [Events -> 0..MaxCopies]
    <2>1. PICK k \in 1..MaxCopies :
            /\ sState' = [sState EXCEPT ![<<e, k>>] = "ready"]
            /\ window' = [window EXCEPT ![e] = k]
      BY <1>0, <1>3, StoreCopyStores
    <2>2. k \in 0..MaxCopies
      OBVIOUS
    <2> QED
      BY <1>0, <2>1, <2>2
  <1>4. ASSUME NEW t \in Transfers, NEW m \in Messages, TransferFetch(t, m)
        PROVE  NatsTypeOK'
    BY <1>0, <1>4 DEF TransferFetch
  <1>5. ASSUME NEW t \in Transfers, TransferTerm(t) \/ TransferVerdict(t)
        PROVE  NatsTypeOK'
    <2>1. tMsg[t] \in Messages
      BY <1>5 DEF TransferTerm, TransferVerdict, CustodyInv, StreamReferences
    <2>2. \E s \in MessageStates : Verdict(t, s)
      BY <1>5 DEF TransferTerm, TransferVerdict
    <2>3. sState' \in [Messages -> MessageStates]
      BY <1>2, <2>1, <2>2
    <2> QED
      BY <1>0, <1>1, <1>5, <2>3 DEF TransferTerm, TransferVerdict
  <1>6. ASSUME NEW t \in Transfers, NEW ok \in BOOLEAN, TransferSunk(t, ok)
        PROVE  NatsTypeOK'
    BY <1>0, <1>6 DEF TransferSunk, streamVars
  <1>7. ASSUME NEW t \in Transfers, TransferAbandon(t)
        PROVE  NatsTypeOK'
    BY <1>0, <1>1, <1>7 DEF TransferAbandon, streamVars
  <1>8. ASSUME NEW e \in Events, PublishArrives(e)
        PROVE  NatsTypeOK'
    BY <1>0, <1>3, <1>8 DEF PublishArrives, transferVars
  <1>9. ASSUME NEW e \in Events, PublishNeverArrives(e) \/ WindowEnds(e)
        PROVE  NatsTypeOK'
    BY <1>0, <1>9 DEF PublishNeverArrives, WindowEnds, transferVars
  <1>10. ASSUME NEW m \in Messages, Redeliver(m) \/ Discard(m)
         PROVE  NatsTypeOK'
    BY <1>0, <1>10 DEF Redeliver, Discard, transferVars
  <1>11. CASE StreamStep
    BY <1>4, <1>5, <1>6, <1>7, <1>8, <1>9, <1>10, <1>11 DEF StreamStep
  <1>12. CASE PublishStep
    <2>1. PICK d \in Dispatchers :
            /\ dEvent[d] \in committed
            /\ PublishSucceeds(dEvent[d]) \/ PublishTimesOut(dEvent[d])
      BY <1>12 DEF PublishStep
    <2>2. dEvent[d] \in Events
      BY <1>0, <2>1
    <2> QED
      BY <1>0, <1>3, <2>1, <2>2 DEF PublishSucceeds, PublishTimesOut, transferVars
  <1>13. CASE SinkStep
    BY <1>6, <1>13 DEF SinkStep
  <1>14. CASE UNCHANGED natsVars
    BY <1>0, <1>14 DEF natsVars, streamVars, transferVars
  <1> QED
    BY <1>11, <1>12, <1>13, <1>14, NextIsStep

(* Loops and windows refer to stored messages, and a loop acknowledges what
   the inbox has accepted. *)
LEMMA ReferencesStay ==
  ASSUME CustodyInv, [Next]_vars
  PROVE  StreamReferences'
  <1>0. NatsTypeOK /\ StreamReferences /\ committed \in SUBSET Events
    BY DEF CustodyInv, OutboxInv, OutboxTypeOK
  <1>1. \A m \in Messages : sState[m] # "absent" => sState'[m] # "absent"
    BY MessagesMove DEF MessageMoves, Waiting
  <1> DEFINE AcceptedNext(e) == \A r \in Receipts : r[1] = e => Known(r)'
  <1>2. \A m \in Messages : Accepted(m[1]) => AcceptedNext(m[1])
    <2>1. \A m \in Messages : m[1] \in Events
      BY DEF Messages
    <2>2. \A e \in Events : Accepted(e) => Accepted(e)'
      BY NextIsSteps, AcceptedStable DEF CustodyInv
    <2> QED
      BY <2>1, <2>2 DEF Accepted
  <1> DEFINE Loops1 ==
        \A t \in Transfers :
          tPc'[t] # "idle" =>
            /\ tMsg'[t] \in Messages
            /\ sState'[tMsg'[t]] # "absent"
            /\ tPc'[t] = "acking" => AcceptedNext(tMsg'[t][1])
  <1> DEFINE Windows1 ==
        \A e \in Events : window'[e] # 0 => sState'[<<e, window'[e]>>] # "absent"
  <1> HIDE DEF AcceptedNext
  <1>3. Loops1
    <2>1. ASSUME UNCHANGED transferVars PROVE Loops1
      BY <1>0, <1>1, <1>2, <2>1 DEF transferVars, StreamReferences, NatsTypeOK
    <2>2. ASSUME NEW x \in Transfers, TransferReturns(x) PROVE Loops1
      BY <1>0, <1>1, <1>2, <2>2 DEF TransferReturns, StreamReferences, NatsTypeOK
    <2>3. ASSUME NEW x \in Transfers, NEW m \in Messages, TransferFetch(x, m) PROVE Loops1
      BY <1>0, <1>1, <1>2, <2>3 DEF TransferFetch, StreamReferences, NatsTypeOK
    <2>4. ASSUME NEW x \in Transfers, NEW ok \in BOOLEAN, TransferSunk(x, ok),
                 ok => AcceptedNext(tMsg[x][1])
          PROVE  Loops1
      BY <1>0, <1>1, <1>2, <2>4 DEF TransferSunk, StreamReferences, NatsTypeOK
    <2>5. CASE StreamStep
      BY <2>1, <2>2, <2>3, <2>4, <2>5 DEF StreamStep, TransferTerm, TransferVerdict,
         TransferAbandon, PublishArrives, PublishNeverArrives, Redeliver, WindowEnds,
         Discard
    <2>6. CASE PublishStep
      BY <2>1, <2>6 DEF PublishStep, PublishSucceeds, PublishTimesOut
    <2>7. CASE SinkStep
      <3>1. PICK t \in Transfers, ok \in BOOLEAN :
              TransferSunk(t, ok) /\ tMsg[t][1] \in committed /\ Accept(tMsg[t][1])
        BY <2>7 DEF SinkStep
      <3>2. ASSUME NEW e \in Events, Accept(e) PROVE AcceptedNext(e)
        BY <3>2, AcceptAccepts DEF CustodyInv, Accepted, AcceptedNext
      <3>3. AcceptedNext(tMsg[t][1])
        BY <1>0, <3>1, <3>2
      <3> QED
        BY <2>4, <3>1, <3>3
    <2> QED
      BY <2>1, <2>5, <2>6, <2>7, NextIsStep DEF natsVars
  <1>4. Windows1
    <2>1. ASSUME UNCHANGED window PROVE Windows1
      <3>1. \A e \in Events : window[e] # 0 => <<e, window[e]>> \in Messages
        BY <1>0, NatsAssumption DEF NatsTypeOK, Messages
      <3> QED
        BY <1>0, <1>1, <2>1, <3>1 DEF StreamReferences
    <2>2. ASSUME NEW x \in Events, StoreCopy(x) PROVE Windows1
      <3>1. PICK k \in 1..MaxCopies :
              /\ <<x, k>> \in Messages
              /\ sState' = [sState EXCEPT ![<<x, k>>] = "ready"]
              /\ window' = [window EXCEPT ![x] = k]
        BY <1>0, <2>2, StoreCopyStores
      <3>2. \A e \in Events : window[e] # 0 => <<e, window[e]>> \in Messages
        BY <1>0, NatsAssumption DEF NatsTypeOK, Messages
      <3> QED
        BY <1>0, <1>1, <3>1, <3>2 DEF StreamReferences, NatsTypeOK
    <2>3. ASSUME NEW x \in Events, WindowEnds(x) PROVE Windows1
      BY <1>0, <2>3 DEF WindowEnds, StreamReferences, NatsTypeOK
    <2>4. CASE StreamStep
      BY <2>1, <2>2, <2>3, <2>4 DEF StreamStep, TransferFetch, TransferTerm, TransferSunk,
         TransferVerdict, TransferAbandon, PublishArrives, PublishNeverArrives, Redeliver,
         Discard, streamVars
    <2>5. CASE PublishStep
      <3>1. PICK d \in Dispatchers :
              /\ dEvent[d] \in committed
              /\ PublishSucceeds(dEvent[d]) \/ PublishTimesOut(dEvent[d])
        BY <2>5 DEF PublishStep
      <3> QED
        BY <1>0, <2>1, <2>2, <3>1 DEF PublishSucceeds, PublishTimesOut
    <2>6. CASE SinkStep
      BY <2>1, <2>6 DEF SinkStep, TransferSunk, streamVars
    <2> QED
      BY <2>1, <2>4, <2>5, <2>6, NextIsStep DEF natsVars, streamVars
  <1> QED
    BY <1>3, <1>4 DEF StreamReferences, Accepted, AcceptedNext

(* A dispatcher comes to have a durable receipt only by Broker.publish. *)
LEMMA ReceiptIsPublished ==
  ASSUME CustodyInv, [Next]_vars, NEW d \in Dispatchers,
         dPc[d] # "finishing", dPc'[d] = "finishing", dOk'[d]
  PROVE  /\ DispatchPublished(d, TRUE)
         /\ PublishSucceeds(dEvent[d])
         /\ UNCHANGED mailboxVars
         /\ dEvent[d] \in Events
         /\ dEvent' = dEvent
  <1> USE DEF CustodyInv, OutboxInv, OutboxTypeOK
  <1>1. \E x \in Dispatchers : Dispatch(x)
    <2>1. ~UNCHANGED dPc
      OBVIOUS
    <2>2. ASSUME NEW x \in Dispatchers, DispatchAbandon(x) PROVE FALSE
      BY <2>2 DEF DispatchAbandon, DispatchReturns
    <2> QED
      BY <2>1, <2>2 DEF Next, Enqueue, Transfer, Deliver, Crash, Network, StreamTime,
         Retention, RowTime, OutboxLeaseExpires, OutboxBackoffEnds, Maintenance,
         OutboxRequeue, OutboxPrune, vars, outboxVars, dispatchVars
  <1>2. PICK x \in Dispatchers : Dispatch(x)
    BY <1>1
  <1>3. BrokerPublish(x) /\ UNCHANGED mailboxVars
    BY <1>2 DEF Dispatch, DispatchClaim, DispatchNothing, DispatchFinish,
       DispatchLeaseLost, DispatchReturns, dispatchVars
  <1>4. x = d
    BY <1>3 DEF BrokerPublish, DispatchPublished
  <1>5. ~DispatchPublished(d, FALSE)
    BY DEF DispatchPublished
  <1>6. DispatchPublished(d, TRUE) /\ PublishSucceeds(dEvent[d])
    BY <1>3, <1>4, <1>5 DEF BrokerPublish
  <1>7. dEvent[d] \in committed /\ dEvent' = dEvent
    BY <1>6 DEF DispatchPublished, OutboxLeases
  <1> QED
    BY <1>3, <1>6, <1>7

(* An event leaves the outbox only to be held by the stream or the inbox. *)
LEMMA SentStaysHeld ==
  ASSUME CustodyInv, [Next]_vars
  PROVE  SentIsHeld'
  <1>1. OutboxStep /\ world' = world
    BY NextIsSteps, MessagesMove
  <1>2. \A e \in Events : Steady(e) /\ Held(e) => Held(e)'
    BY HeldStable
  <1>3. \A e \in Events : Steady(e)' <=> Steady(e)
    BY <1>1 DEF Steady
  <1> USE DEF CustodyInv, OutboxInv, OutboxTypeOK
  <1>4. ASSUME NEW e \in Events, e \in committed', Steady(e), oState'[e] \in {"sent", "absent"}
        PROVE  Held(e)'
    <2>1. CASE e \in committed /\ oState[e] \in {"sent", "absent"}
      BY <1>2, <1>4, <2>1 DEF SentIsHeld, Held
    <2>2. CASE ~(e \in committed /\ oState[e] \in {"sent", "absent"})
      <3>1. ASSUME NEW x \in Events, Enqueue(x) PROVE FALSE
        BY <1>4, <2>2, <3>1 DEF Enqueue
      <3>2. ASSUME NEW S \in SUBSET Events, OutboxRequeue(S) PROVE FALSE
        BY <1>4, <2>2, <3>2 DEF OutboxRequeue
      <3>3. RowSinks(e)
        BY <1>1, <3>1, <3>2, OutboxEffect
      <3>4. e \notin committed => oState[e] = "absent"
        BY DEF OutboxAbsent
      <3>5. CASE e \notin committed
        BY <1>1, <1>4, <3>1, <3>5 DEF OutboxStep, DispatchClaim, DispatchNothing,
           DispatchPublished, DispatchFinish, DispatchLeaseLost, DispatchAbandon,
           OutboxLeaseExpires, OutboxBackoffEnds, OutboxRequeue, OutboxPrune,
           outboxVars, outboxRows
      <3>6. CASE e \in committed
        <4>1. \E d \in Dispatchers : dPc[d] = "finishing" /\ dOk[d] /\ dEvent[d] = e
          BY <1>4, <2>2, <3>3, <3>6 DEF RowSinks
        <4> QED
          BY <1>2, <1>4, <4>1 DEF SentIsHeld, Held
      <3> QED
        BY <3>5, <3>6
    <2> QED
      BY <2>1, <2>2
  <1>5. ASSUME NEW d \in Dispatchers, dPc'[d] = "finishing", dOk'[d], NEW e \in Events,
               dEvent'[d] = e, Steady(e)
        PROVE  Held(e)'
    <2>1. CASE dPc[d] = "finishing"
      <3>1. dEvent'[d] = dEvent[d] /\ dOk'[d] = dOk[d]
        BY <1>1, <1>5, <2>1, FinishingUnchanged
      <3> QED
        BY <1>2, <1>5, <2>1, <3>1 DEF SentIsHeld, Held
    <2>2. CASE dPc[d] # "finishing"
      <3>1. PublishSucceeds(e) /\ UNCHANGED mailboxVars
        BY <1>5, <2>2, ReceiptIsPublished
      <3> QED
        BY <1>5, <3>1, PublishedIsHeld DEF Steady
    <2> QED
      BY <2>1, <2>2
  <1>6. OutboxInv'
    BY <1>1, OutboxPreserved
  <1>7. committed' \subseteq Events
    BY <1>6
  <1>8. \A d \in Dispatchers : dPc'[d] # "idle" => dEvent'[d] \in Events
    BY <1>6 DEF OutboxLeases
  <1>9. ASSUME NEW e \in Events, Held(e)' PROVE (InStream(e) \/ Accepted(e))'
    BY <1>9 DEF Held
  <1>10. \A e \in committed' :
           Steady(e)' /\ oState'[e] \in {"sent", "absent"} => (InStream(e) \/ Accepted(e))'
    BY <1>3, <1>4, <1>7, <1>9
  <1>11. \A d \in Dispatchers, e \in Events :
           dPc'[d] = "finishing" /\ dOk'[d] /\ dEvent'[d] = e /\ Steady(e)' =>
             (InStream(e) \/ Accepted(e))'
    BY <1>3, <1>5, <1>9
  <1> QED
    BY <1>8, <1>10, <1>11 DEF SentIsHeld, Steady, InStream, Accepted

(* What the stream lets go of is settled rightly. *)
LEMMA SettledStaysRight ==
  ASSUME CustodyInv, [Next]_vars
  PROVE  AckedWasAccepted' /\ SettledRightly'
  <1>1. world' = world /\ \A m \in Messages : MessageMoves(m)
    BY MessagesMove
  <1>2. \A m \in Messages : Accepted(m[1]) => Accepted(m[1])'
    <2>1. \A m \in Messages : m[1] \in Events
      BY DEF Messages
    <2> QED
      BY <2>1, NextIsSteps, AcceptedStable DEF CustodyInv
  <1> USE DEF CustodyInv, MessageMoves, Waiting
  <1>3. AckedWasAccepted'
    BY <1>1, <1>2 DEF AckedWasAccepted
  <1>4. \A m \in Messages : sState'[m] = "termed" => m[1] \in world.poison
    BY <1>1 DEF SettledRightly
  <1>5. \A m \in Messages :
          sState'[m] = "discarded" /\ Steady(m[1]) => Accepted(m[1])'
    BY <1>1, <1>2 DEF SettledRightly, AckedWasAccepted, Steady
  <1> QED
    BY <1>1, <1>3, <1>4, <1>5 DEF SettledRightly, Steady

(* Nothing moves before its commit, and the inbox learns of an event for all
   consumers at once. *)
LEMMA NothingBeforeCommit ==
  ASSUME CustodyInv, [Next]_vars
  PROVE  AfterCommit'
  <1>1. OutboxStep /\ MailboxStep
    BY NextIsSteps
  <1>2. committed \subseteq committed'
    BY <1>1, CommittedStable
  <1>3. \A e \in Events : Accepted(e) => Accepted(e)'
    BY <1>1, AcceptedStable DEF CustodyInv
  <1> USE DEF CustodyInv
  <1>4. transit' \subseteq committed'
    <2>1. transit' \subseteq committed
      BY NextIsStep DEF StreamStep, TransferFetch, TransferTerm, TransferSunk,
         TransferVerdict, TransferAbandon, PublishArrives, PublishNeverArrives,
         Redeliver, WindowEnds, Discard, PublishStep, PublishSucceeds, PublishTimesOut,
         SinkStep, natsVars, streamVars, AfterCommit
    <2> QED
      BY <1>2, <2>1
  <1>5. \A m \in Messages : sState'[m] # "absent" => m[1] \in committed'
    BY <1>2, MessagesMove DEF MessageMoves, Waiting, AfterCommit
  <1>6. ASSUME NEW r \in Receipts, Known(r)'
        PROVE  r[1] \in committed' /\ Accepted(r[1])'
    <2>1. r[1] \in Events
      BY DEF Receipts
    <2>2. CASE Known(r)
      BY <1>2, <1>3, <2>1, <2>2 DEF AfterCommit
    <2>3. CASE ~Known(r)
      <3>1. ~DeliveryStep
        BY <1>6, <2>3, DeliveryLearnsNothing
      <3>2. PICK e \in committed : Accept(e)
        BY <3>1, NextIsStep DEF DeliveryStep, SinkStep
      <3>3. r[1] = e /\ e \in Events
        BY <1>6, <2>3, <3>2 DEF OutboxInv, OutboxTypeOK, MailboxInv, MailboxTypeOK,
           Accept, AcceptFor, MissingReceipts, Known
      <3> QED
        BY <1>2, <3>2, <3>3, AcceptAccepts
    <2> QED
      BY <2>2, <2>3
  <1> QED
    BY <1>4, <1>5, <1>6 DEF AfterCommit

-----------------------------------------------------------------------------
(* The theorems.                                                           *)

(* Whatever the stream, the network and the workers do, a message that was
   acknowledged is in the inbox or delivered, and with a consumer that keeps
   up so is, or still waits in the stream, every event the outbox let go of. *)
THEOREM NatsCustody == Spec => []CustodyInv
  <1>1. Init => CustodyInv
    <2> SUFFICES ASSUME Init PROVE CustodyInv
      OBVIOUS
    <2>1. OutboxInv
      BY OutboxInitially DEF Init
    <2>2. MailboxInv
      BY MailboxInitially DEF Init
    <2>3. NatsTypeOK
      BY NatsAssumption DEF Init, NatsInit, NatsTypeOK, MessageStates
    <2>4. AckedWasAccepted /\ SettledRightly /\ SentIsHeld
      BY DEF Init, OutboxInit, NatsInit, AckedWasAccepted, SettledRightly, SentIsHeld
    <2>5. StreamReferences /\ AfterCommit
      BY DEF Init, MailboxInit, NatsInit, StreamReferences, AfterCommit, Known
    <2> QED
      BY <2>1, <2>2, <2>3, <2>4, <2>5 DEF CustodyInv
  <1>2. CustodyInv /\ [Next]_vars => CustodyInv'
    BY NextIsSteps, OutboxPreserved, MailboxPreserved, StreamTypes, ReferencesStay,
       SentStaysHeld, SettledStaysRight, NothingBeforeCommit DEF CustodyInv
  <1> QED
    BY <1>1, <1>2, PTL DEF Spec

(* A durable receipt of Broker.publish is true when it is given, also when the
   consumer lags and the stream discards what it has not seen. *)
THEOREM NatsReceiptMeansHeld == Spec => ReceiptMeansHeld
  <1> DEFINE Kept ==
        \A d \in Dispatchers :
          dPc[d] = "publishing" /\ dPc'[d] = "finishing" /\ dOk'[d]
            /\ dEvent[d] \notin world.poison =>
            (InStream(dEvent[d]) \/ Accepted(dEvent[d]))'
  <1>1. CustodyInv /\ [Next]_vars => [Kept]_vars
    <2> SUFFICES ASSUME CustodyInv, [Next]_vars, NEW d \in Dispatchers,
                        dPc[d] = "publishing", dPc'[d] = "finishing", dOk'[d],
                        dEvent[d] \notin world.poison
                 PROVE  (InStream(dEvent[d]) \/ Accepted(dEvent[d]))'
      OBVIOUS
    <2>1. /\ PublishSucceeds(dEvent[d])
          /\ UNCHANGED mailboxVars
          /\ dEvent[d] \in Events
          /\ dEvent' = dEvent
      BY ReceiptIsPublished
    <2>2. \A e \in Events : e = dEvent[d] => Held(e)'
      BY <2>1, PublishedIsHeld
    <2> QED
      BY <2>1, <2>2 DEF Held, InStream, Accepted
  <1> QED
    BY <1>1, NatsCustody, PTL DEF Spec, ReceiptMeansHeld

-----------------------------------------------------------------------------
(* The NATS pipeline implements AtLeastOnce.                               *)

(* The receipts AtLeastOnce is about, and what it calls deliveries. *)
LEMMA SteadyFacts ==
  ASSUME CustodyInv
  PROVE  /\ ALO!Deliveries = Receipts
         /\ SteadyReceipts \subseteq Receipts
         /\ \A r \in Receipts : r[1] \in Events
         /\ \A r \in Receipts : Known(r) => r[1] \in committed
         /\ \A r \in SteadyReceipts : ~Known(r) =>
              /\ ~Accepted(r[1])
              /\ r[1] \in committed /\ oState[r[1]] \in {"sent", "absent"} => InStream(r[1])
              /\ oState[r[1]] # "sent" \/ InStream(r[1])
  <1>1. ALO!Deliveries = Receipts
    BY DEF ALO!Deliveries, Receipts
  <1>2. SteadyReceipts \subseteq Receipts
    BY DEF SteadyReceipts
  <1>3. \A r \in Receipts : r[1] \in Events
    BY DEF Receipts
  <1>4. \A r \in Receipts : Known(r) => r[1] \in committed
    BY DEF CustodyInv, AfterCommit
  <1>5. ASSUME NEW r \in SteadyReceipts, ~Known(r)
        PROVE  /\ ~Accepted(r[1])
               /\ r[1] \in committed /\ oState[r[1]] \in {"sent", "absent"} => InStream(r[1])
               /\ oState[r[1]] # "sent" \/ InStream(r[1])
    <2>1. r \in Receipts /\ Steady(r[1])
      BY DEF SteadyReceipts
    <2>2. ~Accepted(r[1])
      BY <1>5, <2>1 DEF Accepted
    <2>3. r[1] \in committed /\ oState[r[1]] \in {"sent", "absent"} => InStream(r[1])
      BY <2>1, <2>2 DEF CustodyInv, SentIsHeld
    <2>4. oState[r[1]] = "sent" => r[1] \in committed
      BY <1>3, <2>1 DEF CustodyInv, OutboxInv, OutboxAbsent
    <2> QED
      BY <2>2, <2>3, <2>4
  <1> QED
    BY <1>1, <1>2, <1>3, <1>4, <1>5

(* Deliveries parked or resumed together are a step of AtLeastOnce, unless
   there are none. *)
LEMMA ParkOrStutter ==
  ASSUME NEW T, T \subseteq Owed, T \subseteq ALO!Deliveries,
         Owed' = Owed \ T, Parked' = Parked \cup T, Done' = Done
  PROVE  ALO!Next \/ UNCHANGED ALO!vars
  <1>1. CASE T = {}
    BY <1>1 DEF ALO!vars
  <1>2. CASE T # {}
    BY <1>2 DEF ALO!Next, ALO!Park
  <1> QED
    BY <1>1, <1>2

(* The same for deliveries that are taken up again. *)
LEMMA ResumeOrStutter ==
  ASSUME NEW T, T \subseteq Parked, T \subseteq ALO!Deliveries,
         Owed' = Owed \cup T, Parked' = Parked \ T, Done' = Done
  PROVE  ALO!Next \/ UNCHANGED ALO!vars
  <1>1. CASE T = {}
    BY <1>1 DEF ALO!vars
  <1>2. CASE T # {}
    BY <1>2 DEF ALO!Next, ALO!Resume
  <1> QED
    BY <1>1, <1>2

(* A step of the outbox alone commits, parks or resumes deliveries that the
   stream and the inbox do not have. *)
LEMMA OutboxRefines ==
  ASSUME CustodyInv, OutboxStep, UNCHANGED <<mailboxVars, natsVars>>
  PROVE  ALO!Next \/ UNCHANGED ALO!vars
  <1>1. UNCHANGED <<rState, handled, sState, world>>
    BY DEF mailboxVars, receiptRows, natsVars, streamVars
  <1>2. \A r \in Receipts : Known(r)' <=> Known(r)
    BY <1>1 DEF Known
  <1>3. \A e \in Events : InStream(e)' <=> InStream(e)
    BY <1>1 DEF InStream
  <1>4. SteadyReceipts' = SteadyReceipts /\ Done' = Done
    BY <1>1 DEF SteadyReceipts, Steady, Done
  <1> USE SteadyFacts
  <1>5. ASSUME NEW e \in Events, Enqueue(e)
        PROVE  ALO!Next \/ UNCHANGED ALO!vars
    <2>1. e \notin committed /\ oState[e] = "absent"
      BY <1>5 DEF Enqueue, CustodyInv, OutboxInv, OutboxAbsent
    <2>2. oState' = [oState EXCEPT ![e] = "pending"] /\ oState \in [Events -> RowStates]
      BY <1>5 DEF Enqueue, CustodyInv, OutboxInv, OutboxTypeOK
    <2>3. \A r \in Receipts : r[1] = e => ~Known(r)
      BY <2>1
    <2>4. ~InStream(e)
      BY <2>1 DEF InStream, Waiting, CustodyInv, AfterCommit
    <2>5. \A r \in Receipts : r[1] = e => r \notin Owed \cup Parked \cup Done
      BY <2>1, <2>3, <2>4 DEF Known, Owed, Parked, Done
    <2>6. Owed' = Owed \cup {r \in SteadyReceipts : r[1] = e}
      BY <1>1, <1>2, <1>3, <1>4, <2>2, <2>3 DEF Owed
    <2>7. Parked' = Parked
      BY <1>1, <1>2, <1>3, <1>4, <2>1, <2>2, <2>3 DEF Parked
    <2>8. CASE Steady(e)
      <3>1. {r \in SteadyReceipts : r[1] = e} = {r \in Receipts : r[1] = e}
        BY <2>8 DEF SteadyReceipts
      <3> QED
        BY <1>4, <2>5, <2>6, <2>7, <3>1 DEF ALO!Next, ALO!Commit
    <2>9. CASE ~Steady(e)
      <3>1. {r \in SteadyReceipts : r[1] = e} = {}
        BY <2>9 DEF SteadyReceipts
      <3> QED
        BY <1>4, <2>6, <2>7, <3>1 DEF ALO!vars
    <2> QED
      BY <2>8, <2>9
  <1>6. ASSUME NEW S \in SUBSET Events, OutboxRequeue(S)
        PROVE  ALO!Next \/ UNCHANGED ALO!vars
    <2> DEFINE T == {r \in SteadyReceipts : r[1] \in S /\ ~Known(r) /\ ~InStream(r[1])}
    <2>1. T \subseteq Parked /\ T \subseteq Receipts
      BY <1>6 DEF OutboxRequeue, Parked
    <2>2. Owed' = Owed \cup T
      BY <1>1, <1>2, <1>3, <1>4, <1>6 DEF OutboxRequeue, Owed
    <2>3. Parked' = Parked \ T
      BY <1>1, <1>2, <1>3, <1>4, <1>6 DEF OutboxRequeue, Parked, Known
    <2> HIDE DEF T
    <2> QED
      BY <1>4, <2>1, <2>2, <2>3, ResumeOrStutter
  <1>7. ASSUME \A e \in Events : RowSinks(e)
        PROVE  ALO!Next \/ UNCHANGED ALO!vars
    <2> DEFINE T == {r \in SteadyReceipts : /\ ~Known(r)
                                            /\ ~InStream(r[1])
                                            /\ oState[r[1]] = "pending"
                                            /\ oState'[r[1]] = "dead"}
    <2>1. T \subseteq Owed /\ T \subseteq Receipts
      BY DEF Owed
    <2>2. ASSUME NEW r \in SteadyReceipts, ~Known(r), ~InStream(r[1])
          PROVE  oState'[r[1]] = oState[r[1]] \/ r \in T
      <3>1. RowSinks(r[1]) /\ ~Accepted(r[1]) /\ oState[r[1]] # "sent"
        BY <1>7, <2>2
      <3>2. ~\E d \in Dispatchers : dPc[d] = "finishing" /\ dOk[d] /\ dEvent[d] = r[1]
        BY <2>2, <3>1 DEF CustodyInv, SentIsHeld, SteadyReceipts
      <3> QED
        BY <2>2, <3>1, <3>2 DEF RowSinks
    <2>3. Owed' = Owed \ T
      BY <1>1, <1>2, <1>3, <1>4, <2>2 DEF Owed, Known
    <2>4. Parked' = Parked \cup T
      BY <1>1, <1>2, <1>3, <1>4, <2>2 DEF Parked
    <2> HIDE DEF T
    <2> QED
      BY <1>4, <2>1, <2>3, <2>4, ParkOrStutter
  <1> QED
    BY <1>5, <1>6, <1>7, OutboxEffect DEF CustodyInv

(* A step of the delivery loops parks, handles, settles or resumes deliveries,
   whatever the stream holds. *)
LEMMA DeliveryRefines ==
  ASSUME CustodyInv, DeliveryStep, UNCHANGED <<outboxVars, natsVars>>
  PROVE  ALO!Next \/ UNCHANGED ALO!vars
  <1>1. UNCHANGED <<oState, sState, world>>
    BY DEF outboxVars, outboxRows, natsVars, streamVars
  <1>2. \A r \in Receipts : Known(r)' <=> Known(r)
    BY DeliveryEffect DEF CustodyInv
  <1>3. \A e \in Events : InStream(e)' <=> InStream(e)
    BY <1>1 DEF InStream
  <1>4. SteadyReceipts' = SteadyReceipts
    BY <1>1 DEF SteadyReceipts, Steady
  <1>5. handled' = handled => Done' = Done
    BY <1>4 DEF Done
  <1>6. rState \in [Receipts -> ReceiptStates]
    BY DEF CustodyInv, MailboxInv, MailboxTypeOK
  <1> USE SteadyFacts
  <1>7. CASE BuriesReceipts
    <2> DEFINE T == {r \in SteadyReceipts : rState[r] = "pending" /\ rState'[r] = "dead"}
    <2>1. T \subseteq Owed /\ T \subseteq Receipts
      BY DEF Owed
    <2>2. Owed' = Owed \ T
      BY <1>1, <1>2, <1>3, <1>4, <1>7 DEF Owed, Known, BuriesReceipts
    <2>3. Parked' = Parked \cup T
      BY <1>1, <1>2, <1>3, <1>4, <1>7 DEF Parked, Known, BuriesReceipts
    <2> HIDE DEF T
    <2> QED
      BY <1>5, <1>7, <2>1, <2>2, <2>3, ParkOrStutter DEF BuriesReceipts
  <1>8. ASSUME NEW r \in Receipts, HandlesReceipt(r)
        PROVE  ALO!Next \/ UNCHANGED ALO!vars
    <2>1. Owed' = Owed
      BY <1>1, <1>2, <1>3, <1>4, <1>8 DEF Owed, HandlesReceipt
    <2>2. Parked' = Parked
      BY <1>1, <1>2, <1>3, <1>4, <1>8 DEF Parked, HandlesReceipt
    <2>3. CASE r \in SteadyReceipts
      <3>1. r \in Owed \cup Parked \cup Done
        BY <1>6, <1>8, <2>3 DEF HandlesReceipt, Known, ReceiptStates, Owed, Parked, Done,
           CustodyInv, MailboxInv, ProcessedWasHandled
      <3>2. Done' = Done \cup {r}
        BY <1>4, <1>8, <2>3 DEF HandlesReceipt, Done
      <3> QED
        BY <2>1, <2>2, <3>1, <3>2 DEF ALO!Next, ALO!Handle
    <2>4. CASE r \notin SteadyReceipts
      <3>1. Done' = Done
        BY <1>4, <1>8, <2>4 DEF HandlesReceipt, Done
      <3> QED
        BY <2>1, <2>2, <3>1 DEF ALO!vars
    <2> QED
      BY <2>3, <2>4
  <1>9. ASSUME NEW r \in Receipts, SettlesReceipt(r)
        PROVE  ALO!Next \/ UNCHANGED ALO!vars
    <2>1. Owed' = Owed \ {r}
      BY <1>1, <1>2, <1>3, <1>4, <1>6, <1>9 DEF Owed, Known, SettlesReceipt
    <2>2. Parked' = Parked
      BY <1>1, <1>2, <1>3, <1>4, <1>6, <1>9 DEF Parked, Known, SettlesReceipt
    <2>3. Done' = Done
      BY <1>5, <1>9 DEF SettlesReceipt
    <2>4. CASE r \in SteadyReceipts
      <3>1. {r} \subseteq Owed \cap Done /\ {r} \subseteq Receipts
        BY <1>9, <2>4 DEF SettlesReceipt, Owed, Done
      <3> QED
        BY <2>1, <2>2, <2>3, <3>1 DEF ALO!Next, ALO!Settle
    <2>5. CASE r \notin SteadyReceipts
      <3>1. r \notin Owed
        BY <2>5 DEF Owed
      <3> QED
        BY <2>1, <2>2, <2>3, <3>1 DEF ALO!vars
    <2> QED
      BY <2>4, <2>5
  <1>10. ASSUME NEW S \in SUBSET Receipts, ResumesReceipts(S)
         PROVE  ALO!Next \/ UNCHANGED ALO!vars
    <2> DEFINE T == S \cap SteadyReceipts
    <2>1. T \subseteq Parked /\ T \subseteq Receipts
      BY <1>10 DEF ResumesReceipts, Parked
    <2>2. Owed' = Owed \cup T
      BY <1>1, <1>2, <1>3, <1>4, <1>10 DEF ResumesReceipts, Owed, Known
    <2>3. Parked' = Parked \ T
      BY <1>1, <1>2, <1>3, <1>4, <1>10 DEF ResumesReceipts, Parked, Known
    <2> HIDE DEF T
    <2> QED
      BY <1>5, <1>10, <2>1, <2>2, <2>3, ResumeOrStutter DEF ResumesReceipts
  <1>11. CASE ForgetsReceipts
    <2>1. Owed' = Owed
      BY <1>1, <1>2, <1>3, <1>4, <1>11 DEF Owed, ForgetsReceipts
    <2>2. Parked' = Parked
      BY <1>1, <1>2, <1>3, <1>4, <1>11 DEF Parked, ForgetsReceipts
    <2> QED
      BY <1>5, <1>11, <2>1, <2>2 DEF ALO!vars, ForgetsReceipts
  <1> QED
    BY <1>7, <1>8, <1>9, <1>10, <1>11, DeliveryEffect DEF CustodyInv

(* A step in which rows and receipts stay as they are changes at most what the
   stream holds: a publish that arrives late takes up a parked delivery. *)
LEMMA StreamRefines ==
  ASSUME CustodyInv, [Next]_vars, UNCHANGED <<oState, mailboxVars>>
  PROVE  ALO!Next \/ UNCHANGED ALO!vars
  <1>1. UNCHANGED <<rState, handled, oState>>
    BY DEF mailboxVars, receiptRows
  <1>2. world' = world /\ \A m \in Messages : MessageMoves(m)
    BY MessagesMove
  <1>3. \A r \in Receipts : Known(r)' <=> Known(r)
    BY <1>1 DEF Known
  <1>4. SteadyReceipts' = SteadyReceipts /\ Done' = Done
    BY <1>1, <1>2 DEF SteadyReceipts, Steady, Done
  <1> USE SteadyFacts
  <1>5. ASSUME NEW e \in Events, Steady(e), ~Accepted(e), InStream(e)
        PROVE  InStream(e)'
    <2>1. PICK m \in Messages : m[1] = e /\ sState[m] \in Waiting
      BY <1>5 DEF InStream
    <2>2. sState'[m] \in Waiting
      BY <1>2, <1>5, <2>1 DEF MessageMoves, Steady, Waiting
    <2> QED
      BY <2>1, <2>2 DEF InStream
  <1>6. ASSUME NEW e \in Events, InStream(e)', ~InStream(e)
        PROVE  e \in committed
    <2>1. PICK m \in Messages : m[1] = e /\ sState'[m] \in Waiting
      BY <1>6 DEF InStream
    <2>2. sState[m] \notin Waiting
      BY <1>6, <2>1 DEF InStream
    <2> QED
      BY <1>2, <2>1, <2>2 DEF MessageMoves, Waiting
  <1> DEFINE T == {r \in SteadyReceipts : /\ ~Known(r)
                                          /\ oState[r[1]] = "dead"
                                          /\ ~InStream(r[1])
                                          /\ InStream(r[1])'}
  <1>7. T \subseteq Parked /\ T \subseteq Receipts
    BY DEF Parked
  <1>8. ASSUME NEW r \in SteadyReceipts, ~Known(r)
        PROVE  \/ InStream(r[1])' <=> InStream(r[1])
               \/ ~InStream(r[1]) /\ InStream(r[1])' /\ oState[r[1]] \in {"pending", "dead"}
    <2>1. r[1] \in Events /\ Steady(r[1]) /\ ~Accepted(r[1])
      BY <1>8 DEF SteadyReceipts
    <2>2. ASSUME ~InStream(r[1]), InStream(r[1])'
          PROVE  oState[r[1]] \in {"pending", "dead"}
      <3>1. r[1] \in committed
        BY <1>6, <2>1, <2>2
      <3> QED
        BY <1>8, <2>1, <2>2, <3>1 DEF CustodyInv, OutboxInv, OutboxTypeOK, RowStates
    <2> QED
      BY <1>5, <2>1, <2>2
  <1>9. Owed' = Owed \cup T
    BY <1>1, <1>3, <1>4, <1>8 DEF Owed
  <1>10. Parked' = Parked \ T
    BY <1>1, <1>3, <1>4, <1>8 DEF Parked, Known
  <1> HIDE DEF T
  <1> QED
    BY <1>4, <1>7, <1>9, <1>10, ResumeOrStutter

(* A sink gives an event that is new to the inbox its receipts, or repeats one
   that was handled and pruned. *)
LEMMA SinkRefines ==
  ASSUME CustodyInv, SinkStep, UNCHANGED outboxVars
  PROVE  ALO!Next \/ UNCHANGED ALO!vars
  <1>1. PICK t \in Transfers, ok \in BOOLEAN :
          TransferSunk(t, ok) /\ tMsg[t][1] \in committed /\ Accept(tMsg[t][1])
    BY DEF SinkStep
  <1> DEFINE e == tMsg[t][1]
             N == MissingReceipts(e, Consumers)
             T == N \cap SteadyReceipts
  <1>2. UNCHANGED <<oState, handled, sState, world>>
    BY <1>1 DEF outboxVars, outboxRows, Accept, AcceptFor, TransferSunk, streamVars
  <1>3. rState' = [r \in Receipts |-> IF r \in N THEN "pending" ELSE rState[r]]
    BY <1>1 DEF Accept, AcceptFor
  <1>4. \A r \in Receipts : r \in N <=> r[1] = e /\ rState[r] = "absent"
    BY DEF MissingReceipts, Receipts
  <1>5. e \in Events /\ e \in committed
    BY <1>1 DEF CustodyInv, OutboxInv, OutboxTypeOK
  <1> HIDE DEF e, N
  <1>6. \A x \in Events : InStream(x)' <=> InStream(x)
    BY <1>2 DEF InStream
  <1>7. SteadyReceipts' = SteadyReceipts /\ Done' = Done
    BY <1>2 DEF SteadyReceipts, Steady, Done
  <1> USE SteadyFacts
  <1>8. T \subseteq Receipts
    OBVIOUS
  <1>9. CASE Accepted(e)
    <2>1. \A r \in T : r \in Done /\ r \notin Owed \cup Parked
      BY <1>4, <1>5, <1>9 DEF Accepted, Known, Owed, Parked, Done
    <2>2. Owed' = Owed \cup T
      BY <1>2, <1>3, <1>4, <1>6, <1>7, <2>1 DEF Owed, Known, Done
    <2>3. Parked' = Parked
      BY <1>2, <1>3, <1>4, <1>6, <1>7, <2>1 DEF Parked, Known, Done
    <2> HIDE DEF T
    <2>4. CASE T = {}
      BY <1>7, <2>2, <2>3, <2>4 DEF ALO!vars
    <2>5. CASE T # {}
      BY <1>7, <1>8, <2>1, <2>2, <2>3, <2>5 DEF ALO!Next, ALO!Repeat
    <2> QED
      BY <2>4, <2>5
  <1>10. CASE ~Accepted(e)
    <2>1. \A r \in Receipts : r[1] = e => ~Known(r)
      BY <1>10 DEF CustodyInv, AfterCommit
    <2>2. Owed' = Owed \cup T
      BY <1>2, <1>3, <1>4, <1>6, <1>7, <2>1 DEF Owed, Known
    <2>3. Parked' = Parked \ T
      BY <1>2, <1>3, <1>4, <1>6, <1>7, <2>1 DEF Parked, Known
    <2>4. CASE oState[e] = "pending" \/ InStream(e)
      <3>1. T \subseteq Owed /\ T \cap Parked = {}
        BY <1>4, <2>1, <2>4 DEF Owed, Parked, Known
      <3> QED
        BY <1>7, <2>2, <2>3, <3>1 DEF ALO!vars
    <2>5. CASE oState[e] # "pending" /\ ~InStream(e)
      <3>1. T \subseteq Parked
        BY <1>4, <1>5, <2>1, <2>5 DEF Parked, CustodyInv, OutboxInv, OutboxTypeOK, RowStates
      <3> HIDE DEF T
      <3> QED
        BY <1>7, <1>8, <2>2, <2>3, <3>1, ResumeOrStutter
    <2> QED
      BY <2>4, <2>5
  <1> QED
    BY <1>9, <1>10

(* With a consumer that keeps up, outbox, stream, inbox and their workers
   implement at-least-once delivery for every event that decodes. *)
THEOREM NatsDeliversAtLeastOnce == Spec => DeliversAtLeastOnce
  <1>1. Init => ALO!Init
    BY DEF Init, OutboxInit, MailboxInit, NatsInit, ALO!Init, Owed, Parked, Done, Known,
       InStream, Waiting, Receipts, SteadyReceipts
  <1>2. CustodyInv /\ [Next]_vars => [ALO!Next]_(ALO!vars)
    <2> SUFFICES ASSUME CustodyInv, [Next]_vars
                 PROVE  ALO!Next \/ UNCHANGED ALO!vars
      OBVIOUS
    <2>1. CASE StreamStep /\ UNCHANGED <<outboxVars, mailboxVars>>
      BY <2>1, StreamRefines DEF outboxVars, outboxRows
    <2>2. CASE PublishStep /\ UNCHANGED mailboxVars
      BY <2>2, StreamRefines DEF PublishStep, DispatchPublished, outboxRows
    <2> QED
      BY <2>1, <2>2, NextIsStep, OutboxRefines, DeliveryRefines, SinkRefines
  <1> QED
    BY <1>1, <1>2, NatsCustody, PTL DEF Spec, DeliversAtLeastOnce, ALO!Spec

=============================================================================
