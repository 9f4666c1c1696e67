------------------------- MODULE EventPipelineProofs ------------------------
(***************************************************************************)
(* Proofs about EventPipeline, and about Lifecycle, which runs it in       *)
(* processes, for any number of events, consumers, dispatchers, delivery   *)
(* loops and processes and any attempt budget.                             *)
(***************************************************************************)
EXTENDS Lifecycle, QueueProofs, TLAPS

-----------------------------------------------------------------------------
(* The composition.                                                        *)

(* A dispatcher's publish commits the accept transaction. *)
PublishStep ==
  \E d \in Dispatchers, ok \in BOOLEAN :
    /\ DispatchPublished(d, ok)
    /\ dEvent[d] \in committed
    /\ Accept(dEvent[d])

(* A step of the pipeline is a step of the outbox, a step of the delivery
   loops, or a publish, the only step in which both take part. *)
LEMMA NextIsStep ==
  ASSUME IInv, [Next]_vars
  PROVE  \/ OutboxStep /\ UNCHANGED mailboxVars
         \/ DeliveryStep /\ UNCHANGED outboxVars
         \/ PublishStep
  <1> DEFINE Goal == \/ OutboxStep /\ UNCHANGED mailboxVars
                     \/ DeliveryStep /\ UNCHANGED outboxVars
                     \/ PublishStep
  <1> USE DEF OutboxStep, DeliveryStep
  <1>1. ASSUME NEW d \in Dispatchers, Dispatch(d) PROVE Goal
    <2>1. dPc[d] = "publishing" => dEvent[d] \in committed
      BY DEF IInv, OutboxInv, OutboxLeases
    <2>2. TRUE \in BOOLEAN /\ FALSE \in BOOLEAN
      OBVIOUS
    <2>3. CASE PublishAccepted(d)
      BY <2>1, <2>2, <2>3 DEF PublishAccepted, DispatchPublished, PublishStep
    <2>4. CASE PublishFailed(d)
      BY <2>2, <2>4 DEF PublishFailed
    <2>5. CASE PublishUncertain(d)
      BY <2>1, <2>2, <2>5 DEF PublishUncertain, DispatchPublished, PublishStep
    <2> QED
      BY <1>1, <2>3, <2>4, <2>5, DispatcherReturnIsStep DEF Dispatch
  <1>2. ASSUME NEW l \in Loops, Deliver(l) PROVE Goal
    BY <1>2, LoopReturnIsStep DEF Deliver, IInv, MailboxInv
  <1>3. CASE Crash
    BY <1>3, DispatcherReturnIsStep, LoopReturnIsStep DEF Crash, IInv, MailboxInv
  <1>4. ASSUME NEW e \in Events, OutboxTime(e) PROVE Goal
    BY <1>4 DEF OutboxTime
  <1>5. ASSUME NEW r \in Receipts, MailboxTime(r) PROVE Goal
    BY <1>5 DEF MailboxTime
  <1>6. CASE Maintenance
    <2>1. ASSUME NEW S \in OneOrAll({e \in Events : oState[e] = "dead"})
          PROVE  S \in SUBSET Events
      BY DEF OneOrAll
    <2>2. ASSUME NEW c \in Consumers,
                 NEW S \in OneOrAll({r \in Receipts : r[2] = c /\ rState[r] = "dead"})
          PROVE  S \in SUBSET Receipts
      BY DEF OneOrAll
    <2> QED
      BY <1>6, <2>1, <2>2 DEF Maintenance
  <1>7. CASE UNCHANGED vars
    BY <1>7 DEF vars
  <1>8. ASSUME NEW e \in Events, Enqueue(e), UNCHANGED mailboxVars
        PROVE  Goal
    BY <1>8
  <1> QED
    BY <1>1, <1>2, <1>3, <1>4, <1>5, <1>6, <1>7, <1>8 DEF Next

(* So both halves take one of their own steps, or none. *)
LEMMA NextIsSteps ==
  ASSUME IInv, [Next]_vars
  PROVE  OutboxStep /\ MailboxStep
  <1>1. CASE OutboxStep /\ UNCHANGED mailboxVars
    BY <1>1 DEF MailboxStep, DeliveryStep
  <1>2. CASE DeliveryStep /\ UNCHANGED outboxVars
    BY <1>2 DEF MailboxStep, OutboxStep
  <1>3. CASE PublishStep
    BY <1>3, AcceptIsStep DEF PublishStep, OutboxStep, IInv, OutboxInv, OutboxTypeOK
  <1> QED
    BY <1>1, <1>2, <1>3, NextIsStep

(* The outbox lets go of an event only after the mailbox accepted it. *)
LEMMA SentStaysAccepted ==
  ASSUME IInv, [Next]_vars
  PROVE  SentWasAccepted'
  <1>1. OutboxStep /\ MailboxStep
    BY NextIsSteps
  <1>2. \A e \in Events : Accepted(e) => Accepted(e)'
    BY <1>1, AcceptedStable DEF IInv
  <1> USE DEF IInv, OutboxInv, OutboxTypeOK, OutboxLeases
  <1>3. ASSUME NEW d \in Dispatchers, dPc'[d] = "finishing", dOk'[d]
        PROVE  Accepted(dEvent[d])' /\ dEvent'[d] = dEvent[d] /\ dEvent[d] \in Events
    <2>1. CASE dPc[d] = "finishing"
      <3>1. dEvent'[d] = dEvent[d] /\ dOk'[d] = dOk[d]
        BY <1>1, <1>3, <2>1, FinishingUnchanged
      <3> QED
        BY <1>2, <1>3, <2>1, <3>1 DEF SentWasAccepted
    <2>2. CASE dPc[d] # "finishing"
      <3>1. \E x \in Dispatchers : Dispatch(x)
        <4>1. ~UNCHANGED dPc
          BY <1>3, <2>2
        <4>2. ASSUME NEW x \in Dispatchers, DispatchAbandon(x) PROVE FALSE
          BY <1>3, <2>2, <4>2 DEF DispatchAbandon, DispatchReturns
        <4> QED
          BY <4>1, <4>2 DEF Next, Enqueue, Deliver, Crash, OutboxTime, OutboxLeaseExpires,
             OutboxBackoffEnds, MailboxTime, Maintenance, OutboxRequeue, OutboxPrune,
             vars, outboxVars, dispatchVars
      <3>2. PICK x \in Dispatchers : Dispatch(x)
        BY <3>1
      <3>3. \/ PublishAccepted(x)
            \/ PublishFailed(x)
            \/ PublishUncertain(x)
        BY <1>3, <2>2, <3>2 DEF Dispatch, DispatchClaim, DispatchNothing, DispatchFinish,
           DispatchLeaseLost, DispatchReturns, dispatchVars
      <3>4. x = d
        BY <1>3, <2>2, <3>3 DEF PublishAccepted, PublishFailed, PublishUncertain,
           DispatchPublished
      <3>5. ~PublishFailed(d) /\ ~PublishUncertain(d)
        BY <1>3 DEF PublishFailed, PublishUncertain, DispatchPublished
      <3>6. PublishAccepted(d)
        BY <3>3, <3>4, <3>5
      <3> QED
        BY <3>6, AcceptAccepts DEF PublishAccepted, DispatchPublished
    <2> QED
      BY <2>1, <2>2
  <1>4. ASSUME NEW e \in committed', oState'[e] \in {"sent", "absent"}
        PROVE  Accepted(e)'
    <2> e \in Events /\ oState[e] \in RowStates
      BY <1>1, <1>4, OutboxPreserved DEF OutboxInv, OutboxTypeOK
    <2>1. CASE e \in committed /\ oState[e] \in {"sent", "absent"}
      BY <1>2, <2>1 DEF SentWasAccepted
    <2>2. CASE ~(e \in committed /\ oState[e] \in {"sent", "absent"})
      <3>1. \E d \in Dispatchers : DispatchFinish(d) /\ dEvent[d] = e /\ dOk[d]
        BY <1>1, <1>4, <2>2 DEF OutboxStep, Enqueue, DispatchClaim, DispatchNothing,
           DispatchPublished, DispatchFinish, DispatchLeaseLost, DispatchAbandon,
           DispatchReturns, OutboxLeaseExpires, OutboxBackoffEnds, OutboxRequeue,
           OutboxPrune, OutboxPrunable, OutboxOutcome, outboxVars, outboxRows, RowStates
      <3> QED
        BY <1>2, <3>1 DEF SentWasAccepted, DispatchFinish
    <2> QED
      BY <2>1, <2>2
  <1> QED
    BY <1>3, <1>4 DEF SentWasAccepted

(* A receipt comes to be known only by accept, for every consumer at once, and
   accept is only called for a committed event. *)
LEMMA AcceptedStaysWhole ==
  ASSUME IInv, [Next]_vars
  PROVE  AcceptedWhole'
  <1>1. OutboxStep /\ MailboxStep
    BY NextIsSteps
  <1>2. committed \subseteq committed'
    BY <1>1, CommittedStable
  <1>3. \A e \in Events : Accepted(e) => Accepted(e)'
    BY <1>1, AcceptedStable DEF IInv
  <1> SUFFICES ASSUME NEW r \in Receipts, Known(r)'
               PROVE  r[1] \in committed' /\ Accepted(r[1])'
    BY DEF AcceptedWhole
  <1>4. r[1] \in Events
    BY DEF Receipts
  <1>5. CASE Known(r)
    BY <1>2, <1>3, <1>4, <1>5 DEF IInv, AcceptedWhole
  <1>6. CASE ~Known(r)
    <2>1. ~DeliveryStep
      BY <1>6, DeliveryLearnsNothing DEF IInv
    <2>2. PICK e \in committed : Accept(e)
      BY <2>1, NextIsStep DEF DeliveryStep, PublishStep
    <2>3. r[1] = e /\ e \in Events
      BY <1>6, <2>2 DEF IInv, OutboxInv, OutboxTypeOK, MailboxInv, MailboxTypeOK,
         Accept, AcceptFor, MissingReceipts, Known
    <2> QED
      BY <1>2, <2>2, <2>3, AcceptAccepts DEF IInv
  <1> QED
    BY <1>5, <1>6

-----------------------------------------------------------------------------
(* The theorems.                                                           *)

(* IInv holds initially and is preserved by every step of the pipeline. *)
THEOREM PipelineInvariant == Spec => []IInv
  <1>1. Init => IInv
    <2> SUFFICES ASSUME Init PROVE IInv
      OBVIOUS
    <2>1. OutboxInv
      BY OutboxInitially DEF Init
    <2>2. MailboxInv
      BY MailboxInitially DEF Init
    <2>3. SentWasAccepted
      BY DEF Init, OutboxInit, SentWasAccepted
    <2>4. AcceptedWhole
      BY DEF Init, MailboxInit, AcceptedWhole, Known
    <2> QED
      BY <2>1, <2>2, <2>3, <2>4 DEF IInv
  <1>2. IInv /\ [Next]_vars => IInv'
    BY NextIsSteps, OutboxPreserved, MailboxPreserved, SentStaysAccepted,
       AcceptedStaysWhole DEF IInv
  <1> QED
    BY <1>1, <1>2, PTL DEF Spec

(* Rows, receipts and worker states stay well formed and attempts stay within
   the retry budget. *)
THEOREM PipelineTypeCorrect == Spec => []TypeOK
  <1>1. IInv => TypeOK
    BY DEF IInv, OutboxInv, MailboxInv, TypeOK
  <1> QED
    BY <1>1, PipelineInvariant, PTL

(* No committed event is lost to any consumer: outbox claims, acks, prunes,
   the mailbox's accept, deliver and prune, crashes and uncertain commits all
   keep the delivery owed, parked or handled. *)
THEOREM PipelineLosesNothing == Spec => []NothingLost
  <1>1. IInv => NothingLost
    <2> SUFFICES ASSUME IInv, NEW r \in Receipts, r[1] \in committed, r \notin handled,
                        rState[r] \notin {"pending", "dead"}
                 PROVE  oState[r[1]] \in {"pending", "dead"}
      BY DEF NothingLost
    <2>1. r[1] \in Events
      BY DEF IInv, OutboxInv, OutboxTypeOK
    <2>2. rState[r] = "absent"
      BY DEF IInv, MailboxInv, MailboxTypeOK, ReceiptStates, ProcessedWasHandled
    <2>3. ~Accepted(r[1])
      BY <2>1, <2>2 DEF Accepted, Known
    <2>4. oState[r[1]] \notin {"sent", "absent"}
      BY <2>1, <2>3 DEF IInv, SentWasAccepted
    <2> QED
      BY <2>1, <2>4 DEF IInv, OutboxInv, OutboxTypeOK, RowStates
  <1> QED
    BY <1>1, PipelineInvariant, PTL

(* Rows are buried only when their budget is spent or they cannot be decoded:
   the lease token of claim and finish fences stale workers. *)
THEOREM PipelineDeadOnlyWhenSpent == Spec => []DeadOnlyWhenSpent
  <1>1. IInv => DeadOnlyWhenSpent
    BY DEF IInv, OutboxInv, MailboxInv, DeadOnlyWhenSpent
  <1> QED
    BY <1>1, PipelineInvariant, PTL

(* A pending row whose budget is spent is always under a lease, so the expiry
   of that lease lets the next claim bury it. *)
THEOREM PipelineStrandsNoRow == Spec => []NoStrandedRow
  <1>1. IInv => NoStrandedRow
    BY DEF IInv, OutboxInv, MailboxInv, NoStrandedRow
  <1> QED
    BY <1>1, PipelineInvariant, PTL

(* Only the latest claim's successful handler marks a receipt processed. *)
THEOREM PipelineLatestClaimDecides == Spec => LatestClaimDecides
  <1> DEFINE Decided(r) ==
        rState[r] = "pending" /\ rState'[r] = "processed" =>
          \E l \in Loops : /\ lPc[l] = "finishing"
                           /\ lOk[l]
                           /\ lReceipt[l] = r
                           /\ lClaim[l] = claims[r]
  <1>1. IInv /\ [Next]_vars => [\A r \in Receipts : Decided(r)]_vars
    <2> SUFFICES ASSUME IInv, [Next]_vars, NEW r \in Receipts,
                        rState[r] = "pending", rState'[r] = "processed"
                 PROVE  \E l \in Loops : /\ lPc[l] = "finishing"
                                         /\ lOk[l]
                                         /\ lReceipt[l] = r
                                         /\ lClaim[l] = claims[r]
      OBVIOUS
    <2>1. MailboxStep
      BY NextIsSteps
    <2>2. \E l \in Loops : DeliverFinish(l) /\ lReceipt[l] = r
      BY <2>1 DEF IInv, MailboxInv, MailboxTypeOK, MailboxStep, DeliveryStep, Accept, AcceptFor, DeliverClaim,
         DeliverNothing, DeliverHandled, DeliverFinish, DeliverLeaseLost, DeliverAbandon,
         ReceiptLeaseExpires, ReceiptBackoffEnds, MailboxRequeue, MailboxPrune,
         mailboxVars, receiptRows
    <2>3. PICK l \in Loops : DeliverFinish(l) /\ lReceipt[l] = r
      BY <2>2
    <2>4. lPc[l] = "finishing" /\ rLease[r] = l
      BY <2>3 DEF DeliverFinish, HoldsReceipt
    <2>5. lClaim[l] = claims[r]
      BY <2>3, <2>4 DEF IInv, MailboxInv, ReceiptLeases
    <2>6. lOk[l]
      BY <2>3 DEF IInv, MailboxInv, MailboxTypeOK, DeliverFinish, ReceiptOutcome
    <2> QED
      BY <2>3, <2>4, <2>5, <2>6
  <1> QED
    BY <1>1, PipelineInvariant, PTL DEF Spec, LatestClaimDecides

(* Sent rows and processed receipts never return to the queue. *)
THEOREM PipelineFinishedIsFinal == Spec => FinishedIsFinal
  <1> DEFINE SentFinal == \A e \in Events :
               oState[e] = "sent" => oState'[e] \in {"sent", "absent"}
  <1> DEFINE ProcessedFinal == \A r \in Receipts :
               rState[r] = "processed" => rState'[r] \in {"processed", "absent"}
  <1>1. IInv /\ [Next]_vars => [SentFinal /\ ProcessedFinal]_vars
    <2> SUFFICES ASSUME IInv, [Next]_vars PROVE SentFinal /\ ProcessedFinal
      OBVIOUS
    <2>1. SentFinal
      BY NextIsSteps DEF IInv, OutboxInv, OutboxTypeOK, OutboxStep, Enqueue, OutboxAbsent,
         DispatchClaim, OutboxCandidate, OutboxExhausted, DispatchNothing,
         DispatchPublished, DispatchFinish, OutboxHolds, DispatchLeaseLost,
         DispatchAbandon, OutboxLeaseExpires, OutboxBackoffEnds, OutboxRequeue,
         OutboxPrune, outboxVars, outboxRows
    <2>2. ProcessedFinal
      BY NextIsSteps DEF IInv, MailboxInv, MailboxTypeOK, MailboxStep, DeliveryStep, Accept, AcceptFor,
         MissingReceipts, DeliverClaim, ReceiptCandidate, ReceiptsExhausted,
         DeliverNothing, DeliverHandled, DeliverFinish, HoldsReceipt, DeliverLeaseLost,
         DeliverAbandon, ReceiptLeaseExpires, ReceiptBackoffEnds, MailboxRequeue,
         MailboxPrune, mailboxVars, receiptRows
    <2> QED
      BY <2>1, <2>2
  <1> QED
    BY <1>1, PipelineInvariant, PTL DEF Spec, FinishedIsFinal

-----------------------------------------------------------------------------
(* The pipeline implements AtLeastOnce.                                    *)

(* A step of the outbox alone commits, parks or resumes deliveries that have
   no receipt yet. *)
LEMMA OutboxRefines ==
  ASSUME IInv, OutboxStep, UNCHANGED mailboxVars
  PROVE  ALO!Next \/ UNCHANGED ALO!vars
  <1>1. UNCHANGED <<rState, handled>>
    BY DEF mailboxVars, receiptRows
  <1>2. \A r \in Receipts : r[1] \in Events
    BY DEF Receipts
  <1>3. ALO!Deliveries = Receipts
    BY DEF ALO!Deliveries, Receipts
  <1>4. \A r \in Receipts : Known(r)' <=> Known(r)
    BY <1>1 DEF Known
  <1> USE DEF Owed, Parked
  <1>5. ASSUME NEW e \in Events, Enqueue(e)
        PROVE  ALO!Commit(e)
    <2>1. e \notin committed /\ oState[e] = "absent"
      BY <1>5 DEF Enqueue, IInv, OutboxInv, OutboxAbsent
    <2>2. oState' = [oState EXCEPT ![e] = "pending"]
      BY <1>5 DEF Enqueue
    <2>3. \A r \in Receipts : r[1] = e => ~Known(r)
      BY <2>1 DEF IInv, AcceptedWhole
    <2>4. \A r \in Receipts : r[1] = e => r \notin Owed \cup Parked \cup handled
      BY <2>1, <2>3 DEF Known
    <2>5. Owed' = Owed \cup {r \in Receipts : r[1] = e}
      BY <1>1, <1>2, <1>4, <2>2, <2>3 DEF IInv, OutboxInv, OutboxTypeOK
    <2>6. Parked' = Parked
      BY <1>1, <1>2, <1>4, <2>1, <2>2, <2>3 DEF IInv, OutboxInv, OutboxTypeOK
    <2> QED
      BY <1>1, <1>3, <2>4, <2>5, <2>6 DEF ALO!Commit
  <1>6. ASSUME NEW S \in SUBSET Events, OutboxRequeue(S)
        PROVE  ALO!Next \/ UNCHANGED ALO!vars
    <2> DEFINE T == {r \in Receipts : r[1] \in S /\ ~Known(r)}
    <2>1. T \subseteq Parked /\ T \in SUBSET Receipts
      BY <1>6 DEF OutboxRequeue
    <2>2. Owed' = Owed \cup T
      BY <1>1, <1>2, <1>4, <1>6 DEF OutboxRequeue
    <2>3. Parked' = Parked \ T
      BY <1>1, <1>2, <1>4, <1>6 DEF OutboxRequeue, Known
    <2> HIDE DEF T, Owed, Parked
    <2>4. CASE T = {}
      BY <1>1, <2>2, <2>3, <2>4 DEF ALO!vars
    <2>5. CASE T # {}
      BY <1>1, <1>3, <2>1, <2>2, <2>3, <2>5 DEF ALO!Next, ALO!Resume
    <2> QED
      BY <2>4, <2>5
  <1>7. ASSUME \A e \in Events : RowSinks(e)
        PROVE  ALO!Next \/ UNCHANGED ALO!vars
    <2> DEFINE T == {r \in Receipts : /\ ~Known(r)
                                      /\ oState[r[1]] = "pending"
                                      /\ oState'[r[1]] = "dead"}
    <2>1. T \subseteq Owed /\ T \in SUBSET Receipts
      OBVIOUS
    <2>2. \A r \in Receipts : ~Known(r) => ~Accepted(r[1])
      BY DEF Accepted
    <2>3. \A r \in Receipts : ~Known(r) => \/ oState'[r[1]] = oState[r[1]]
                                           \/ r \in T
      <3> SUFFICES ASSUME NEW r \in Receipts, ~Known(r)
                   PROVE  oState'[r[1]] = oState[r[1]] \/ r \in T
        OBVIOUS
      <3>1. r[1] \in Events /\ RowSinks(r[1]) /\ ~Accepted(r[1])
        BY <1>2, <1>7, <2>2
      <3>2. oState[r[1]] # "sent"
        BY <3>1 DEF IInv, OutboxInv, OutboxAbsent, SentWasAccepted
      <3>3. ~\E d \in Dispatchers : dPc[d] = "finishing" /\ dOk[d] /\ dEvent[d] = r[1]
        BY <3>1 DEF IInv, SentWasAccepted
      <3> QED
        BY <3>1, <3>2, <3>3 DEF RowSinks
    <2>4. Owed' = Owed \ T
      BY <1>1, <1>4, <2>3 DEF Known
    <2>5. Parked' = Parked \cup T
      BY <1>1, <1>4, <2>3
    <2> HIDE DEF T, Owed, Parked
    <2>6. CASE T = {}
      BY <1>1, <2>4, <2>5, <2>6 DEF ALO!vars
    <2>7. CASE T # {}
      BY <1>1, <1>3, <2>1, <2>4, <2>5, <2>7 DEF ALO!Next, ALO!Park
    <2> QED
      BY <2>6, <2>7
  <1> QED
    BY <1>5, <1>6, <1>7, OutboxEffect DEF IInv, ALO!Next

(* A step of the delivery loops parks, handles, settles or resumes deliveries;
   a prune removes what is settled, which nobody can tell. *)
LEMMA DeliveryRefines ==
  ASSUME IInv, DeliveryStep, UNCHANGED outboxVars
  PROVE  ALO!Next \/ UNCHANGED ALO!vars
  <1>1. UNCHANGED oState
    BY DEF outboxVars, outboxRows
  <1>2. ALO!Deliveries = Receipts
    BY DEF ALO!Deliveries, Receipts
  <1>3. \A r \in Receipts : Known(r)' <=> Known(r)
    BY DeliveryEffect DEF IInv
  <1> USE DEF Owed, Parked, IInv, MailboxInv, MailboxTypeOK
  <1>4. CASE BuriesReceipts
    <2> DEFINE T == {r \in Receipts : rState[r] = "pending" /\ rState'[r] = "dead"}
    <2>1. T \subseteq Owed /\ T \in SUBSET Receipts
      OBVIOUS
    <2>2. Owed' = Owed \ T
      BY <1>1, <1>3, <1>4 DEF Known, BuriesReceipts
    <2>3. Parked' = Parked \cup T
      BY <1>1, <1>3, <1>4 DEF Known, BuriesReceipts
    <2> HIDE DEF T, Owed, Parked
    <2>4. CASE T = {}
      BY <1>4, <2>2, <2>3, <2>4 DEF ALO!vars, BuriesReceipts
    <2>5. CASE T # {}
      BY <1>2, <1>4, <2>1, <2>2, <2>3, <2>5 DEF ALO!Next, ALO!Park, BuriesReceipts
    <2> QED
      BY <2>4, <2>5
  <1>5. ASSUME NEW r \in Receipts, HandlesReceipt(r)
        PROVE  ALO!Next
    <2>1. r \in Owed \cup Parked \cup handled
      BY <1>5 DEF HandlesReceipt, Known, ReceiptStates, ProcessedWasHandled
    <2>2. Owed' = Owed /\ Parked' = Parked
      BY <1>1, <1>3, <1>5 DEF HandlesReceipt
    <2> HIDE DEF Owed, Parked
    <2>3. ALO!Handle(r)
      BY <1>5, <2>1, <2>2 DEF ALO!Handle, HandlesReceipt
    <2> QED
      BY <1>2, <2>3 DEF ALO!Next
  <1>6. ASSUME NEW r \in Receipts, SettlesReceipt(r)
        PROVE  ALO!Next
    <2>1. Owed' = Owed \ {r}
      BY <1>1, <1>3, <1>6 DEF Known, SettlesReceipt
    <2>2. Parked' = Parked
      BY <1>1, <1>3, <1>6 DEF Known, SettlesReceipt
    <2>3. {r} \subseteq Owed \cap handled /\ {r} \in SUBSET Receipts
      BY <1>6 DEF SettlesReceipt
    <2> HIDE DEF Owed, Parked
    <2> QED
      BY <1>2, <1>6, <2>1, <2>2, <2>3 DEF ALO!Next, ALO!Settle, SettlesReceipt
  <1>7. ASSUME NEW S \in SUBSET Receipts, ResumesReceipts(S)
        PROVE  ALO!Next
    <2>1. S \subseteq Parked /\ S # {} /\ handled' = handled
      BY <1>7 DEF ResumesReceipts
    <2>2. Owed' = Owed \cup S
      BY <1>1, <1>3, <1>7 DEF ResumesReceipts, Known
    <2>3. Parked' = Parked \ S
      BY <1>1, <1>3, <1>7 DEF ResumesReceipts, Known
    <2> HIDE DEF Owed, Parked
    <2> QED
      BY <1>2, <2>1, <2>2, <2>3 DEF ALO!Next, ALO!Resume
  <1>8. CASE ForgetsReceipts
    <2>1. Owed' = Owed
      BY <1>1, <1>3, <1>8 DEF ForgetsReceipts
    <2>2. Parked' = Parked
      BY <1>1, <1>3, <1>8 DEF ForgetsReceipts
    <2> QED
      BY <1>8, <2>1, <2>2 DEF ALO!vars, ForgetsReceipts
  <1> QED
    BY <1>4, <1>5, <1>6, <1>7, <1>8, DeliveryEffect

(* A publish gives an event that is new to the mailbox its receipts, which
   takes it up again if its row was buried meanwhile, or repeats one that was
   handled and pruned. *)
LEMMA PublishRefines ==
  ASSUME IInv, PublishStep
  PROVE  ALO!Next \/ UNCHANGED ALO!vars
  <1>1. PICK d \in Dispatchers, ok \in BOOLEAN :
          DispatchPublished(d, ok) /\ dEvent[d] \in committed /\ Accept(dEvent[d])
    BY DEF PublishStep
  <1> DEFINE e == dEvent[d]
             T == MissingReceipts(e, Consumers)
  <1>2. UNCHANGED <<oState, handled>>
    BY <1>1 DEF DispatchPublished, outboxRows, Accept, AcceptFor
  <1>3. ALO!Deliveries = Receipts
    BY DEF ALO!Deliveries, Receipts
  <1>4. rState' = [r \in Receipts |-> IF r \in T THEN "pending" ELSE rState[r]]
    BY <1>1 DEF Accept, AcceptFor
  <1>5. \A r \in Receipts : r \in T <=> r[1] = e /\ rState[r] = "absent"
    BY DEF MissingReceipts, Receipts
  <1>6. e \in Events /\ e \in committed /\ T \in SUBSET Receipts
    BY <1>1 DEF MissingReceipts, IInv, OutboxInv, OutboxTypeOK
  <1> HIDE DEF e, T
  <1>7. CASE Accepted(e)
    <2>1. \A r \in T : r \in handled /\ r \notin Owed \cup Parked
      BY <1>5, <1>6, <1>7 DEF Accepted, Known, Owed, Parked
    <2>2. Owed' = Owed \cup T
      BY <1>2, <1>4, <1>5, <1>6, <2>1 DEF Owed, Known
    <2>3. Parked' = Parked
      BY <1>2, <1>4, <1>5, <1>6, <2>1 DEF Parked, Known
    <2>4. CASE T = {}
      BY <1>2, <2>2, <2>3, <2>4 DEF ALO!vars
    <2>5. CASE T # {}
      BY <1>2, <1>3, <1>6, <2>1, <2>2, <2>3, <2>5 DEF ALO!Next, ALO!Repeat
    <2> QED
      BY <2>4, <2>5
  <1>8. CASE ~Accepted(e)
    <2>1. \A r \in Receipts : r[1] = e => ~Known(r)
      BY <1>8 DEF IInv, AcceptedWhole
    <2>2. T = {r \in Receipts : r[1] = e} /\ T # {}
      BY <1>5, <1>6, <1>8, <2>1 DEF Accepted, Known
    <2>3. oState[e] \in {"pending", "dead"}
      BY <1>6, <1>8 DEF IInv, SentWasAccepted, OutboxInv, OutboxTypeOK, RowStates
    <2>4. Owed' = Owed \cup T
      BY <1>2, <1>4, <1>5, <2>1, <2>2 DEF Owed, Known
    <2>5. Parked' = Parked \ T
      BY <1>2, <1>4, <1>5, <2>1, <2>2 DEF Parked, Known
    <2>6. CASE oState[e] = "pending"
      <3>1. T \subseteq Owed /\ T \cap Parked = {}
        BY <2>1, <2>2, <2>6 DEF Owed, Parked, Known
      <3> QED
        BY <1>2, <2>4, <2>5, <3>1 DEF ALO!vars
    <2>7. CASE oState[e] = "dead"
      <3>1. T \subseteq Parked
        BY <2>1, <2>2, <2>7 DEF Parked
      <3> QED
        BY <1>2, <1>3, <1>6, <2>2, <2>4, <2>5, <3>1 DEF ALO!Next, ALO!Resume
    <2> QED
      BY <2>3, <2>6, <2>7
  <1> QED
    BY <1>7, <1>8

(* Outbox, mailbox and their workers implement at-least-once delivery: every
   step of theirs is one AtLeastOnce allows, or invisible to it. *)
THEOREM PipelineDeliversAtLeastOnce == Spec => DeliversAtLeastOnce
  <1>1. Init => ALO!Init
    BY DEF Init, OutboxInit, MailboxInit, ALO!Init, Owed, Parked, Known, Receipts
  <1>2. IInv /\ [Next]_vars => [ALO!Next]_(ALO!vars)
    <2> SUFFICES ASSUME IInv, [Next]_vars
                 PROVE  ALO!Next \/ UNCHANGED ALO!vars
      OBVIOUS
    <2> QED
      BY NextIsStep, OutboxRefines, DeliveryRefines, PublishRefines
  <1> QED
    BY <1>1, <1>2, PipelineInvariant, PTL DEF Spec, DeliversAtLeastOnce, ALO!Spec

-----------------------------------------------------------------------------
(* The pipeline inside processes that start, drain, stop and die.          *)

(* The steps of a process that leave the pipeline alone. *)
ProcessStep(p) ==
  \/ Start(p) \/ Bootstrap(p) \/ Drain(p) \/ Close(p) \/ Stop(p)
  \/ \E c \in Consumers : Subscribe(p, c) \/ Unsubscribe(p, c)
  \/ \E part \in PlatformParts : Halt(p, part)

(* The steps in which no worker and no process takes part. *)
AmbientStep ==
  UNCHANGED <<dispatchVars, loopVars, processVars, names>>

(* A step is one of a process, its death, one of its worker or of a loop, or
   it is a writer's, the clock's or the operator's. *)
LEMMA LifecycleCases ==
  ASSUME [LifecycleNext]_lifecycleVars
  PROVE  \/ \E p \in Processes : ProcessStep(p) /\ UNCHANGED <<vars, names>>
         \/ \E p \in Processes : Kill(p)
         \/ \E p \in Processes : Worker(p)
         \/ \E l \in Loops : Loop(l)
         \/ AmbientStep
  <1> USE DEF AmbientStep
  <1>1. ASSUME NEW p \in Processes,
               \/ Start(p) \/ Bootstrap(p) \/ Drain(p) \/ Stopping(p)
               \/ \E c \in Consumers : Subscribe(p, c)
        PROVE  ProcessStep(p) /\ UNCHANGED <<vars, names>>
    BY <1>1 DEF ProcessStep, Start, Bootstrap, Drain, Stopping, Close, Stop, Subscribe,
       Unsubscribe, Halt
  <1>2. ASSUME NEW e \in Events, Enqueue(e), UNCHANGED <<mailboxVars, processVars, names>>
        PROVE  AmbientStep
    BY <1>2 DEF Enqueue, mailboxVars
  <1>3. ASSUME NEW e \in Events, OutboxTime(e), UNCHANGED <<processVars, names>>
        PROVE  AmbientStep
    BY <1>3 DEF OutboxTime, OutboxLeaseExpires, OutboxBackoffEnds, mailboxVars
  <1>4. ASSUME NEW r \in Receipts, MailboxTime(r), UNCHANGED <<processVars, names>>
        PROVE  AmbientStep
    BY <1>4 DEF MailboxTime, ReceiptLeaseExpires, ReceiptBackoffEnds, outboxVars
  <1>5. ASSUME Maintenance, UNCHANGED <<processVars, names>>
        PROVE  AmbientStep
    BY <1>5 DEF Maintenance, OutboxRequeue, MailboxRequeue, OutboxPrune, MailboxPrune,
       mailboxVars, outboxVars
  <1>6. ASSUME UNCHANGED lifecycleVars
        PROVE  AmbientStep
    BY <1>6 DEF lifecycleVars, vars, outboxVars, mailboxVars
  <1> QED
    BY <1>1, <1>2, <1>3, <1>4, <1>5, <1>6 DEF LifecycleNext

(* Whatever a process does, outbox and mailbox take one of their own steps;
   a worker may accept an event for some of the consumers only. *)
LEMMA LifecycleSteps ==
  ASSUME ProcessInv, [LifecycleNext]_lifecycleVars
  PROVE  OutboxStep /\ MailboxStep
  <1> USE LifecycleAssumption
  <1>1. UNCHANGED outboxVars => OutboxStep
    BY DEF OutboxStep
  <1>2. UNCHANGED mailboxVars => MailboxStep
    BY DEF MailboxStep, DeliveryStep
  <1>3. ASSUME NEW p \in Processes, ProcessStep(p), UNCHANGED <<vars, names>>
        PROVE  OutboxStep /\ MailboxStep
    BY <1>1, <1>2, <1>3 DEF vars
  <1>4. ASSUME NEW p \in Processes, Kill(p)
        PROVE  OutboxStep /\ MailboxStep
    <2>1. OutboxStep
      BY <1>4 DEF Kill, OutboxStep
    <2>2. LoopsReturn(LoopsOf(p)) /\ LoopsOf(p) \in SUBSET Loops
      BY <1>4 DEF Kill, LoopsReturn, LoopsOf
    <2>3. UNCHANGED <<receiptRows, handled, claims>>
      BY <1>4 DEF Kill
    <2> QED
      BY <2>1, <2>2, <2>3 DEF MailboxStep, DeliveryStep
  <1>5. ASSUME NEW p \in Processes, Worker(p)
        PROVE  OutboxStep /\ MailboxStep
    <2> DEFINE d == DispatcherOf[p]
    <2>1. d \in Dispatchers /\ FALSE \in BOOLEAN
      OBVIOUS
    <2>2. CASE WorkerPoll(p)
      BY <1>2, <2>1, <2>2 DEF WorkerPoll, OutboxStep
    <2>3. CASE PublishCall(p)
      BY <1>1, <1>2, <2>3 DEF PublishCall, vars
    <2>4. CASE PublishCanceled(p)
      BY <1>2, <2>1, <2>4 DEF PublishCanceled, OutboxStep
    <2>5. ASSUME NEW ok \in BOOLEAN, PublishCommits(p, ok)
          PROVE  OutboxStep /\ MailboxStep
      <3>1. OutboxStep
        BY <2>1, <2>5 DEF PublishCommits, OutboxStep
      <3>2. dEvent[d] \in Events
        BY <2>1, <2>5 DEF PublishCommits, DispatchPublished, ProcessInv, OutboxInv,
           OutboxTypeOK, OutboxLeases
      <3>3. names[d] \in SUBSET Consumers
        BY <2>1, <2>5 DEF PublishCommits, ProcessInv, LifecycleTypeOK
      <3> QED
        BY <2>5, <3>1, <3>2, <3>3 DEF PublishCommits, MailboxStep
    <2>6. CASE PublishRollsBack(p)
      BY <1>2, <2>1, <2>6 DEF PublishRollsBack, OutboxStep
    <2>7. CASE WorkerFinish(p)
      <3>1. OutboxStep
        BY <2>1, <2>7, DispatcherReturnIsStep DEF WorkerFinish, OutboxStep
      <3> QED
        BY <1>2, <2>7, <3>1 DEF WorkerFinish
    <2> QED
      BY <1>5, <2>2, <2>3, <2>4, <2>5, <2>6, <2>7 DEF Worker
  <1>6. ASSUME NEW l \in Loops, Loop(l)
        PROVE  OutboxStep /\ MailboxStep
    <2>1. CASE LoopPoll(l)
      BY <1>1, <2>1 DEF LoopPoll, MailboxStep, DeliveryStep
    <2>2. CASE LoopFinish(l)
      <3>1. DeliverLeaseLost(l) \/ DeliverAbandon(l) => DeliveryStep
        BY LoopReturnIsStep DEF ProcessInv, MailboxInv
      <3> QED
        BY <1>1, <2>2, <3>1 DEF LoopFinish, MailboxStep, DeliveryStep
    <2> QED
      BY <1>6, <2>1, <2>2 DEF Loop
  <1>7. ASSUME NEW e \in Events, Enqueue(e), UNCHANGED mailboxVars
        PROVE  OutboxStep /\ MailboxStep
    BY <1>2, <1>7 DEF OutboxStep
  <1>8. ASSUME NEW e \in Events, OutboxTime(e)
        PROVE  OutboxStep /\ MailboxStep
    BY <1>2, <1>8 DEF OutboxTime, OutboxStep
  <1>9. ASSUME NEW r \in Receipts, MailboxTime(r)
        PROVE  OutboxStep /\ MailboxStep
    BY <1>1, <1>9 DEF MailboxTime, MailboxStep, DeliveryStep
  <1>10. CASE Maintenance
    <2>1. ASSUME NEW S \in OneOrAll({e \in Events : oState[e] = "dead"})
          PROVE  S \in SUBSET Events
      BY DEF OneOrAll
    <2>2. ASSUME NEW c \in Consumers,
                 NEW S \in OneOrAll({r \in Receipts : r[2] = c /\ rState[r] = "dead"})
          PROVE  S \in SUBSET Receipts
      BY DEF OneOrAll
    <2> QED
      BY <1>10, <2>1, <2>2 DEF Maintenance, OutboxStep, MailboxStep, DeliveryStep
  <1>11. CASE UNCHANGED lifecycleVars
    BY <1>1, <1>2, <1>11 DEF lifecycleVars, vars
  <1>12. ASSUME NEW p \in Processes,
                \/ Start(p) \/ Bootstrap(p) \/ Drain(p) \/ Stopping(p)
                \/ \E c \in Consumers : Subscribe(p, c)
         PROVE  OutboxStep /\ MailboxStep
    <2>1. UNCHANGED vars
      BY <1>12 DEF Start, Bootstrap, Drain, Stopping, Close, Stop, Subscribe, Unsubscribe,
         Halt
    <2> QED
      BY <1>1, <1>2, <2>1 DEF vars
  <1> QED
    BY <1>4, <1>5, <1>6, <1>7, <1>8, <1>9, <1>10, <1>11, <1>12 DEF LifecycleNext

(* A worker's step changes its own dispatcher only, and neither process state
   nor delivery loops. *)
LEMMA WorkerIsLocal ==
  ASSUME ProcessInv, NEW p \in Processes, Worker(p)
  PROVE  /\ UNCHANGED <<processVars, loopVars>>
         /\ \A d \in Dispatchers \ {DispatcherOf[p]} :
              /\ dPc'[d] = dPc[d] /\ dEvent'[d] = dEvent[d]
              /\ dOk'[d] = dOk[d] /\ names'[d] = names[d]
  <1> USE LifecycleAssumption
          DEF ProcessInv, OutboxInv, OutboxTypeOK, LifecycleTypeOK, dispatchVars, mailboxVars,
              vars, outboxVars
  <1>1. CASE WorkerPoll(p)
    BY <1>1 DEF WorkerPoll, DispatchClaim, DispatchNothing
  <1>2. CASE PublishCall(p)
    BY <1>2 DEF PublishCall
  <1>3. CASE PublishCanceled(p)
    BY <1>3 DEF PublishCanceled, DispatchPublished
  <1>4. ASSUME NEW ok \in BOOLEAN, PublishCommits(p, ok)
        PROVE  /\ UNCHANGED <<processVars, loopVars>>
               /\ \A d \in Dispatchers \ {DispatcherOf[p]} :
                    /\ dPc'[d] = dPc[d] /\ dEvent'[d] = dEvent[d]
                    /\ dOk'[d] = dOk[d] /\ names'[d] = names[d]
    BY <1>4 DEF PublishCommits, DispatchPublished, AcceptFor
  <1>5. CASE PublishRollsBack(p)
    BY <1>5 DEF PublishRollsBack, DispatchPublished
  <1>6. CASE WorkerFinish(p)
    BY <1>6 DEF WorkerFinish, DispatchFinish, DispatchLeaseLost, DispatchAbandon,
       DispatchReturns
  <1> QED
    BY <1>1, <1>2, <1>3, <1>4, <1>5, <1>6 DEF Worker

(* A loop's step changes its own program counter only, of all that concerns
   the processes. *)
LEMMA LoopIsLocal ==
  ASSUME ProcessInv, NEW l \in Loops, Loop(l)
  PROVE  /\ UNCHANGED <<processVars, dispatchVars, names>>
         /\ \A k \in Loops \ {l} : lPc'[k] = lPc[k]
  <1> USE DEF ProcessInv, MailboxInv, MailboxTypeOK, outboxVars
  <1>1. CASE LoopPoll(l)
    BY <1>1 DEF LoopPoll, DeliverClaim, DeliverNothing, loopVars
  <1>2. CASE LoopFinish(l)
    BY <1>2 DEF LoopFinish, DeliverHandled, DeliverFinish, DeliverLeaseLost,
       DeliverAbandon, DeliverReturns
  <1> QED
    BY <1>1, <1>2 DEF Loop

(* Only a process that serves has a worker at work. *)
LEMMA WorkerServes ==
  ASSUME ProcessInv, NEW p \in Processes, Worker(p)
  PROVE  phase[p] \in {"running", "draining", "destroying"}
  <1>1. DispatcherOf[p] \in Dispatchers
    BY LifecycleAssumption
  <1>2. CASE WorkerPoll(p)
    BY <1>2 DEF WorkerPoll, Serving
  <1>3. CASE ~WorkerPoll(p)
    <2>1. dPc[DispatcherOf[p]] # "idle"
      BY <1>1, <1>3 DEF Worker, PublishCall, PublishCanceled, PublishCommits,
         PublishRollsBack, WorkerFinish, DispatchPublished
    <2>2. phase[p] \in Phases
      BY DEF ProcessInv, LifecycleTypeOK
    <2> QED
      BY <2>1, <2>2 DEF ProcessInv, DownIsQuiet, WorkerIdle, Phases
  <1> QED
    BY <1>2, <1>3

(* And only such a process has a delivery loop at work. *)
LEMMA LoopServes ==
  ASSUME ProcessInv, NEW l \in Loops, Loop(l)
  PROVE  phase[ProcessOf[l]] \in {"running", "draining", "destroying"}
  <1>1. ProcessOf[l] \in Processes
    BY LifecycleAssumption
  <1>2. CASE LoopPoll(l)
    BY <1>2 DEF LoopPoll, Serving
  <1>3. CASE LoopFinish(l)
    <2>1. lPc[l] # "idle"
      BY <1>3 DEF LoopFinish, DeliverHandled, DeliverFinish, DeliverLeaseLost
    <2>2. phase[ProcessOf[l]] \in Phases
      BY <1>1 DEF ProcessInv, LifecycleTypeOK
    <2> QED
      BY <1>1, <2>1, <2>2 DEF ProcessInv, DownIsQuiet, LoopsIdle, LoopsOf, Phases
  <1> QED
    BY <1>2, <1>3 DEF Loop

(* The types of the process state. *)
LEMMA LifecycleTyped ==
  ASSUME ProcessInv, [LifecycleNext]_lifecycleVars, TypeOK'
  PROVE  LifecycleTypeOK'
  <1> USE LifecycleAssumption DEF ProcessInv, LifecycleTypeOK, processVars
  <1>1. ASSUME NEW p \in Processes, ProcessStep(p), UNCHANGED <<vars, names>>
        PROVE  LifecycleTypeOK'
    BY <1>1 DEF ProcessStep, Start, Bootstrap, Drain, Close, Stop, Subscribe, Unsubscribe,
       Halt, Phases, PlatformParts
  <1>2. ASSUME NEW p \in Processes, Kill(p)
        PROVE  LifecycleTypeOK'
    BY <1>2 DEF Kill, Phases, PlatformParts
  <1>3. ASSUME NEW p \in Processes, Worker(p)
        PROVE  LifecycleTypeOK'
    <2>1. names' \in [Dispatchers -> (SUBSET Consumers) \cup {None}]
      BY <1>3 DEF Worker, WorkerPoll, PublishCall, PublishCanceled, PublishCommits,
         PublishRollsBack, WorkerFinish
    <2> QED
      BY <1>3, <2>1, WorkerIsLocal
  <1>4. ASSUME NEW l \in Loops, Loop(l)
        PROVE  LifecycleTypeOK'
    BY <1>4, LoopIsLocal
  <1>5. CASE AmbientStep
    BY <1>5 DEF AmbientStep
  <1> QED
    BY <1>1, <1>2, <1>3, <1>4, <1>5, LifecycleCases

(* A stopped process is quiet: the hooks have awaited its worker and loops,
   a death ends them, and nobody else touches them. *)
LEMMA StoppedIsQuiet ==
  ASSUME ProcessInv, [LifecycleNext]_lifecycleVars
  PROVE  DownIsQuiet'
  <1> SUFFICES ASSUME NEW q \in Processes
               PROVE  /\ phase'[q] \in {"down", "starting"} => WorkerIdle(q)' /\ LoopsIdle(q)'
                      /\ phase'[q] = "down" => subs'[q] = {}
    BY DEF DownIsQuiet
  <1>1. /\ phase[q] \in {"down", "starting"} => WorkerIdle(q) /\ LoopsIdle(q)
        /\ phase[q] = "down" => subs[q] = {}
    BY DEF ProcessInv, DownIsQuiet
  <1>2. /\ DispatcherOf[q] \in Dispatchers
        /\ \A p \in Processes : p # q => DispatcherOf[p] # DispatcherOf[q]
        /\ \A l \in LoopsOf(q) : l \in Loops /\ ProcessOf[l] = q
    BY LifecycleAssumption DEF LoopsOf
  <1>3. phase \in [Processes -> Phases] /\ subs \in [Processes -> SUBSET Consumers]
    BY DEF ProcessInv, LifecycleTypeOK
  <1>4. ASSUME NEW p \in Processes, ProcessStep(p), UNCHANGED <<vars, names>>
        PROVE  /\ phase'[q] \in {"down", "starting"} => WorkerIdle(q)' /\ LoopsIdle(q)'
               /\ phase'[q] = "down" => subs'[q] = {}
    <2>1. WorkerIdle(q)' <=> WorkerIdle(q)
      BY <1>4 DEF vars, outboxVars, dispatchVars, WorkerIdle
    <2>2. LoopsIdle(q)' <=> LoopsIdle(q)
      BY <1>4 DEF vars, mailboxVars, loopVars, LoopsIdle, LoopsOf
    <2>3. CASE Stop(p)
      <3>1. WorkerIdle(p) /\ LoopsIdle(p)
        BY <2>3 DEF Stop, PlatformParts, HookReturned
      <3>2. subs[p] = {}
        BY <2>3 DEF Stop, PlatformParts, ProcessInv, HooksInOrder
      <3> QED
        BY <1>1, <1>3, <2>1, <2>2, <2>3, <3>1, <3>2 DEF Stop
    <2>4. CASE ~Stop(p)
      BY <1>1, <1>3, <1>4, <2>1, <2>2, <2>4
      DEF ProcessStep, Start, Bootstrap, Drain, Close, Subscribe, Unsubscribe, Halt
    <2> QED
      BY <2>3, <2>4
  <1>5. ASSUME NEW p \in Processes, Kill(p)
        PROVE  /\ phase'[q] \in {"down", "starting"} => WorkerIdle(q)' /\ LoopsIdle(q)'
               /\ phase'[q] = "down" => subs'[q] = {}
    <2>1. dPc'[DispatcherOf[q]] = IF p = q THEN "idle" ELSE dPc[DispatcherOf[q]]
      BY <1>2, <1>5 DEF Kill, DispatchReturns, ProcessInv, OutboxInv, OutboxTypeOK
    <2>2. \A l \in LoopsOf(q) : lPc'[l] = IF p = q THEN "idle" ELSE lPc[l]
      BY <1>2, <1>5 DEF Kill, LoopsOf
    <2>3. /\ p # q => phase'[q] = phase[q] /\ subs'[q] = subs[q]
          /\ p = q => subs'[q] = {}
      BY <1>3, <1>5 DEF Kill
    <2> QED
      BY <1>1, <2>1, <2>2, <2>3 DEF WorkerIdle, LoopsIdle, LoopsOf
  <1>6. ASSUME NEW p \in Processes, Worker(p)
        PROVE  /\ phase'[q] \in {"down", "starting"} => WorkerIdle(q)' /\ LoopsIdle(q)'
               /\ phase'[q] = "down" => subs'[q] = {}
    <2>1. UNCHANGED <<phase, subs, lPc>>
      BY <1>6, WorkerIsLocal DEF processVars, loopVars
    <2>2. phase[p] \in {"running", "draining", "destroying"}
      BY <1>6, WorkerServes
    <2>3. p # q => dPc'[DispatcherOf[q]] = dPc[DispatcherOf[q]]
      BY <1>2, <1>6, WorkerIsLocal
    <2> QED
      BY <1>1, <2>1, <2>2, <2>3 DEF WorkerIdle, LoopsIdle, LoopsOf
  <1>7. ASSUME NEW l \in Loops, Loop(l)
        PROVE  /\ phase'[q] \in {"down", "starting"} => WorkerIdle(q)' /\ LoopsIdle(q)'
               /\ phase'[q] = "down" => subs'[q] = {}
    <2>1. UNCHANGED <<phase, subs, dPc>> /\ \A k \in Loops \ {l} : lPc'[k] = lPc[k]
      BY <1>7, LoopIsLocal DEF processVars, dispatchVars
    <2>2. phase[ProcessOf[l]] \in {"running", "draining", "destroying"}
      BY <1>7, LoopServes
    <2> QED
      BY <1>1, <1>2, <2>1, <2>2 DEF WorkerIdle, LoopsIdle, LoopsOf
  <1>8. CASE AmbientStep
    BY <1>1, <1>8 DEF AmbientStep, dispatchVars, loopVars, processVars, WorkerIdle,
       LoopsIdle, LoopsOf
  <1> QED
    BY <1>4, <1>5, <1>6, <1>7, <1>8, LifecycleCases

(* The hooks keep their order. *)
LEMMA OrderKept ==
  ASSUME ProcessInv, [LifecycleNext]_lifecycleVars
  PROVE  HooksInOrder'
  <1> USE DEF ProcessInv, LifecycleTypeOK, HooksInOrder
  <1>1. ASSUME NEW p \in Processes, ProcessStep(p)
        PROVE  HooksInOrder'
    <2>1. CASE Start(p) \/ Bootstrap(p) \/ Drain(p) \/ Close(p)
      BY <2>1 DEF Start, Bootstrap, Drain, Close
    <2>2. CASE Stop(p)
      BY <2>2 DEF Stop
    <2>3. ASSUME NEW c \in Consumers, Subscribe(p, c) \/ Unsubscribe(p, c)
          PROVE  HooksInOrder'
      BY <2>3 DEF Subscribe, Unsubscribe
    <2>4. ASSUME NEW part \in PlatformParts, Halt(p, part)
          PROVE  HooksInOrder'
      BY <2>4 DEF Halt
    <2> QED
      BY <1>1, <2>1, <2>2, <2>3, <2>4 DEF ProcessStep
  <1>2. ASSUME NEW p \in Processes, Kill(p)
        PROVE  HooksInOrder'
    BY <1>2 DEF Kill
  <1>3. CASE UNCHANGED processVars
    BY <1>3 DEF processVars
  <1> QED
    BY <1>1, <1>2, <1>3, LifecycleCases, WorkerIsLocal, LoopIsLocal DEF AmbientStep

(* A consumer stays withdrawn while the dispatcher of its process is at work:
   only a process that has stopped or died forgets. *)
LEMMA WithdrawnStable ==
  ASSUME ProcessInv, [LifecycleNext]_lifecycleVars,
         NEW d \in Dispatchers, dPc'[d] # "idle",
         NEW c \in Consumers, Withdrawn(d, c)
  PROVE  Withdrawn(d, c)'
  <1>1. PICK q \in Processes :
          DispatcherOf[q] = d /\ phase[q] = "destroying" /\ c \notin subs[q]
    BY DEF Withdrawn
  <1>2. phase'[q] # "destroying" => phase'[q] = "down"
    <2> USE DEF ProcessInv, LifecycleTypeOK
    <2>1. ASSUME NEW p \in Processes, ProcessStep(p)
          PROVE  phase'[q] # "destroying" => phase'[q] = "down"
      BY <1>1, <2>1 DEF ProcessStep, Start, Bootstrap, Drain, Close, Stop, Subscribe,
         Unsubscribe, Halt
    <2>2. ASSUME NEW p \in Processes, Kill(p)
          PROVE  phase'[q] # "destroying" => phase'[q] = "down"
      BY <1>1, <2>2 DEF Kill
    <2>3. CASE UNCHANGED processVars
      BY <1>1, <2>3 DEF processVars
    <2> QED
      BY <2>1, <2>2, <2>3, LifecycleCases, WorkerIsLocal, LoopIsLocal DEF AmbientStep
  <1>3. phase'[q] # "down"
    BY <1>1, StoppedIsQuiet DEF DownIsQuiet, WorkerIdle
  <1>4. c \notin subs'[q]
    <2> USE DEF ProcessInv, LifecycleTypeOK
    <2>1. ASSUME NEW p \in Processes, ProcessStep(p)
          PROVE  c \notin subs'[q]
      BY <1>1, <2>1 DEF ProcessStep, Start, Bootstrap, Drain, Close, Stop, Subscribe,
         Unsubscribe, Halt
    <2>2. ASSUME NEW p \in Processes, Kill(p)
          PROVE  c \notin subs'[q]
      BY <1>1, <2>2 DEF Kill
    <2>3. CASE UNCHANGED processVars
      BY <1>1, <2>3 DEF processVars
    <2> QED
      BY <2>1, <2>2, <2>3, LifecycleCases, WorkerIsLocal, LoopIsLocal DEF AmbientStep
  <1> QED
    BY <1>1, <1>2, <1>3, <1>4 DEF Withdrawn

(* A publish in flight was in flight before, or is called in this step. *)
LEMMA NamesStep ==
  ASSUME ProcessInv, [LifecycleNext]_lifecycleVars,
         NEW d \in Dispatchers, names'[d] # None
  PROVE  /\ dPc'[d] = "publishing"
         /\ \/ names[d] = names'[d]
            \/ \E p \in Processes : DispatcherOf[p] = d /\ PublishCall(p)
  <1> DEFINE Goal == /\ dPc'[d] = "publishing"
                     /\ \/ names[d] = names'[d]
                        \/ \E p \in Processes : DispatcherOf[p] = d /\ PublishCall(p)
  <1> USE LifecycleAssumption
          DEF ProcessInv, OutboxInv, OutboxTypeOK, LifecycleTypeOK, dispatchVars
  <1>1. names[d] # None => dPc[d] = "publishing"
    BY DEF PassedOverIsWithdrawn
  <1>2. ASSUME UNCHANGED <<dPc, names>>
        PROVE  Goal
    BY <1>1, <1>2
  <1>3. ASSUME NEW p \in Processes, Kill(p)
        PROVE  Goal
    BY <1>1, <1>3 DEF Kill, DispatchReturns
  <1>4. ASSUME NEW p \in Processes, Worker(p)
        PROVE  Goal
    <2>1. CASE d # DispatcherOf[p]
      BY <1>1, <1>4, <2>1, WorkerIsLocal
    <2>2. CASE d = DispatcherOf[p]
      <3>1. CASE WorkerPoll(p)
        BY <1>1, <2>2, <3>1 DEF WorkerPoll, DispatchClaim, DispatchNothing
      <3>2. CASE PublishCall(p)
        BY <2>2, <3>2 DEF PublishCall, vars, outboxVars
      <3>3. CASE PublishCanceled(p) \/ (\E ok \in BOOLEAN : PublishCommits(p, ok))
                 \/ PublishRollsBack(p)
        BY <2>2, <3>3 DEF PublishCanceled, PublishCommits, PublishRollsBack
      <3>4. CASE WorkerFinish(p)
        BY <1>1, <2>2, <3>4 DEF WorkerFinish
      <3> QED
        BY <1>4, <3>1, <3>2, <3>3, <3>4 DEF Worker
    <2> QED
      BY <2>1, <2>2
  <1> QED
    BY <1>2, <1>3, <1>4, LifecycleCases, LoopIsLocal DEF AmbientStep, vars, outboxVars

(* A dispatcher that holds a durable receipt held it before, or its publish
   commits in this step. *)
LEMMA FinishingStep ==
  ASSUME ProcessInv, [LifecycleNext]_lifecycleVars,
         NEW d \in Dispatchers, dPc'[d] = "finishing", dOk'[d]
  PROVE  \/ dPc[d] = "finishing"
         \/ \E p \in Processes : DispatcherOf[p] = d /\ PublishCommits(p, TRUE)
  <1> DEFINE Goal == \/ dPc[d] = "finishing"
                     \/ \E p \in Processes : DispatcherOf[p] = d /\ PublishCommits(p, TRUE)
  <1> USE LifecycleAssumption
          DEF ProcessInv, OutboxInv, OutboxTypeOK, LifecycleTypeOK, dispatchVars
  <1>1. ASSUME UNCHANGED dPc
        PROVE  Goal
    BY <1>1
  <1>2. ASSUME NEW p \in Processes, Kill(p)
        PROVE  Goal
    BY <1>2 DEF Kill, DispatchReturns
  <1>3. ASSUME NEW p \in Processes, Worker(p)
        PROVE  Goal
    <2>1. CASE d # DispatcherOf[p]
      BY <1>3, <2>1, WorkerIsLocal
    <2>2. CASE d = DispatcherOf[p]
      <3>1. CASE WorkerPoll(p)
        BY <2>2, <3>1 DEF WorkerPoll, DispatchClaim, DispatchNothing
      <3>2. CASE PublishCall(p)
        BY <2>2, <3>2 DEF PublishCall, vars, outboxVars
      <3>3. CASE PublishCanceled(p) \/ PublishRollsBack(p)
        BY <2>2, <3>3 DEF PublishCanceled, PublishRollsBack, DispatchPublished
      <3>4. ASSUME NEW ok \in BOOLEAN, PublishCommits(p, ok)
            PROVE  Goal
        <4>1. dOk'[d] = ok
          BY <2>2, <3>4 DEF PublishCommits, DispatchPublished
        <4>2. ok = TRUE
          BY <4>1
        <4>3. PublishCommits(p, TRUE)
          BY <3>4, <4>2
        <4> QED
          BY <2>2, <4>3
      <3>5. CASE WorkerFinish(p)
        BY <2>2, <3>5 DEF WorkerFinish
      <3> QED
        BY <1>3, <3>1, <3>2, <3>3, <3>4, <3>5 DEF Worker
    <2> QED
      BY <2>1, <2>2
  <1> QED
    BY <1>1, <1>2, <1>3, LifecycleCases, LoopIsLocal DEF AmbientStep, vars, outboxVars

(* No publish passes over a consumer that has not withdrawn. *)
LEMMA PassedOverKept ==
  ASSUME ProcessInv, [LifecycleNext]_lifecycleVars
  PROVE  PassedOverIsWithdrawn'
  <1>1. OutboxInv /\ MailboxInv /\ OutboxStep /\ MailboxStep
    BY LifecycleSteps DEF ProcessInv
  <1>2. ASSUME NEW d \in Dispatchers, names'[d] # None
        PROVE  /\ dPc'[d] = "publishing"
               /\ \A c \in Consumers \ names'[d] : Withdrawn(d, c)'
    <2>1. dPc'[d] = "publishing"
      BY <1>2, NamesStep
    <2> SUFFICES ASSUME NEW c \in Consumers, c \notin names'[d]
                 PROVE  Withdrawn(d, c)'
      BY <2>1
    <2>2. CASE names[d] = names'[d]
      <3>1. Withdrawn(d, c)
        BY <1>2, <2>2 DEF ProcessInv, PassedOverIsWithdrawn
      <3> QED
        BY <2>1, <3>1, WithdrawnStable
    <2>3. ASSUME NEW p \in Processes, DispatcherOf[p] = d, PublishCall(p)
          PROVE  Withdrawn(d, c)'
      <3>1. c \notin subs[p]
        BY <2>3 DEF PublishCall, ProcessInv, LifecycleTypeOK
      <3>2. phase[p] = "destroying"
        BY <2>3, <3>1, WorkerServes DEF Worker, ProcessInv, HooksInOrder
      <3>3. Withdrawn(d, c)
        BY <2>3, <3>1, <3>2 DEF Withdrawn
      <3> QED
        BY <2>1, <3>3, WithdrawnStable
    <2> QED
      BY <1>2, <2>2, <2>3, NamesStep
  <1>3. ASSUME NEW d \in Dispatchers, dPc'[d] = "finishing", dOk'[d],
               NEW r \in Receipts, r[1] = dEvent'[d]
        PROVE  Known(r)' \/ Withdrawn(d, r[2])'
    <2>1. r[2] \in Consumers /\ r[1] \in Events
      BY DEF Receipts
    <2>2. CASE dPc[d] = "finishing"
      <3>1. dEvent'[d] = dEvent[d] /\ dOk'[d] = dOk[d]
        BY <1>1, <1>3, <2>2, FinishingUnchanged
      <3>2. Known(r) \/ Withdrawn(d, r[2])
        BY <1>3, <2>2, <3>1 DEF ProcessInv, PassedOverIsWithdrawn
      <3>3. Known(r) => Known(r)'
        BY <1>1, KnownStable
      <3>4. \A c \in Consumers : Withdrawn(d, c) => Withdrawn(d, c)'
        BY <1>3, WithdrawnStable
      <3> QED
        BY <2>1, <3>2, <3>3, <3>4
    <2>3. ASSUME NEW p \in Processes, DispatcherOf[p] = d, PublishCommits(p, TRUE)
          PROVE  Known(r)' \/ Withdrawn(d, r[2])'
      <3>1. dEvent'[d] = dEvent[d] /\ names[d] # None /\ AcceptFor(dEvent[d], names[d])
        BY <2>3 DEF PublishCommits, DispatchPublished
      <3>2. CASE r[2] \in names[d]
        BY <1>3, <3>1, <3>2 DEF AcceptFor, MissingReceipts, Known, ProcessInv, MailboxInv,
           MailboxTypeOK
      <3>3. CASE r[2] \notin names[d]
        <4>1. Withdrawn(d, r[2])
          BY <2>1, <3>1, <3>3 DEF ProcessInv, PassedOverIsWithdrawn
        <4>2. \A c \in Consumers : Withdrawn(d, c) => Withdrawn(d, c)'
          BY <1>3, WithdrawnStable
        <4> QED
          BY <2>1, <4>1, <4>2
      <3> QED
        BY <3>2, <3>3
    <2> QED
      BY <1>3, <2>2, <2>3, FinishingStep
  <1> QED
    BY <1>2, <1>3 DEF PassedOverIsWithdrawn

(* Whom a process publishes for follows: before it destroys its modules no
   consumer has withdrawn. *)
LEMMA PublishesForAllFollows ==
  LifecycleTypeOK /\ PassedOverIsWithdrawn => PublishesForAll
  <1> SUFFICES ASSUME LifecycleTypeOK, PassedOverIsWithdrawn,
                      NEW p \in Processes, phase[p] \in {"running", "draining"},
                      names[DispatcherOf[p]] # None
               PROVE  names[DispatcherOf[p]] = Consumers
    BY DEF PublishesForAll
  <1>1. DispatcherOf[p] \in Dispatchers
    BY LifecycleAssumption
  <1>2. names[DispatcherOf[p]] \in SUBSET Consumers
    BY <1>1 DEF LifecycleTypeOK
  <1>3. \A c \in Consumers \ names[DispatcherOf[p]] : Withdrawn(DispatcherOf[p], c)
    BY <1>1 DEF PassedOverIsWithdrawn
  <1>4. \A c \in Consumers : ~Withdrawn(DispatcherOf[p], c)
    BY LifecycleAssumption DEF Withdrawn
  <1> QED
    BY <1>2, <1>3, <1>4

(* The processes' inductive invariant: an event is published for every
   consumer until the modules are destroyed, and a stopped process has
   stopped, for any number of processes, workers, loops and consumers. *)
THEOREM ProcessesInvariant == LifecycleSpec => []ProcessInv
  <1>1. LifecycleInit => ProcessInv
    <2> SUFFICES ASSUME LifecycleInit
                 PROVE  ProcessInv
      OBVIOUS
    <2>1. OutboxInv /\ MailboxInv
      BY OutboxInitially, MailboxInitially DEF LifecycleInit, Init
    <2>2. LifecycleTypeOK
      BY <2>1, LifecycleAssumption DEF LifecycleInit, LifecycleTypeOK, TypeOK, OutboxInv,
         MailboxInv, Phases, PlatformParts
    <2>3. PublishesForAll /\ HooksInOrder
      BY LifecycleAssumption DEF LifecycleInit, PublishesForAll, HooksInOrder
    <2>4. DownIsQuiet
      BY LifecycleAssumption DEF LifecycleInit, Init, OutboxInit, MailboxInit, DownIsQuiet,
         WorkerIdle, LoopsIdle, LoopsOf
    <2>5. PassedOverIsWithdrawn
      BY DEF LifecycleInit, Init, OutboxInit, PassedOverIsWithdrawn
    <2> QED
      BY <2>1, <2>2, <2>3, <2>4, <2>5 DEF ProcessInv
  <1>2. ProcessInv /\ [LifecycleNext]_lifecycleVars => ProcessInv'
    <2> SUFFICES ASSUME ProcessInv, [LifecycleNext]_lifecycleVars
                 PROVE  ProcessInv'
      OBVIOUS
    <2>1. OutboxInv' /\ MailboxInv'
      BY LifecycleSteps, OutboxPreserved, MailboxPreserved DEF ProcessInv
    <2>2. TypeOK'
      BY <2>1 DEF TypeOK, OutboxInv, MailboxInv
    <2>3. LifecycleTypeOK'
      BY <2>2, LifecycleTyped
    <2>4. DownIsQuiet' /\ HooksInOrder' /\ PassedOverIsWithdrawn'
      BY StoppedIsQuiet, OrderKept, PassedOverKept
    <2>5. LifecycleTypeOK' /\ PassedOverIsWithdrawn' => PublishesForAll'
      BY PublishesForAllFollows, PTL
    <2> QED
      BY <2>1, <2>3, <2>4, <2>5 DEF ProcessInv
  <1> QED
    BY <1>1, <1>2, PTL DEF LifecycleSpec

(* An event is lost to a consumer only while a process that publishes it has
   destroyed the consumer's module: starting, draining, crashing and
   restarting lose nothing, however many processes there are. *)
THEOREM LossOnlyInDestruction == LifecycleSpec => LossOnlyWhileDestroying
  <1> DEFINE Accounted ==
        \A r \in Receipts :
          ~Lost(r) /\ Lost(r)' =>
            \E p \in Processes : phase[p] = "destroying" /\ r[2] \notin subs[p]
  <1>1. ProcessInv /\ ProcessInv' /\ [LifecycleNext]_lifecycleVars => Accounted
    <2> SUFFICES ASSUME ProcessInv, ProcessInv', [LifecycleNext]_lifecycleVars,
                        NEW r \in Receipts, ~Lost(r), Lost(r)'
                 PROVE  \E p \in Processes : phase[p] = "destroying" /\ r[2] \notin subs[p]
      OBVIOUS
    <2>1. OutboxInv /\ MailboxInv /\ OutboxStep /\ MailboxStep
      BY LifecycleSteps DEF ProcessInv
    <2>2. r[1] \in Events
      BY DEF Receipts
    <2>3. /\ r[1] \in committed' /\ r \notin handled'
          /\ rState'[r] \notin {"pending", "dead"} /\ oState'[r[1]] \notin {"pending", "dead"}
      BY DEF Lost
    <2>4. ~Known(r)'
      BY <2>3 DEF ProcessInv, MailboxInv, MailboxTypeOK, ReceiptStates, ProcessedWasHandled,
         Known
    <2>5. ~Known(r)
      BY <2>1, <2>4, KnownStable
    <2>6. \A e \in Events : ~Enqueue(e)
      <3> SUFFICES ASSUME NEW e \in Events, Enqueue(e)
                   PROVE  FALSE
        OBVIOUS
      <3>1. oState \in [Events -> RowStates]
        BY <2>1 DEF OutboxInv, OutboxTypeOK
      <3>2. r[1] # e
        BY <2>2, <2>3, <3>1 DEF Enqueue
      <3>3. r[1] \in committed /\ oState'[r[1]] = oState[r[1]]
        BY <2>2, <2>3, <3>1, <3>2 DEF Enqueue
      <3> QED
        BY <2>3, <2>5, <3>3 DEF Lost, Known
    <2>7. committed' = committed
      BY <2>1, <2>6 DEF OutboxStep, DispatchClaim, DispatchNothing, DispatchPublished,
         DispatchFinish, OutboxLeaseExpires, OutboxBackoffEnds, OutboxRequeue, OutboxPrune,
         outboxVars, outboxRows
    <2>8. oState[r[1]] \in {"pending", "dead"}
      BY <2>3, <2>5, <2>7 DEF Lost, Known
    <2>9. \A S \in SUBSET Events : ~OutboxRequeue(S)
      BY <2>2, <2>3, <2>8 DEF OutboxRequeue
    <2>10. RowSinks(r[1])
      BY <2>1, <2>2, <2>6, <2>9, OutboxEffect
    <2>11. PICK d \in Dispatchers : dPc[d] = "finishing" /\ dOk[d] /\ dEvent[d] = r[1]
      BY <2>3, <2>8, <2>10 DEF RowSinks
    <2>12. Withdrawn(d, r[2])
      BY <2>5, <2>11 DEF ProcessInv, PassedOverIsWithdrawn
    <2> QED
      BY <2>12 DEF Withdrawn
  <1>2. ProcessInv /\ ProcessInv' /\ [LifecycleNext]_lifecycleVars
          => [Accounted]_lifecycleVars
    BY <1>1
  <1> QED
    BY <1>2, ProcessesInvariant, PTL DEF LifecycleSpec, LossOnlyWhileDestroying

=============================================================================
