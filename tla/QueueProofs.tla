----------------------------- MODULE QueueProofs ----------------------------
(***************************************************************************)
(* Proofs about the outbox and the mailbox by themselves, for both         *)
(* transports that join them (EventPipelineProofs, NatsPipelineProofs).    *)
(***************************************************************************)
EXTENDS Outbox, Mailbox, TLAPS

-----------------------------------------------------------------------------
(* The outbox.                                                             *)

(* Every step of the outbox, whatever its environment does. *)
OutboxStep ==
  \/ \E e \in Events : Enqueue(e)
  \/ \E d \in Dispatchers, e \in Events : DispatchClaim(d, e)
  \/ \E d \in Dispatchers : DispatchNothing(d)
  \/ \E d \in Dispatchers, ok \in BOOLEAN : DispatchPublished(d, ok)
  \/ \E d \in Dispatchers : DispatchFinish(d)
  \/ \E d \in Dispatchers : DispatchReturns(d) /\ UNCHANGED outboxRows
  \/ \E e \in Events : OutboxLeaseExpires(e)
  \/ \E e \in Events : OutboxBackoffEnds(e)
  \/ \E S \in SUBSET Events : OutboxRequeue(S)
  \/ \E S \in SUBSET Events : OutboxPrune(S)
  \/ UNCHANGED outboxVars

(* A lost lease and an abandoned dispatch only make the dispatcher return. *)
LEMMA DispatcherReturnIsStep ==
  ASSUME NEW d \in Dispatchers, DispatchLeaseLost(d) \/ DispatchAbandon(d)
  PROVE  OutboxStep
  BY DEF OutboxStep, DispatchLeaseLost, DispatchAbandon

(* The empty outbox satisfies its invariant. *)
LEMMA OutboxInitially == OutboxInit => OutboxInv
  BY OutboxAssumption DEF OutboxInit, OutboxInv, OutboxTypeOK, OutboxAbsent, OutboxLeases,
     OutboxDeadSpent, OutboxNotStranded, RowStates

(* The outbox half of the invariant is preserved by every outbox step. *)
LEMMA OutboxPreserved ==
  ASSUME OutboxInv, OutboxStep
  PROVE  OutboxInv'
  <1> USE OutboxAssumption DEF OutboxInv, OutboxTypeOK, OutboxAbsent, OutboxLeases,
  OutboxDeadSpent,
        OutboxNotStranded, RowStates, outboxRows, dispatchVars, DispatchReturns
  <1>1. ASSUME NEW e \in Events, Enqueue(e) PROVE OutboxInv'
    BY <1>1 DEF Enqueue
  <1>2. ASSUME NEW d \in Dispatchers, NEW e \in Events, DispatchClaim(d, e)
        PROVE OutboxInv'
    <2>1. OutboxTypeOK'
      BY <1>2 DEF DispatchClaim, OutboxCandidate, OutboxFree, OutboxExhausted
    <2>2. OutboxAbsent'
      BY <1>2 DEF DispatchClaim, OutboxCandidate, OutboxFree, OutboxExhausted
    <2>3. OutboxLeases'
      BY <1>2 DEF DispatchClaim, OutboxCandidate, OutboxFree, OutboxExhausted
    <2>4. OutboxDeadSpent'
      BY <1>2 DEF DispatchClaim, OutboxCandidate, OutboxFree, OutboxExhausted
    <2>5. OutboxNotStranded'
      BY <1>2 DEF DispatchClaim, OutboxCandidate, OutboxFree, OutboxExhausted
    <2> QED
      BY <2>1, <2>2, <2>3, <2>4, <2>5 DEF OutboxInv
  <1>3. ASSUME NEW d \in Dispatchers, DispatchNothing(d) PROVE OutboxInv'
    <2>1. OutboxTypeOK'
      BY <1>3 DEF DispatchNothing, OutboxFree, OutboxExhausted
    <2>2. OutboxAbsent'
      BY <1>3 DEF DispatchNothing, OutboxFree, OutboxExhausted
    <2>3. OutboxLeases'
      BY <1>3 DEF DispatchNothing, OutboxFree, OutboxExhausted
    <2>4. OutboxDeadSpent'
      BY <1>3 DEF DispatchNothing, OutboxFree, OutboxExhausted
    <2>5. OutboxNotStranded'
      BY <1>3 DEF DispatchNothing, OutboxFree, OutboxExhausted
    <2> QED
      BY <2>1, <2>2, <2>3, <2>4, <2>5 DEF OutboxInv
  <1>4. ASSUME NEW d \in Dispatchers, NEW ok \in BOOLEAN, DispatchPublished(d, ok)
        PROVE OutboxInv'
    BY <1>4 DEF DispatchPublished
  <1>5. ASSUME NEW d \in Dispatchers, DispatchFinish(d) PROVE OutboxInv'
    BY <1>5 DEF DispatchFinish, OutboxHolds, OutboxOutcome
  <1>6. ASSUME NEW d \in Dispatchers, DispatchReturns(d), UNCHANGED outboxRows
        PROVE  OutboxInv'
    BY <1>6
  <1>7. ASSUME NEW e \in Events, OutboxLeaseExpires(e) PROVE OutboxInv'
    BY <1>7 DEF OutboxLeaseExpires
  <1>8. ASSUME NEW e \in Events, OutboxBackoffEnds(e) PROVE OutboxInv'
    BY <1>8 DEF OutboxBackoffEnds
  <1>9. ASSUME NEW S \in SUBSET Events, OutboxRequeue(S) PROVE OutboxInv'
    <2>1. OutboxTypeOK'
      BY <1>9 DEF OutboxRequeue
    <2>2. OutboxAbsent'
      BY <1>9 DEF OutboxRequeue
    <2>3. OutboxLeases'
      BY <1>9 DEF OutboxRequeue
    <2>4. OutboxDeadSpent'
      BY <1>9 DEF OutboxRequeue
    <2>5. OutboxNotStranded'
      BY <1>9 DEF OutboxRequeue
    <2> QED
      BY <2>1, <2>2, <2>3, <2>4, <2>5 DEF OutboxInv
  <1>10. ASSUME NEW S \in SUBSET Events, OutboxPrune(S) PROVE OutboxInv'
    <2>1. OutboxTypeOK'
      BY <1>10 DEF OutboxPrune, OutboxPrunable
    <2>2. OutboxAbsent'
      BY <1>10 DEF OutboxPrune, OutboxPrunable
    <2>3. OutboxLeases'
      BY <1>10 DEF OutboxPrune, OutboxPrunable
    <2>4. OutboxDeadSpent'
      BY <1>10 DEF OutboxPrune, OutboxPrunable
    <2>5. OutboxNotStranded'
      BY <1>10 DEF OutboxPrune, OutboxPrunable
    <2> QED
      BY <2>1, <2>2, <2>3, <2>4, <2>5 DEF OutboxInv
  <1>11. CASE UNCHANGED outboxVars
    BY <1>11 DEF outboxVars
  <1> QED
    BY <1>1, <1>2, <1>3, <1>4, <1>5, <1>6, <1>7, <1>8, <1>9, <1>10, <1>11
    DEF OutboxStep

-----------------------------------------------------------------------------
(* The mailbox.                                                            *)

(* Any number of loops return, or die with their process. *)
LoopsReturn(L) ==
  /\ lPc' = [l \in Loops |-> IF l \in L THEN "idle" ELSE lPc[l]]
  /\ lReceipt' = [l \in Loops |-> IF l \in L THEN None ELSE lReceipt[l]]
  /\ lAttempt' = [l \in Loops |-> IF l \in L THEN 0 ELSE lAttempt[l]]
  /\ lClaim' = [l \in Loops |-> IF l \in L THEN 0 ELSE lClaim[l]]
  /\ lOk' = [l \in Loops |-> l \notin L /\ lOk[l]]

(* Every step of the mailbox but accept. *)
DeliveryStep ==
  \/ \E l \in Loops, r \in Receipts : DeliverClaim(l, r)
  \/ \E l \in Loops : DeliverNothing(l)
  \/ \E l \in Loops, ok \in BOOLEAN : DeliverHandled(l, ok)
  \/ \E l \in Loops : DeliverFinish(l)
  \/ \E L \in SUBSET Loops : LoopsReturn(L) /\ UNCHANGED <<receiptRows, handled, claims>>
  \/ \E r \in Receipts : ReceiptLeaseExpires(r)
  \/ \E r \in Receipts : ReceiptBackoffEnds(r)
  \/ \E c \in Consumers, S \in SUBSET Receipts : MailboxRequeue(c, S)
  \/ \E S \in SUBSET Events : MailboxPrune(S)
  \/ UNCHANGED mailboxVars

(* Every step of the mailbox, whatever its environment does: the event may be
   accepted for some of the consumers only. *)
MailboxStep ==
  \/ \E e \in Events, names \in SUBSET Consumers : AcceptFor(e, names)
  \/ DeliveryStep

(* Accepting for all consumers is such a step. *)
LEMMA AcceptIsStep ==
  ASSUME NEW e \in Events, Accept(e)
  PROVE  MailboxStep
  <1>1. Consumers \in SUBSET Consumers
    OBVIOUS
  <1> QED
    BY <1>1 DEF Accept, MailboxStep

(* A lost lease and an abandoned delivery only make the loop return. *)
LEMMA LoopReturnIsStep ==
  ASSUME MailboxTypeOK, NEW l \in Loops, DeliverLeaseLost(l) \/ DeliverAbandon(l)
  PROVE  DeliveryStep
  <1>1. LoopsReturn({l})
    BY DEF MailboxTypeOK, DeliverLeaseLost, DeliverAbandon, DeliverReturns, LoopsReturn
  <1>2. {l} \in SUBSET Loops
    OBVIOUS
  <1>3. UNCHANGED <<receiptRows, handled, claims>>
    BY DEF DeliverLeaseLost, DeliverAbandon
  <1> QED
    BY <1>1, <1>2, <1>3 DEF DeliveryStep

(* A receipt that a claim buries as exhausted has spent its whole budget. *)
LEMMA ExhaustedIsSpent ==
  ASSUME MailboxTypeOK, NEW c, NEW x \in ReceiptsExhausted(c)
  PROVE  x \in Receipts /\ rState[x] = "pending" /\ rAttempts[x] = MailboxMaxAttempts
  <1>1. x \in Receipts /\ rState[x] = "pending" /\ rAttempts[x] >= MailboxMaxAttempts
    BY DEF ReceiptsExhausted
  <1>2. rAttempts[x] \in 0..MailboxMaxAttempts
    BY <1>1 DEF MailboxTypeOK
  <1> QED
    BY <1>1, <1>2, MailboxAssumption

(* What the mailbox knows it never forgets: only a prune removes receipts,
   and it removes processed ones, which were handled. *)
LEMMA KnownStable ==
  ASSUME MailboxInv, MailboxStep, NEW x \in Receipts, Known(x)
  PROVE  Known(x)'
  <1>1. rState[x] # "absent" \/ x \in handled
    BY DEF Known
  <1>2. handled \subseteq handled'
    BY DEF MailboxStep, DeliveryStep, Accept, AcceptFor, DeliverClaim, DeliverNothing,
       DeliverHandled, DeliverFinish,
       ReceiptLeaseExpires, ReceiptBackoffEnds,
       MailboxRequeue, MailboxPrune, mailboxVars
  <1>3. CASE x \in handled
    BY <1>2, <1>3 DEF Known
  <1>4. CASE x \notin handled
    <2>1. rState[x] \in {"pending", "dead"}
      BY <1>1, <1>4 DEF MailboxInv, MailboxTypeOK, ReceiptStates, ProcessedWasHandled
    <2> USE DEF MailboxInv, MailboxTypeOK
    <2>2. ASSUME NEW f \in Events, NEW names \in SUBSET Consumers, AcceptFor(f, names)
          PROVE  rState'[x] # "absent"
      BY <2>1, <2>2 DEF AcceptFor
    <2>3. ASSUME NEW l \in Loops, NEW r \in Receipts, DeliverClaim(l, r)
          PROVE  rState'[x] # "absent"
      BY <2>1, <2>3 DEF DeliverClaim
    <2>4. ASSUME NEW l \in Loops, DeliverNothing(l) PROVE rState'[x] # "absent"
      BY <2>1, <2>4 DEF DeliverNothing
    <2>5. ASSUME NEW l \in Loops, DeliverFinish(l) PROVE rState'[x] # "absent"
      BY <2>1, <2>5 DEF DeliverFinish, ReceiptOutcome
    <2>6. ASSUME NEW c \in Consumers, NEW S \in SUBSET Receipts, MailboxRequeue(c, S)
          PROVE  rState'[x] # "absent"
      BY <2>1, <2>6 DEF MailboxRequeue
    <2>7. ASSUME NEW S \in SUBSET Events, MailboxPrune(S) PROVE rState'[x] # "absent"
      BY <2>1, <2>7 DEF MailboxPrune, MailboxPrunable
    <2> QED
      BY <2>1, <2>2, <2>3, <2>4, <2>5, <2>6, <2>7
      DEF MailboxStep, DeliveryStep, DeliverHandled, ReceiptLeaseExpires,
          ReceiptBackoffEnds, mailboxVars, receiptRows, Known
  <1> QED
    BY <1>3, <1>4

(* The empty mailbox satisfies its invariant. *)
LEMMA MailboxInitially == MailboxInit => MailboxInv
  BY MailboxAssumption DEF MailboxInit, MailboxInv, MailboxTypeOK, ReceiptAbsent,
     ReceiptLeases, ReceiptDeadSpent, ReceiptNotStranded, ProcessedWasHandled, ReceiptStates

(* The mailbox half of the invariant is preserved by every mailbox step. *)
LEMMA MailboxPreserved ==
  ASSUME MailboxInv, MailboxStep
  PROVE  MailboxInv'
  <1>0. \A x \in Receipts : Known(x) => Known(x)'
    BY KnownStable
  <1> USE MailboxAssumption DEF MailboxInv, MailboxTypeOK, ReceiptAbsent, ReceiptLeases,
        ReceiptDeadSpent, ReceiptNotStranded, ProcessedWasHandled, ReceiptStates,
        receiptRows, loopVars
  <1>1. ASSUME NEW e \in Events, NEW names \in SUBSET Consumers, AcceptFor(e, names)
        PROVE  MailboxInv'
    <2>1. MailboxTypeOK'
      BY <1>1 DEF AcceptFor, MissingReceipts
    <2>2. ReceiptAbsent'
      BY <1>1 DEF AcceptFor, MissingReceipts
    <2>3. ReceiptLeases'
      BY <1>0, <1>1 DEF AcceptFor, MissingReceipts
    <2>4. ReceiptDeadSpent'
      BY <1>1 DEF AcceptFor, MissingReceipts
    <2>5. ReceiptNotStranded'
      BY <1>1 DEF AcceptFor, MissingReceipts
    <2>6. ProcessedWasHandled'
      BY <1>1 DEF AcceptFor, MissingReceipts
    <2> QED
      BY <2>1, <2>2, <2>3, <2>4, <2>5, <2>6 DEF MailboxInv
  <1>2. ASSUME NEW l \in Loops, NEW r \in Receipts, DeliverClaim(l, r)
        PROVE  MailboxInv'
    <2>1. MailboxTypeOK'
      BY <1>2 DEF DeliverClaim, ReceiptCandidate, ReceiptFree, ReceiptsExhausted
    <2>2. ReceiptAbsent'
      BY <1>2 DEF DeliverClaim, ReceiptCandidate, ReceiptFree, ReceiptsExhausted
    <2>3. ReceiptLeases'
      BY <1>0, <1>2 DEF Known, DeliverClaim, ReceiptCandidate, ReceiptFree,
         ReceiptsExhausted
    <2>4. ReceiptDeadSpent'
      <3> SUFFICES ASSUME NEW x \in Receipts, rState'[x] = "dead"
                   PROVE  rAttempts'[x] = MailboxMaxAttempts \/ x[1] \in MailUndecodable
        BY DEF ReceiptDeadSpent
      <3>1. CASE rState[x] = "dead"
        BY <1>2, <3>1 DEF DeliverClaim, ReceiptCandidate
      <3>2. CASE rState[x] # "dead"
        <4>1. x \in ReceiptsExhausted(ConsumerOf[l]) \/ (x = r /\ r[1] \in MailUndecodable)
          BY <1>2, <3>2 DEF DeliverClaim
        <4>2. CASE x = r /\ r[1] \in MailUndecodable
          BY <4>2
        <4>3. CASE x \in ReceiptsExhausted(ConsumerOf[l])
          BY <1>2, <4>3, ExhaustedIsSpent DEF DeliverClaim, ReceiptCandidate
        <4> QED
          BY <4>1, <4>2, <4>3
      <3> QED
        BY <3>1, <3>2
    <2>5. ReceiptNotStranded'
      BY <1>2 DEF DeliverClaim, ReceiptCandidate, ReceiptFree, ReceiptsExhausted
    <2>6. ProcessedWasHandled'
      BY <1>2 DEF DeliverClaim, ReceiptCandidate, ReceiptFree, ReceiptsExhausted
    <2> QED
      BY <2>1, <2>2, <2>3, <2>4, <2>5, <2>6 DEF MailboxInv
  <1>3. ASSUME NEW l \in Loops, DeliverNothing(l)
        PROVE  MailboxInv'
    <2>1. MailboxTypeOK'
      BY <1>3 DEF DeliverNothing, ReceiptFree, ReceiptsExhausted
    <2>2. ReceiptAbsent'
      BY <1>3 DEF DeliverNothing, ReceiptFree, ReceiptsExhausted
    <2>3. ReceiptLeases'
      BY <1>0, <1>3 DEF DeliverNothing, ReceiptFree, ReceiptsExhausted
    <2>4. ReceiptDeadSpent'
      <3> SUFFICES ASSUME NEW x \in Receipts, rState'[x] = "dead"
                   PROVE  rAttempts'[x] = MailboxMaxAttempts \/ x[1] \in MailUndecodable
        BY DEF ReceiptDeadSpent
      <3>1. CASE rState[x] = "dead"
        BY <1>3, <3>1 DEF DeliverNothing
      <3>2. CASE rState[x] # "dead"
        BY <1>3, <3>2, ExhaustedIsSpent DEF DeliverNothing
      <3> QED
        BY <3>1, <3>2
    <2>5. ReceiptNotStranded'
      BY <1>3 DEF DeliverNothing, ReceiptFree, ReceiptsExhausted
    <2>6. ProcessedWasHandled'
      BY <1>3 DEF DeliverNothing, ReceiptFree, ReceiptsExhausted
    <2> QED
      BY <2>1, <2>2, <2>3, <2>4, <2>5, <2>6 DEF MailboxInv
  <1>4. ASSUME NEW l \in Loops, NEW ok \in BOOLEAN, DeliverHandled(l, ok)
        PROVE  MailboxInv'
    <2>1. MailboxTypeOK'
      BY <1>4 DEF DeliverHandled
    <2>2. ReceiptAbsent'
      BY <1>4 DEF DeliverHandled
    <2>3. ReceiptLeases'
      BY <1>0, <1>4 DEF DeliverHandled
    <2>4. ReceiptDeadSpent'
      BY <1>4 DEF DeliverHandled
    <2>5. ReceiptNotStranded'
      BY <1>4 DEF DeliverHandled
    <2>6. ProcessedWasHandled'
      BY <1>4 DEF DeliverHandled
    <2> QED
      BY <2>1, <2>2, <2>3, <2>4, <2>5, <2>6 DEF MailboxInv
  <1>5. ASSUME NEW l \in Loops, DeliverFinish(l)
        PROVE  MailboxInv'
    <2>1. MailboxTypeOK'
      BY <1>5 DEF DeliverFinish, HoldsReceipt, ReceiptOutcome, DeliverReturns
    <2>2. ReceiptAbsent'
      BY <1>5 DEF DeliverFinish, HoldsReceipt, ReceiptOutcome, DeliverReturns
    <2>3. ReceiptLeases'
      BY <1>0, <1>5 DEF DeliverFinish, HoldsReceipt, ReceiptOutcome, DeliverReturns
    <2>4. ReceiptDeadSpent'
      <3> SUFFICES ASSUME NEW x \in Receipts, rState'[x] = "dead"
                   PROVE  rAttempts'[x] = MailboxMaxAttempts \/ x[1] \in MailUndecodable
        BY DEF ReceiptDeadSpent
      <3>1. CASE x = lReceipt[l]
        BY <1>5, <3>1 DEF DeliverFinish, HoldsReceipt, ReceiptOutcome
      <3>2. CASE x # lReceipt[l]
        BY <1>5, <3>2 DEF DeliverFinish
      <3> QED
        BY <3>1, <3>2
    <2>5. ReceiptNotStranded'
      BY <1>5 DEF DeliverFinish, HoldsReceipt, ReceiptOutcome, DeliverReturns
    <2>6. ProcessedWasHandled'
      BY <1>5 DEF DeliverFinish, HoldsReceipt, ReceiptOutcome, DeliverReturns
    <2> QED
      BY <2>1, <2>2, <2>3, <2>4, <2>5, <2>6 DEF MailboxInv
  <1>6. ASSUME NEW L \in SUBSET Loops, LoopsReturn(L),
               UNCHANGED <<receiptRows, handled, claims>>
        PROVE  MailboxInv'
    BY <1>0, <1>6 DEF LoopsReturn
  <1>7. ASSUME NEW r \in Receipts, ReceiptLeaseExpires(r)
        PROVE  MailboxInv'
    BY <1>0, <1>7 DEF ReceiptLeaseExpires
  <1>8. ASSUME NEW r \in Receipts, ReceiptBackoffEnds(r)
        PROVE  MailboxInv'
    BY <1>0, <1>8 DEF ReceiptBackoffEnds
  <1>9. ASSUME NEW c \in Consumers, NEW S \in SUBSET Receipts, MailboxRequeue(c, S)
        PROVE  MailboxInv'
    <2>1. MailboxTypeOK'
      BY <1>9 DEF MailboxRequeue
    <2>2. ReceiptAbsent'
      BY <1>9 DEF MailboxRequeue
    <2>3. ReceiptLeases'
      BY <1>0, <1>9 DEF MailboxRequeue
    <2>4. ReceiptDeadSpent'
      BY <1>9 DEF MailboxRequeue
    <2>5. ReceiptNotStranded'
      BY <1>9 DEF MailboxRequeue
    <2>6. ProcessedWasHandled'
      BY <1>9 DEF MailboxRequeue
    <2> QED
      BY <2>1, <2>2, <2>3, <2>4, <2>5, <2>6 DEF MailboxInv
  <1>10. ASSUME NEW S \in SUBSET Events, MailboxPrune(S)
        PROVE  MailboxInv'
    <2>1. MailboxTypeOK'
      BY <1>10 DEF MailboxPrune, MailboxPrunable
    <2>2. ReceiptAbsent'
      BY <1>10 DEF MailboxPrune, MailboxPrunable
    <2>3. ReceiptLeases'
      BY <1>0, <1>10 DEF MailboxPrune, MailboxPrunable
    <2>4. ReceiptDeadSpent'
      BY <1>10 DEF MailboxPrune, MailboxPrunable
    <2>5. ReceiptNotStranded'
      BY <1>10 DEF MailboxPrune, MailboxPrunable
    <2>6. ProcessedWasHandled'
      BY <1>10 DEF MailboxPrune, MailboxPrunable
    <2> QED
      BY <2>1, <2>2, <2>3, <2>4, <2>5, <2>6 DEF MailboxInv
  <1>11. CASE UNCHANGED mailboxVars
    BY <1>0, <1>11 DEF mailboxVars
  <1> QED
    BY <1>1, <1>2, <1>3, <1>4, <1>5, <1>6, <1>7, <1>8, <1>9, <1>10, <1>11
    DEF MailboxStep, DeliveryStep

-----------------------------------------------------------------------------
(* What either side may count on.                                          *)

(* An accepted event stays accepted. *)
LEMMA AcceptedStable ==
  ASSUME MailboxInv, MailboxStep, NEW e \in Events, Accepted(e)
  PROVE  Accepted(e)'
  <1> SUFFICES ASSUME NEW x \in Receipts, x[1] = e
               PROVE  Known(x)'
    BY DEF Accepted
  <1>1. Known(x)
    BY DEF Accepted
  <1> QED
    BY <1>1, KnownStable

(* Once accept has committed, every consumer has a receipt. *)
LEMMA AcceptAccepts ==
  ASSUME MailboxInv, NEW e \in Events, Accept(e)
  PROVE  Accepted(e)'
  <1>1. \A r \in Receipts : r[2] \in Consumers
    BY DEF Receipts
  <1> QED
    BY <1>1 DEF MailboxInv, MailboxTypeOK, Accept, AcceptFor, MissingReceipts, Accepted,
       Known

(* Only accept tells the mailbox of a receipt it does not know. *)
LEMMA DeliveryLearnsNothing ==
  ASSUME MailboxInv, DeliveryStep, NEW x \in Receipts, Known(x)'
  PROVE  Known(x)
  <1> USE DEF Known, MailboxInv, MailboxTypeOK
  <1> SUFFICES ASSUME rState[x] = "absent", x \notin handled
               PROVE  rState'[x] = "absent" /\ x \notin handled'
    OBVIOUS
  <1>1. ASSUME NEW l \in Loops, NEW r \in Receipts, DeliverClaim(l, r)
        PROVE  rState'[x] = "absent" /\ x \notin handled'
    BY <1>1 DEF DeliverClaim, ReceiptCandidate, ReceiptsExhausted
  <1>2. ASSUME NEW l \in Loops, DeliverNothing(l)
        PROVE  rState'[x] = "absent" /\ x \notin handled'
    BY <1>2 DEF DeliverNothing, ReceiptsExhausted
  <1>3. ASSUME NEW l \in Loops, NEW ok \in BOOLEAN, DeliverHandled(l, ok)
        PROVE  rState'[x] = "absent" /\ x \notin handled'
    BY <1>3 DEF DeliverHandled, ReceiptLeases, receiptRows
  <1>4. ASSUME NEW l \in Loops, DeliverFinish(l)
        PROVE  rState'[x] = "absent" /\ x \notin handled'
    BY <1>4 DEF DeliverFinish, HoldsReceipt, ReceiptLeases
  <1>5. ASSUME NEW c \in Consumers, NEW S \in SUBSET Receipts, MailboxRequeue(c, S)
        PROVE  rState'[x] = "absent" /\ x \notin handled'
    BY <1>5 DEF MailboxRequeue
  <1>6. ASSUME NEW S \in SUBSET Events, MailboxPrune(S)
        PROVE  rState'[x] = "absent" /\ x \notin handled'
    BY <1>6 DEF MailboxPrune
  <1> QED
    BY <1>1, <1>2, <1>3, <1>4, <1>5, <1>6 DEF DeliveryStep, ReceiptLeaseExpires,
       ReceiptBackoffEnds, mailboxVars, receiptRows

(* A committed event stays committed. *)
LEMMA CommittedStable ==
  ASSUME OutboxStep
  PROVE  committed \subseteq committed'
  BY DEF OutboxStep, Enqueue, DispatchClaim, DispatchNothing, DispatchPublished,
     DispatchFinish, OutboxLeaseExpires,
     OutboxBackoffEnds, OutboxRequeue, OutboxPrune, outboxVars, outboxRows

(* A dispatcher that goes on finishing keeps what it is finishing. *)
LEMMA FinishingUnchanged ==
  ASSUME OutboxInv, OutboxStep, NEW d \in Dispatchers,
         dPc[d] = "finishing", dPc'[d] = "finishing"
  PROVE  dEvent'[d] = dEvent[d] /\ dOk'[d] = dOk[d]
  <1> USE DEF OutboxInv, OutboxTypeOK
  <1>1. ASSUME NEW x \in Dispatchers, NEW e \in Events, DispatchClaim(x, e)
        PROVE  dEvent'[d] = dEvent[d] /\ dOk'[d] = dOk[d]
    <2>1. x # d
      BY <1>1 DEF DispatchClaim
    <2> QED
      BY <1>1, <2>1 DEF DispatchClaim, dispatchVars
  <1>2. ASSUME NEW x \in Dispatchers, NEW ok \in BOOLEAN, DispatchPublished(x, ok)
        PROVE  dEvent'[d] = dEvent[d] /\ dOk'[d] = dOk[d]
    BY <1>2 DEF DispatchPublished
  <1>3. ASSUME NEW x \in Dispatchers, DispatchReturns(x)
        PROVE  dEvent'[d] = dEvent[d] /\ dOk'[d] = dOk[d]
    BY <1>3 DEF DispatchReturns
  <1>4. CASE UNCHANGED dispatchVars
    BY <1>4 DEF dispatchVars
  <1> QED
    BY <1>1, <1>2, <1>3, <1>4 DEF OutboxStep, Enqueue, DispatchNothing, DispatchFinish,
       OutboxLeaseExpires, OutboxBackoffEnds,
       OutboxRequeue, OutboxPrune, outboxVars

-----------------------------------------------------------------------------
(* What a step does, seen from outside.                                    *)

(* Apart from a commit and a requeue a row stays as it is, is buried, is sent
   by a dispatcher that has a durable receipt, or is pruned once sent. *)
RowSinks(e) ==
  \/ oState'[e] = oState[e]
  \/ oState[e] = "pending" /\ oState'[e] = "dead"
  \/ /\ oState[e] = "pending" /\ oState'[e] = "sent"
     /\ \E d \in Dispatchers : dPc[d] = "finishing" /\ dOk[d] /\ dEvent[d] = e
  \/ oState[e] = "sent" /\ oState'[e] = "absent"

(* Every outbox step is a commit, a requeue, or lets rows sink. *)
LEMMA OutboxEffect ==
  ASSUME OutboxInv, OutboxStep
  PROVE  \/ \E e \in Events : Enqueue(e)
         \/ \E S \in SUBSET Events : OutboxRequeue(S)
         \/ \A e \in Events : RowSinks(e)
  <1> USE DEF RowSinks, OutboxInv, OutboxTypeOK
  <1>1. ASSUME NEW d \in Dispatchers, NEW e \in Events, DispatchClaim(d, e)
        PROVE  \A x \in Events : RowSinks(x)
    BY <1>1 DEF DispatchClaim, OutboxCandidate, OutboxExhausted
  <1>2. ASSUME NEW d \in Dispatchers, DispatchNothing(d)
        PROVE  \A x \in Events : RowSinks(x)
    BY <1>2 DEF DispatchNothing, OutboxExhausted
  <1>3. ASSUME NEW d \in Dispatchers, DispatchFinish(d)
        PROVE  \A x \in Events : RowSinks(x)
    BY <1>3 DEF DispatchFinish, OutboxHolds, OutboxOutcome
  <1>4. ASSUME NEW S \in SUBSET Events, OutboxPrune(S)
        PROVE  \A x \in Events : RowSinks(x)
    BY <1>4 DEF OutboxPrune, OutboxPrunable
  <1> QED
    BY <1>1, <1>2, <1>3, <1>4 DEF OutboxStep, DispatchPublished, OutboxLeaseExpires,
       OutboxBackoffEnds, outboxVars, outboxRows

(* Receipts are buried, or nothing visible happens. *)
BuriesReceipts ==
  /\ handled' = handled
  /\ \A r \in Receipts : \/ rState'[r] = rState[r]
                         \/ rState[r] = "pending" /\ rState'[r] = "dead"

(* A handler returns ok for a receipt the mailbox knows. *)
HandlesReceipt(r) ==
  /\ r \in Receipts
  /\ Known(r)
  /\ handled' = handled \cup {r}
  /\ UNCHANGED rState

(* A receipt whose handler has succeeded is marked processed. *)
SettlesReceipt(r) ==
  /\ r \in Receipts
  /\ r \in handled
  /\ rState[r] = "pending"
  /\ rState' = [rState EXCEPT ![r] = "processed"]
  /\ handled' = handled

(* Dead receipts are taken up again. *)
ResumesReceipts(S) ==
  /\ S # {}
  /\ \A r \in S : rState[r] = "dead"
  /\ rState' = [r \in Receipts |-> IF r \in S THEN "pending" ELSE rState[r]]
  /\ handled' = handled

(* Processed receipts are deleted. *)
ForgetsReceipts ==
  /\ handled' = handled
  /\ \A r \in Receipts : \/ rState'[r] = rState[r]
                         \/ rState[r] = "processed" /\ rState'[r] = "absent"

(* Every step of the delivery loops, of time and of the operator is one of
   these, and none of them changes which receipts the mailbox knows. *)
LEMMA DeliveryEffect ==
  ASSUME MailboxInv, DeliveryStep
  PROVE  /\ \A r \in Receipts : Known(r)' <=> Known(r)
         /\ \/ BuriesReceipts
            \/ \E r \in Receipts : HandlesReceipt(r) \/ SettlesReceipt(r)
            \/ \E S \in SUBSET Receipts : ResumesReceipts(S)
            \/ ForgetsReceipts
  <1> DEFINE Effect == \/ BuriesReceipts
                       \/ \E r \in Receipts : HandlesReceipt(r) \/ SettlesReceipt(r)
                       \/ \E S \in SUBSET Receipts : ResumesReceipts(S)
                       \/ ForgetsReceipts
  <1>1. \A r \in Receipts : Known(r)' <=> Known(r)
    <2>1. \A r \in Receipts : Known(r)' => Known(r)
      BY DeliveryLearnsNothing
    <2>2. \A r \in Receipts : Known(r) => Known(r)'
      BY KnownStable DEF MailboxStep
    <2> QED
      BY <2>1, <2>2
  <1> USE DEF MailboxInv, MailboxTypeOK
  <1>2. ASSUME NEW l \in Loops, NEW r \in Receipts, DeliverClaim(l, r) PROVE Effect
    BY <1>2 DEF DeliverClaim, ReceiptCandidate, ReceiptsExhausted, BuriesReceipts
  <1>3. ASSUME NEW l \in Loops, DeliverNothing(l) PROVE Effect
    BY <1>3 DEF DeliverNothing, ReceiptsExhausted, BuriesReceipts
  <1>4. ASSUME NEW l \in Loops, NEW ok \in BOOLEAN, DeliverHandled(l, ok) PROVE Effect
    <2>1. lReceipt[l] \in Receipts /\ Known(lReceipt[l]) /\ UNCHANGED rState
      BY <1>4 DEF DeliverHandled, ReceiptLeases, receiptRows
    <2>2. CASE ok
      BY <1>4, <2>1, <2>2 DEF DeliverHandled, HandlesReceipt
    <2>3. CASE ~ok
      BY <1>4, <2>1, <2>3 DEF DeliverHandled, BuriesReceipts
    <2> QED
      BY <2>2, <2>3
  <1>5. ASSUME NEW l \in Loops, DeliverFinish(l) PROVE Effect
    <2>1. /\ lReceipt[l] \in Receipts
          /\ rState[lReceipt[l]] = "pending"
          /\ handled' = handled
      BY <1>5 DEF DeliverFinish, HoldsReceipt, ReceiptLeases
    <2>2. CASE lOk[l]
      <3>1. SettlesReceipt(lReceipt[l])
        BY <1>5, <2>1, <2>2 DEF DeliverFinish, ReceiptOutcome, ProcessedWasHandled,
           SettlesReceipt
      <3> QED
        BY <2>1, <3>1
    <2>3. CASE ~lOk[l]
      BY <1>5, <2>1, <2>3 DEF DeliverFinish, ReceiptOutcome, BuriesReceipts
    <2> QED
      BY <2>2, <2>3
  <1>6. ASSUME NEW c \in Consumers, NEW S \in SUBSET Receipts, MailboxRequeue(c, S)
        PROVE  Effect
    BY <1>6 DEF MailboxRequeue, ResumesReceipts
  <1>7. ASSUME NEW S \in SUBSET Events, MailboxPrune(S) PROVE Effect
    BY <1>7 DEF MailboxPrune, MailboxPrunable, ForgetsReceipts
  <1>8. ASSUME UNCHANGED <<rState, handled>> PROVE Effect
    BY <1>8 DEF BuriesReceipts
  <1>9. Effect
    BY <1>2, <1>3, <1>4, <1>5, <1>6, <1>7, <1>8 DEF DeliveryStep, ReceiptLeaseExpires,
       ReceiptBackoffEnds, mailboxVars, receiptRows
  <1> QED
    BY <1>1, <1>9

=============================================================================
