------------------------------- MODULE Mailbox ------------------------------
(***************************************************************************)
(* The durable inbox of shared/events/postgres/store.ts (class Mailbox)    *)
(* and the delivery loops of platform/events/event-delivery.ts.            *)
(*                                                                         *)
(* accept stores an event once and one receipt per consumer.  A delivery   *)
(* loop serves one consumer: it leases the consumer's next due receipt,    *)
(* runs the handler outside any transaction and records the outcome under  *)
(* its lease token.  Several processes run a loop for the same consumer.   *)
(* As in Outbox, a transaction is a step, time is two flags per receipt,   *)
(* and the token of a delivery is the loop that drew it.                   *)
(***************************************************************************)
EXTENDS EventBase

CONSTANTS
  Consumers,           \* subscribed consumer names
  Loops,               \* delivery loops, over all processes
  ConsumerOf,          \* the consumer each loop serves
  MailboxMaxAttempts,  \* RetryPolicy.maxAttempts of the delivery loops
  MailUndecodable,     \* events whose inbox envelope no longer decodes
  MaxRedeliveries      \* bound: operator requeues of the inbox

ASSUME MailboxAssumption ==
  /\ ConsumerOf \in [Loops -> Consumers]
  /\ MailboxMaxAttempts \in Nat \ {0}
  /\ MailUndecodable \subseteq Events
  /\ MaxRedeliveries \in Nat
  /\ None \notin Loops

(* One row of n2f_mailbox_receipts: an event and a consumer. *)
Receipts == Events \X Consumers

VARIABLES
  mStored,     \* events with a row in n2f_mailbox
  rState,      \* state of a receipt, "absent" when there is none
  rAttempts,   \* attempts
  rLease,      \* lease token, None for NULL
  rExpired,    \* lease_until <= clock_timestamp()
  rDue,        \* available_at <= clock_timestamp()
  rRequeues,   \* requeue calls so far
  handled,     \* receipts whose handler has returned ok (history)
  claims,      \* how often a receipt has been claimed (history)
  lPc,         \* where each delivery loop is
  lReceipt,    \* the receipt it has claimed
  lAttempt,    \* the attempt it was given
  lClaim,      \* which claim of the receipt that was (history)
  lOk          \* whether the handler returned ok

receiptRows == <<mStored, rState, rAttempts, rLease, rExpired, rDue, rRequeues>>
loopVars == <<lPc, lReceipt, lAttempt, lClaim, lOk>>
mailboxVars == <<receiptRows, handled, claims, loopVars>>

ReceiptStates == {"absent", "pending", "processed", "dead"}

MailboxTypeOK ==
  /\ mStored \in SUBSET Events
  /\ rState \in [Receipts -> ReceiptStates]
  /\ rAttempts \in [Receipts -> 0..MailboxMaxAttempts]
  /\ rLease \in [Receipts -> Loops \cup {None}]
  /\ rExpired \in [Receipts -> BOOLEAN]
  /\ rDue \in [Receipts -> BOOLEAN]
  /\ rRequeues \in 0..MaxRedeliveries
  /\ handled \in SUBSET Receipts
  /\ claims \in [Receipts -> Nat]
  /\ lPc \in [Loops -> {"idle", "handling", "finishing"}]
  /\ lReceipt \in [Loops -> Receipts \cup {None}]
  /\ lAttempt \in [Loops -> 0..MailboxMaxAttempts]
  /\ lClaim \in [Loops -> Nat]
  /\ lOk \in [Loops -> BOOLEAN]

MailboxInit ==
  /\ mStored = {}
  /\ rState = [r \in Receipts |-> "absent"]
  /\ rAttempts = [r \in Receipts |-> 0]
  /\ rLease = [r \in Receipts |-> None]
  /\ rExpired = [r \in Receipts |-> FALSE]
  /\ rDue = [r \in Receipts |-> FALSE]
  /\ rRequeues = 0
  /\ handled = {}
  /\ claims = [r \in Receipts |-> 0]
  /\ lPc = [l \in Loops |-> "idle"]
  /\ lReceipt = [l \in Loops |-> None]
  /\ lAttempt = [l \in Loops |-> 0]
  /\ lClaim = [l \in Loops |-> 0]
  /\ lOk = [l \in Loops |-> FALSE]

-----------------------------------------------------------------------------
(* Accepting.                                                              *)

(* ON CONFLICT (event_id, consumer) DO NOTHING: only receipts that do not
   exist yet are inserted. *)
MissingReceipts(e, names) ==
  {r \in Receipts : r[1] = e /\ r[2] \in names /\ rState[r] = "absent"}

(* accept: the event row, idempotently, and its missing receipts for the
   consumers that are named. *)
AcceptFor(e, names) ==
  LET new == MissingReceipts(e, names)
  IN /\ mStored' = mStored \cup {e}
     /\ rState' = [r \in Receipts |-> IF r \in new THEN "pending" ELSE rState[r]]
     /\ rDue' = [r \in Receipts |-> r \in new \/ rDue[r]]
     /\ UNCHANGED <<rAttempts, rLease, rExpired, rRequeues, handled, claims, loopVars>>

(* A process with every consumer subscribed accepts the event for all. *)
Accept(e) == AcceptFor(e, Consumers)

-----------------------------------------------------------------------------
(* Claiming.                                                               *)

(* Seeded fault: an expired lease is treated as held. *)
ReceiptFreeOnlyUnleased(r) == rLease[r] = None

ReceiptFree(r) == rLease[r] = None \/ rExpired[r]

ReceiptCandidate(r) ==
  /\ rState[r] = "pending"
  /\ rAttempts[r] < MailboxMaxAttempts
  /\ rDue[r]
  /\ ReceiptFree(r)

(* The consumer's receipts left behind on their last attempt. *)
ReceiptsExhausted(c) ==
  {r \in Receipts : /\ r[2] = c
                    /\ rState[r] = "pending"
                    /\ rAttempts[r] >= MailboxMaxAttempts
                    /\ ReceiptFree(r)}

(* The claim transaction of deliver, with a candidate receipt of the loop's
   consumer.  An undecodable event is buried in the same transaction. *)
DeliverClaim(l, r) ==
  LET dead == ReceiptsExhausted(ConsumerOf[l])
                \cup (IF r[1] \in MailUndecodable THEN {r} ELSE {})
  IN /\ lPc[l] = "idle"
     /\ r[2] = ConsumerOf[l]
     /\ ReceiptCandidate(r)
     /\ rState' = [x \in Receipts |-> IF x \in dead THEN "dead" ELSE rState[x]]
     /\ rLease' = [x \in Receipts |-> IF x \in dead THEN None
                                      ELSE IF x = r THEN l ELSE rLease[x]]
     /\ rExpired' = [x \in Receipts |-> x \notin dead \cup {r} /\ rExpired[x]]
     /\ rAttempts' = [rAttempts EXCEPT ![r] = @ + 1]
     /\ claims' = [claims EXCEPT ![r] = @ + 1]
     /\ IF r[1] \in MailUndecodable
          THEN UNCHANGED loopVars
          ELSE /\ lPc' = [lPc EXCEPT ![l] = "handling"]
               /\ lReceipt' = [lReceipt EXCEPT ![l] = r]
               /\ lAttempt' = [lAttempt EXCEPT ![l] = rAttempts[r] + 1]
               /\ lClaim' = [lClaim EXCEPT ![l] = claims[r] + 1]
               /\ UNCHANGED lOk
     /\ UNCHANGED <<mStored, rDue, rRequeues, handled>>

(* A claim without a candidate still commits the burial. *)
DeliverNothing(l) ==
  LET dead == ReceiptsExhausted(ConsumerOf[l])
  IN /\ lPc[l] = "idle"
     /\ dead # {}
     /\ rState' = [x \in Receipts |-> IF x \in dead THEN "dead" ELSE rState[x]]
     /\ rLease' = [x \in Receipts |-> IF x \in dead THEN None ELSE rLease[x]]
     /\ rExpired' = [x \in Receipts |-> x \notin dead /\ rExpired[x]]
     /\ UNCHANGED <<mStored, rAttempts, rDue, rRequeues, handled, claims, loopVars>>

-----------------------------------------------------------------------------
(* Handling and finishing.                                                 *)

(* The handler returns (or throws, which counts as a failure). *)
DeliverHandled(l, ok) ==
  /\ lPc[l] = "handling"
  /\ lPc' = [lPc EXCEPT ![l] = "finishing"]
  /\ lOk' = [lOk EXCEPT ![l] = ok]
  /\ handled' = IF ok THEN handled \cup {lReceipt[l]} ELSE handled
  /\ UNCHANGED <<receiptRows, claims, lReceipt, lAttempt, lClaim>>

(* Seeded fault: the lease token is not compared. *)
HoldsAnyReceiptLease(l) == rState[lReceipt[l]] = "pending"

(* The delivery returns and its locals are gone. *)
DeliverReturns(l) ==
  /\ lPc' = [lPc EXCEPT ![l] = "idle"]
  /\ lReceipt' = [lReceipt EXCEPT ![l] = None]
  /\ lAttempt' = [lAttempt EXCEPT ![l] = 0]
  /\ lClaim' = [lClaim EXCEPT ![l] = 0]
  /\ lOk' = [lOk EXCEPT ![l] = FALSE]

(* WHERE clause of the finishing UPDATE.  Unlike the outbox it does not ask
   whether the lease has expired. *)
HoldsReceipt(l) ==
  /\ rState[lReceipt[l]] = "pending"
  /\ rLease[lReceipt[l]] = l

ReceiptOutcome(ok, attempt) ==
  IF ok THEN "processed"
  ELSE IF attempt >= MailboxMaxAttempts THEN "dead" ELSE "pending"

DeliverFinish(l) ==
  LET r == lReceipt[l]
  IN /\ lPc[l] = "finishing"
     /\ HoldsReceipt(l)
     /\ rState' = [rState EXCEPT ![r] = ReceiptOutcome(lOk[l], lAttempt[l])]
     /\ rLease' = [rLease EXCEPT ![r] = None]
     /\ rExpired' = [rExpired EXCEPT ![r] = FALSE]
     /\ rDue' = [rDue EXCEPT ![r] = lOk[l]]
     /\ DeliverReturns(l)
     /\ UNCHANGED <<mStored, rAttempts, rRequeues, handled, claims>>

(* The finishing UPDATE matched no row: events.lease_lost. *)
DeliverLeaseLost(l) ==
  /\ lPc[l] = "finishing"
  /\ ~HoldsReceipt(l)
  /\ DeliverReturns(l)
  /\ UNCHANGED <<receiptRows, handled, claims>>

(* The process dies mid-delivery, or never learns the outcome of its COMMIT. *)
DeliverAbandon(l) ==
  /\ lPc[l] # "idle"
  /\ DeliverReturns(l)
  /\ UNCHANGED <<receiptRows, handled, claims>>

-----------------------------------------------------------------------------
(* Time and the operator.                                                  *)

ReceiptLeaseExpires(r) ==
  /\ rLease[r] # None
  /\ ~rExpired[r]
  /\ rExpired' = [rExpired EXCEPT ![r] = TRUE]
  /\ UNCHANGED <<mStored, rState, rAttempts, rLease, rDue, rRequeues,
                 handled, claims, loopVars>>

ReceiptBackoffEnds(r) ==
  /\ rState[r] = "pending"
  /\ ~rDue[r]
  /\ rDue' = [rDue EXCEPT ![r] = TRUE]
  /\ UNCHANGED <<mStored, rState, rAttempts, rLease, rExpired, rRequeues,
                 handled, claims, loopVars>>

(* requeue of one dead receipt of a consumer, or of all of them. *)
MailboxRequeue(c, S) ==
  /\ rRequeues < MaxRedeliveries
  /\ S # {}
  /\ \A r \in S : r[2] = c /\ rState[r] = "dead"
  /\ rState' = [x \in Receipts |-> IF x \in S THEN "pending" ELSE rState[x]]
  /\ rAttempts' = [x \in Receipts |-> IF x \in S THEN 0 ELSE rAttempts[x]]
  /\ rDue' = [x \in Receipts |-> x \in S \/ rDue[x]]
  /\ rRequeues' = rRequeues + 1
  /\ UNCHANGED <<mStored, rLease, rExpired, handled, claims, loopVars>>

(* Seeded fault: dead receipts do not keep their event. *)
MailboxPrunableDead(e) ==
  /\ e \in mStored
  /\ \A r \in Receipts : r[1] = e => rState[r] \in {"absent", "processed", "dead"}

(* No receipt is unprocessed or was finished within the retention. *)
MailboxPrunable(e) ==
  /\ e \in mStored
  /\ \A r \in Receipts : r[1] = e => rState[r] \in {"absent", "processed"}

(* prune deletes events; their receipts go with them (ON DELETE CASCADE). *)
MailboxPrune(S) ==
  /\ S # {}
  /\ \A e \in S : MailboxPrunable(e)
  /\ mStored' = mStored \ S
  /\ rState' = [r \in Receipts |-> IF r[1] \in S THEN "absent" ELSE rState[r]]
  /\ rAttempts' = [r \in Receipts |-> IF r[1] \in S THEN 0 ELSE rAttempts[r]]
  /\ rDue' = [r \in Receipts |-> r[1] \notin S /\ rDue[r]]
  /\ UNCHANGED <<rLease, rExpired, rRequeues, handled, claims, loopVars>>

-----------------------------------------------------------------------------
(* What the mailbox keeps true by itself, whatever its environment does.   *)

(* The mailbox has, or has had and delivered, the receipt. *)
Known(r) == rState[r] # "absent" \/ r \in handled

(* Every consumer has, or has had and handled, a receipt for the event. *)
Accepted(e) == \A r \in Receipts : r[1] = e => Known(r)

ReceiptAbsent == \A r \in Receipts : rState[r] = "absent" => rAttempts[r] = 0

(* A lease belongs to a pending receipt; its holder knows the current attempt
   and made the latest claim, and nobody works on a receipt that never was. *)
ReceiptLeases ==
  /\ \A r \in Receipts : rLease[r] # None => rState[r] = "pending"
  /\ \A l \in Loops : lPc[l] # "idle" => lReceipt[l] \in Receipts /\ Known(lReceipt[l])
  /\ \A l \in Loops :
       lPc[l] # "idle" /\ rLease[lReceipt[l]] = l =>
         lAttempt[l] = rAttempts[lReceipt[l]] /\ lClaim[l] = claims[lReceipt[l]]

ReceiptDeadSpent ==
  \A r \in Receipts :
    rState[r] = "dead" =>
      rAttempts[r] = MailboxMaxAttempts \/ r[1] \in MailUndecodable

ReceiptNotStranded ==
  \A r \in Receipts :
    rState[r] = "pending" /\ rAttempts[r] = MailboxMaxAttempts => rLease[r] # None

(* What a loop is about to record as processed has been handled. *)
ProcessedWasHandled ==
  /\ \A l \in Loops : lPc[l] = "finishing" /\ lOk[l] => lReceipt[l] \in handled
  /\ \A r \in Receipts : rState[r] = "processed" => r \in handled

MailboxInv ==
  /\ MailboxTypeOK
  /\ ReceiptAbsent
  /\ ReceiptLeases
  /\ ReceiptDeadSpent
  /\ ReceiptNotStranded
  /\ ProcessedWasHandled

=============================================================================
