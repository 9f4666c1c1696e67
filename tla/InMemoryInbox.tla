---------------------------- MODULE InMemoryInbox ---------------------------
(***************************************************************************)
(* The inbox of a process that runs without PostgreSQL, for one consumer:  *)
(* a receipt for each accepted event, and a delivery loop that takes the   *)
(* receipt that has been due longest, hands the event to the consumer and  *)
(* records the outcome.  There is one loop, and its leases do not expire.  *)
(***************************************************************************)
EXTENDS Naturals, FiniteSets

CONSTANTS
  Events,        \* events
  MaxAttempts,   \* RetryPolicy.maxAttempts
  RetryDelay,    \* the shortest retry delay, in ticks of the clock
  MaxRequeues    \* bound on requeues

VARIABLES
  receipts,   \* receipts by event
  leased,     \* the receipt being delivered
  requeues    \* how often dead receipts were requeued

inbox == <<receipts, leased, requeues>>

InboxInit ==
  /\ receipts = <<>>
  /\ leased = {}
  /\ requeues = 0

(* accept: an event that has a receipt keeps it. *)
Accept(e, time) ==
  /\ receipts' =
       IF e \in DOMAIN receipts THEN receipts
       ELSE [f \in DOMAIN receipts \cup {e} |->
               IF f = e THEN [state |-> "pending", attempts |-> 0, availableAt |-> time,
                              sequence |-> Cardinality(DOMAIN receipts)]
               ELSE receipts[f]]
  /\ UNCHANGED <<leased, requeues>>

Sooner(e, f) ==
  \/ receipts[e].availableAt < receipts[f].availableAt
  \/ /\ receipts[e].availableAt = receipts[f].availableAt
     /\ receipts[e].sequence <= receipts[f].sequence

(* Seeded fault: deliveries go by the order of acceptance, due or not. *)
DueInOrder(time) ==
  {e \in DOMAIN receipts : receipts[e].state = "pending" /\ receipts[e].sequence = 0}

(* Pending, not leased and due. *)
Due(time) ==
  {e \in DOMAIN receipts :
     /\ receipts[e].state = "pending" /\ e \notin leased
     /\ receipts[e].availableAt <= time}

(* deliver, up to the call of the handler. *)
Deliver(e, time) ==
  /\ leased = {}
  /\ e \in Due(time)
  /\ \A f \in Due(time) : Sooner(e, f)
  /\ receipts' = [receipts EXCEPT ![e].attempts = @ + 1]
  /\ leased' = {e}
  /\ UNCHANGED requeues

(* Seeded fault: a failed delivery is over. *)
SettledEither(receipt, ok, time) == [receipt EXCEPT !.state = "processed"]

(* exhausted(), and the receipt after the handler has returned or thrown. *)
Settled(receipt, ok, time) ==
  IF ok THEN [receipt EXCEPT !.state = "processed"]
  ELSE [receipt EXCEPT !.availableAt = time + RetryDelay,
          !.state = IF receipt.attempts >= MaxAttempts THEN "dead" ELSE "pending"]

Settle(e, ok, time) ==
  /\ receipts' = [receipts EXCEPT ![e] = Settled(@, ok, time)]
  /\ leased' = {}
  /\ UNCHANGED requeues

(* requeue of one dead event. *)
Requeue(e, time) ==
  /\ requeues < MaxRequeues
  /\ e \in DOMAIN receipts
  /\ receipts[e].state = "dead"
  /\ receipts' = [receipts EXCEPT ![e].state = "pending", ![e].attempts = 0,
                                  ![e].availableAt = time]
  /\ requeues' = requeues + 1
  /\ UNCHANGED leased

=============================================================================
