------------------------------ MODULE Lifecycle -----------------------------
(***************************************************************************)
(* The event pipeline inside processes that start, drain and stop.         *)
(*                                                                         *)
(* Each process runs one outbox worker and one delivery loop per consumer. *)
(* The consumers an event is accepted for are those subscribed in the      *)
(* publishing process at that moment (EventDelivery.consumers).  Modules   *)
(* subscribe in onModuleInit, before any worker is started in              *)
(* onApplicationBootstrap.  app.close() runs the onModuleDestroy hooks one *)
(* module after another, each awaited, importing modules before the ones   *)
(* they import: first the modules that subscribe, then the platform        *)
(* modules that deliver and publish.                                       *)
(***************************************************************************)
EXTENDS EventPipeline

CONSTANTS
  Processes,
  DispatcherOf,   \* the dispatcher of each process's OutboxWorker
  ProcessOf,      \* the process of each delivery loop
  MaxStarts       \* bound: how often a process is started

ASSUME LifecycleAssumption ==
  /\ DispatcherOf \in [Processes -> Dispatchers]
  /\ \A p, q \in Processes : DispatcherOf[p] = DispatcherOf[q] => p = q
  /\ ProcessOf \in [Loops -> Processes]
  /\ MaxStarts \in Nat

VARIABLES
  phase,    \* where each process is in its life
  subs,     \* consumers subscribed in it (EventDelivery.#subscribers)
  halted,   \* platform parts whose onModuleDestroy has been called
  starts,   \* starts so far
  names     \* consumers a publish in flight was called with, None before it

processVars == <<phase, subs, halted, starts>>
lifecycleVars == <<vars, processVars, names>>

Phases == {"down", "starting", "running", "draining", "destroying"}
PlatformParts == {"delivery", "worker"}

LifecycleTypeOK ==
  /\ TypeOK
  /\ phase \in [Processes -> Phases]
  /\ subs \in [Processes -> SUBSET Consumers]
  /\ halted \in [Processes -> SUBSET PlatformParts]
  /\ starts \in [Processes -> 0..MaxStarts]
  /\ names \in [Dispatchers -> (SUBSET Consumers) \cup {None}]

LifecycleInit ==
  /\ Init
  /\ phase = [p \in Processes |-> "down"]
  /\ subs = [p \in Processes |-> {}]
  /\ halted = [p \in Processes |-> {}]
  /\ starts = [p \in Processes |-> 0]
  /\ names = [d \in Dispatchers |-> None]

LoopsOf(p) == {l \in Loops : ProcessOf[l] = p}
WorkerIdle(p) == dPc[DispatcherOf[p]] = "idle"
LoopsIdle(p) == \A l \in LoopsOf(p) : lPc[l] = "idle"

-----------------------------------------------------------------------------
(* Starting.                                                               *)

Start(p) ==
  /\ phase[p] = "down"
  /\ starts[p] < MaxStarts
  /\ phase' = [phase EXCEPT ![p] = "starting"]
  /\ starts' = [starts EXCEPT ![p] = @ + 1]
  /\ UNCHANGED <<vars, subs, halted, names>>

(* onModuleInit of the module that owns consumer c. *)
Subscribe(p, c) ==
  /\ phase[p] = "starting"
  /\ c \notin subs[p]
  /\ subs' = [subs EXCEPT ![p] = @ \cup {c}]
  /\ UNCHANGED <<vars, phase, halted, starts, names>>

(* The onApplicationBootstrap hooks: every onModuleInit has returned. *)
Bootstrap(p) ==
  /\ phase[p] = "starting"
  /\ subs[p] = Consumers
  /\ phase' = [phase EXCEPT ![p] = "running"]
  /\ UNCHANGED <<vars, subs, halted, starts, names>>

-----------------------------------------------------------------------------
(* Stopping.                                                               *)

(* The first SIGTERM or SIGINT: gate.drain(), then wait drainMs. *)
Drain(p) ==
  /\ phase[p] = "running"
  /\ phase' = [phase EXCEPT ![p] = "draining"]
  /\ UNCHANGED <<vars, subs, halted, starts, names>>

Close(p) ==
  /\ phase[p] = "draining"
  /\ phase' = [phase EXCEPT ![p] = "destroying"]
  /\ UNCHANGED <<vars, subs, halted, starts, names>>

(* Seeded fault: the modules unsubscribe as soon as readiness drains. *)
UnsubscribeEarly(p, c) ==
  /\ phase[p] \in {"draining", "destroying"}
  /\ c \in subs[p]
  /\ subs' = [subs EXCEPT ![p] = @ \ {c}]
  /\ UNCHANGED <<vars, phase, halted, starts, names>>

(* onModuleDestroy of the module that owns consumer c. *)
Unsubscribe(p, c) ==
  /\ phase[p] = "destroying"
  /\ c \in subs[p]
  /\ subs' = [subs EXCEPT ![p] = @ \ {c}]
  /\ UNCHANGED <<vars, phase, halted, starts, names>>

(* Seeded fault: the hooks wait until no row is left to publish or deliver. *)
HookReturnedDrained(p, part) ==
  \/ part \notin halted[p]
  \/ IF part = "worker" THEN \A e \in Events : oState[e] # "pending"
                        ELSE \A r \in Receipts : rState[r] # "pending"

(* The hook of a platform part has returned: it awaits the loops it has
   aborted. *)
HookReturned(p, part) ==
  \/ part \notin halted[p]
  \/ IF part = "worker" THEN WorkerIdle(p) ELSE LoopsIdle(p)

(* onModuleDestroy of EventDelivery or OutboxWorker: abort the signal.  The
   hook before it has returned. *)
Halt(p, part) ==
  /\ phase[p] = "destroying"
  /\ subs[p] = {}
  /\ part \notin halted[p]
  /\ \A q \in PlatformParts : HookReturned(p, q)
  /\ halted' = [halted EXCEPT ![p] = @ \cup {part}]
  /\ UNCHANGED <<vars, phase, subs, starts, names>>

(* Seeded fault: onModuleDestroy aborts the worker and does not await it. *)
StopWithoutWaiting(p) ==
  /\ phase[p] = "destroying"
  /\ halted[p] = PlatformParts
  /\ phase' = [phase EXCEPT ![p] = "down"]
  /\ halted' = [halted EXCEPT ![p] = {}]
  /\ UNCHANGED <<vars, subs, starts, names>>

(* Every hook has returned: onApplicationShutdown closes the database and
   the process exits. *)
Stop(p) ==
  /\ phase[p] = "destroying"
  /\ halted[p] = PlatformParts
  /\ \A q \in PlatformParts : HookReturned(p, q)
  /\ phase' = [phase EXCEPT ![p] = "down"]
  /\ halted' = [halted EXCEPT ![p] = {}]
  /\ UNCHANGED <<vars, subs, starts, names>>

(* The process dies: subscriptions and everything in flight are gone, rows
   keep their leases. *)
Kill(p) ==
  LET d == DispatcherOf[p]
  IN /\ phase[p] # "down"
     /\ phase' = [phase EXCEPT ![p] = "down"]
     /\ subs' = [subs EXCEPT ![p] = {}]
     /\ halted' = [halted EXCEPT ![p] = {}]
     /\ names' = [names EXCEPT ![d] = None]
     /\ DispatchReturns(d)
     /\ lPc' = [l \in Loops |-> IF l \in LoopsOf(p) THEN "idle" ELSE lPc[l]]
     /\ lReceipt' = [l \in Loops |-> IF l \in LoopsOf(p) THEN None ELSE lReceipt[l]]
     /\ lAttempt' = [l \in Loops |-> IF l \in LoopsOf(p) THEN 0 ELSE lAttempt[l]]
     /\ lClaim' = [l \in Loops |-> IF l \in LoopsOf(p) THEN 0 ELSE lClaim[l]]
     /\ lOk' = [l \in Loops |-> l \notin LoopsOf(p) /\ lOk[l]]
     /\ UNCHANGED <<outboxRows, receiptRows, handled, claims, starts>>

-----------------------------------------------------------------------------
(* The outbox worker and the delivery loops of a process.                  *)

Serving(p) == phase[p] \in {"running", "draining", "destroying"}

(* poll: the next dispatch starts unless the worker has been stopped. *)
WorkerPoll(p) ==
  /\ Serving(p) /\ "worker" \notin halted[p]
  /\ \/ \E e \in Events : DispatchClaim(DispatcherOf[p], e)
     \/ DispatchNothing(DispatcherOf[p])
  /\ UNCHANGED <<mailboxVars, processVars, names>>

(* publish is called: it reads the subscriptions of this instant ... *)
PublishCall(p) ==
  LET d == DispatcherOf[p]
  IN /\ dPc[d] = "publishing"
     /\ names[d] = None
     /\ "worker" \notin halted[p]
     /\ names' = [names EXCEPT ![d] = subs[p]]
     /\ UNCHANGED <<vars, processVars>>

(* ... unless the signal is aborted already. *)
PublishCanceled(p) ==
  LET d == DispatcherOf[p]
  IN /\ names[d] = None
     /\ "worker" \in halted[p]
     /\ DispatchPublished(d, FALSE)
     /\ UNCHANGED <<mailboxVars, processVars, names>>

(* accept commits, and the answer arrives (ok) or is lost. *)
PublishCommits(p, ok) ==
  LET d == DispatcherOf[p]
  IN /\ names[d] # None
     /\ DispatchPublished(d, ok)
     /\ AcceptFor(dEvent[d], names[d])
     /\ names' = [names EXCEPT ![d] = None]
     /\ UNCHANGED processVars

PublishRollsBack(p) ==
  LET d == DispatcherOf[p]
  IN /\ names[d] # None
     /\ DispatchPublished(d, FALSE)
     /\ names' = [names EXCEPT ![d] = None]
     /\ UNCHANGED <<mailboxVars, processVars>>

(* ack and release take no signal: they run to their end, though their
   transaction may fail. *)
WorkerFinish(p) ==
  LET d == DispatcherOf[p]
  IN /\ dPc[d] = "finishing"
     /\ DispatchFinish(d) \/ DispatchLeaseLost(d) \/ DispatchAbandon(d)
     /\ UNCHANGED <<mailboxVars, processVars, names>>

Worker(p) ==
  \/ WorkerPoll(p)
  \/ PublishCall(p)
  \/ PublishCanceled(p)
  \/ \E ok \in BOOLEAN : PublishCommits(p, ok)
  \/ PublishRollsBack(p)
  \/ WorkerFinish(p)

(* #run: another delivery starts while the consumer is subscribed and the
   delivery is not aborted; one that is under way ends. *)
LoopPoll(l) ==
  LET p == ProcessOf[l]
  IN /\ Serving(p) /\ "delivery" \notin halted[p]
     /\ ConsumerOf[l] \in subs[p]
     /\ (\E r \in Receipts : DeliverClaim(l, r)) \/ DeliverNothing(l)
     /\ UNCHANGED <<outboxVars, processVars, names>>

LoopFinish(l) ==
  /\ \/ \E ok \in BOOLEAN : DeliverHandled(l, ok)
     \/ DeliverFinish(l)
     \/ DeliverLeaseLost(l)
     \/ lPc[l] = "finishing" /\ DeliverAbandon(l)
  /\ UNCHANGED <<outboxVars, processVars, names>>

Loop(l) == LoopPoll(l) \/ LoopFinish(l)

-----------------------------------------------------------------------------
Stopping(p) ==
  \/ Close(p)
  \/ \E c \in Consumers : Unsubscribe(p, c)
  \/ \E part \in PlatformParts : Halt(p, part)
  \/ Stop(p)

LifecycleNext ==
  \/ \E e \in Events : Enqueue(e) /\ UNCHANGED <<mailboxVars, processVars, names>>
  \/ \E p \in Processes :
       \/ Start(p) \/ Bootstrap(p) \/ Drain(p) \/ Stopping(p) \/ Kill(p)
       \/ \E c \in Consumers : Subscribe(p, c)
       \/ Worker(p)
  \/ \E l \in Loops : Loop(l)
  \/ /\ \/ \E e \in Events : OutboxTime(e)
        \/ \E r \in Receipts : MailboxTime(r)
        \/ Maintenance
     /\ UNCHANGED <<processVars, names>>

LifecycleSpec == LifecycleInit /\ [][LifecycleNext]_lifecycleVars

(* A closing process keeps taking its steps: its event loop runs, handlers
   and transactions return. *)
LifecycleFairSpec ==
  /\ LifecycleSpec
  /\ \A p \in Processes : WF_lifecycleVars(Stopping(p)) /\ WF_lifecycleVars(Worker(p))
  /\ \A l \in Loops : WF_lifecycleVars(Loop(l))

-----------------------------------------------------------------------------
(* Properties.                                                             *)

(* No worker of a process that is up and not yet destroying publishes an
   event to less than all consumers: subscription precedes bootstrap, and
   draining does not touch the subscriptions. *)
PublishesForAll ==
  \A p \in Processes :
    phase[p] \in {"running", "draining"} /\ names[DispatcherOf[p]] # None =>
      names[DispatcherOf[p]] = Consumers

(* When a process has closed its database nothing of it is still in flight,
   nor before it serves again: the destroy hooks await the polling loops
   (outbox-worker.ts, event-delivery.ts). *)
DownIsQuiet ==
  \A p \in Processes :
    /\ phase[p] \in {"down", "starting"} => WorkerIdle(p) /\ LoopsIdle(p)
    /\ phase[p] = "down" => subs[p] = {}

(* Every consumer is subscribed until the modules are destroyed, and the
   platform parts are halted after the last one has unsubscribed. *)
HooksInOrder ==
  \A p \in Processes :
    /\ phase[p] \in {"running", "draining"} => subs[p] = Consumers
    /\ halted[p] # {} => phase[p] = "destroying" /\ subs[p] = {}

(* The process of dispatcher d is destroying its modules and the one that
   owns consumer c has unsubscribed. *)
Withdrawn(d, c) ==
  \E p \in Processes :
    DispatcherOf[p] = d /\ phase[p] = "destroying" /\ c \notin subs[p]

(* A publish, in flight or with a durable receipt, passes over a consumer only
   when that has withdrawn. *)
PassedOverIsWithdrawn ==
  /\ \A d \in Dispatchers :
       names[d] # None =>
         dPc[d] = "publishing" /\ \A c \in Consumers \ names[d] : Withdrawn(d, c)
  /\ \A d \in Dispatchers :
       dPc[d] = "finishing" /\ dOk[d] =>
         \A r \in Receipts : r[1] = dEvent[d] => Known(r) \/ Withdrawn(d, r[2])

(* What holds at all times: types, what outbox and inbox keep true by
   themselves, whom a process publishes for, and that a stopped process has
   stopped. *)
ProcessInv ==
  /\ OutboxInv
  /\ MailboxInv
  /\ LifecycleTypeOK
  /\ PublishesForAll
  /\ DownIsQuiet
  /\ HooksInOrder
  /\ PassedOverIsWithdrawn

(* A delivery that nothing owes any more and that never succeeded. *)
Lost(r) ==
  /\ r[1] \in committed
  /\ r \notin handled
  /\ rState[r] \notin {"pending", "dead"}
  /\ oState[r[1]] \notin {"pending", "dead"}

(* An event can be lost to a consumer only in a step of a process that is
   destroying its modules; starts, drains, crashes and restarts of any number
   of processes lose nothing. *)
LossOnlyWhileDestroying ==
  [][\A r \in Receipts :
       ~Lost(r) /\ Lost(r)' =>
         \E p \in Processes : phase[p] = "destroying" /\ r[2] \notin subs[p]]_lifecycleVars

(* app.close() returns: a process that has begun to destroy its modules goes
   down, whatever its workers were doing. *)
CloseReturns ==
  \A p \in Processes : phase[p] = "destroying" ~> phase[p] = "down"

=============================================================================
