----------------------------- MODULE AuditTrail -----------------------------
(***************************************************************************)
(* From a request to the page on which its trace is read.  A request that  *)
(* the rate limiter admits opens its work and does it, which publishes an  *)
(* event; the audit consumer records every event once, whatever the number *)
(* of deliveries; owners and admins of an organization page through its    *)
(* entries while more are recorded.                                        *)
(*                                                                         *)
(* In memory mode one process delivers from its own inbox and records in   *)
(* one turn.  In PostgreSQL mode any process may deliver: of the pipeline  *)
(* only the promise of AtLeastOnce is used (an event is owed until its     *)
(* handler has succeeded), the time of an entry is read before the         *)
(* transaction that inserts it, and the processes' clocks differ.          *)
(***************************************************************************)
EXTENDS RateLimit, Envelope, Pagination

CONSTANTS
  Modes,          \* the modes to check
  Processes,      \* numbers of the processes that deliver; the first in memory
  LagOf,          \* how far each one's clock is behind
  TenantOf,       \* the organization a request belongs to, or None
  MaxCounter,     \* 4095, the last counter of an id within a millisecond
  MaxAttempts, RetryDelay, MaxRequeues,
  PageSize

ASSUME AuditAssumption ==
  /\ Modes \subseteq {"memory", "postgres"}
  /\ 1 \in Processes /\ Processes \subseteq Nat
  /\ \A p \in Processes : LagOf[p] \in Nat
  /\ Requests \subseteq IDs /\ IsFiniteSet(Requests)
  /\ None # "payload"
  /\ MaxCounter \in Nat /\ PageSize \in Nat \ {0}
  /\ MaxAttempts \in Nat \ {0} /\ RetryDelay \in Nat /\ MaxRequeues \in Nat

VARIABLES
  receipts, leased, requeues,   \* the in-memory inbox
  published, \* events published
  owed,      \* events the durable inbox owes the consumer
  ids,       \* the id generator of each process: last time and counter
  call,      \* the entry each process is about to insert
  entries,   \* the rows of the audit trail, by event
  walk       \* the reader's way through each organization's pages

inboxVars == <<receipts, leased, requeues>>
recording == <<ids, call, entries>>
vars == <<mode, now, limits, published, inboxVars, owed, recording, walk>>

Inbox == INSTANCE InMemoryInbox WITH Events <- Requests

Tenants == {TenantOf[r] : r \in Requests} \ {None}

(* Where the reader is, what was seen, and what the walk has to show. *)
NewWalk == [stage |-> "start", at |-> <<>>, seen |-> <<>>, base |-> {}]

Init ==
  /\ mode \in Modes
  /\ now = 0
  /\ RateInit
  /\ Inbox!InboxInit
  /\ published = {} /\ owed = {}
  /\ ids = [p \in Processes |-> [last |-> 0, counter |-> 0]]
  /\ call = [p \in Processes |-> None]
  /\ entries = <<>>
  /\ walk = [t \in Tenants |-> NewWalk]

Tick ==
  /\ now < MaxTime
  /\ now' = now + 1
  /\ UNCHANGED <<mode, limits, published, inboxVars, owed, recording, walk>>

-----------------------------------------------------------------------------
(* Requests.                                                               *)

Limit(r) ==
  /\ Consume(r) \/ ConsumeFails(r)
  /\ UNCHANGED <<mode, now, published, inboxVars, owed, recording, walk>>

(* The HTTP layer's work: the request's id, nobody in particular. *)
HttpWork ==
  [r \in Requests |->
     Open(r, "request",
          [initiator |-> [kind |-> "anonymous", identity |-> None],
           onBehalfOf |-> None, tenant |-> None], r).work]

(* The event its command creates. *)
EventOf ==
  [r \in Requests |-> EnvelopeCreate(r, HttpWork[r], "payload", None, TenantOf[r])]

(* The handler's writer stores the change and its event, which the inbox
   accepts: at once in memory, by way of the outbox otherwise. *)
Publish(r) ==
  /\ Admitted(r)
  /\ r \notin published
  /\ published' = published \cup {r}
  /\ AssertEventWork(EventOf[r], HttpWork[r])
  /\ \/ mode = "memory" /\ Inbox!Accept(r, now) /\ UNCHANGED owed
     \/ mode = "postgres" /\ owed' = owed \cup {r} /\ UNCHANGED inboxVars
  /\ UNCHANGED <<mode, now, limits, recording, walk>>

-----------------------------------------------------------------------------
(* Recording.                                                              *)

Clock(p) == IF now > LagOf[p] THEN now - LagOf[p] ELSE 0

(* V7.newId: the clock's time with a random counter, or the last time again
   with the next counter when the clock has not moved on, or has gone back.
   The counter runs out, until the clock moves on (which the bound on the
   clock must not prevent). *)
NewIds(p) ==
  IF Clock(p) > ids[p].last
  THEN {[last |-> Clock(p), counter |-> c] : c \in 0 .. MaxCounter \div 2}
  ELSE {[ids[p] EXCEPT !.counter = @ + 1] : q \in
          {q \in {p} : ids[p].counter < MaxCounter \/ now = MaxTime}}

(* An entry's place in the order: when it was recorded, then its id. *)
Key(p, g) == <<Clock(p), g.last, g.counter, p>>

(* RecordAuditEvent's entry, with the id just minted. *)
Entry(p, e, g) == RecordEntry(Key(p, g), EventOf[e], Clock(p))

(* Seeded fault: an event that has been recorded is recorded again. *)
InsertOver(e, entry) ==
  [f \in DOMAIN entries \cup {e} |-> IF f = e THEN EntryRow(entry) ELSE entries[f]]

(* The writer: the first entry of an event stays. *)
Insert(e, entry) ==
  [f \in DOMAIN entries \cup {e} |->
     IF f \in DOMAIN entries THEN entries[f] ELSE EntryRow(entry)]

(* InMemoryInbox.deliver, up to the handler and after it.  The handler fails
   before it has recorded, or after it (fault injection). *)
DeliverInMemory(e) ==
  /\ mode = "memory"
  /\ Inbox!Deliver(e, now)
  /\ UNCHANGED <<mode, now, limits, published, owed, recording, walk>>

HandleInMemory(e) ==
  /\ e \in leased
  /\ \/ /\ \E g \in NewIds(1) :
             /\ ids' = [ids EXCEPT ![1] = g]
             /\ entries' = Insert(e, Entry(1, e, g))
        /\ \E ok \in BOOLEAN : (ok \/ now < MaxTime) /\ Inbox!Settle(e, ok, now)
     \/ /\ now < MaxTime
        /\ Inbox!Settle(e, FALSE, now)
        /\ UNCHANGED <<ids, entries>>
  /\ UNCHANGED <<mode, now, limits, published, owed, call, walk>>

RequeueInMemory(e) ==
  /\ Inbox!Requeue(e, now)
  /\ UNCHANGED <<mode, now, limits, published, owed, recording, walk>>

(* A process is handed an owed event and stamps its entry. *)
Handle(p, e) ==
  /\ e \in owed
  /\ call[p] = None
  /\ \E g \in NewIds(p) :
       /\ ids' = [ids EXCEPT ![p] = g]
       /\ call' = [call EXCEPT ![p] = Entry(p, e, g)]
  /\ UNCHANGED <<mode, now, limits, published, inboxVars, owed, entries, walk>>

(* INSERT ... ON CONFLICT DO NOTHING commits; the delivery is over unless the
   process lost its lease or its answer. *)
HandleCommit(p) ==
  /\ call[p] # None
  /\ entries' = Insert(call[p].eventId, call[p])
  /\ owed' \in {owed \ {call[p].eventId}} \cup (IF now < MaxTime THEN {owed} ELSE {})
  /\ call' = [call EXCEPT ![p] = None]
  /\ UNCHANGED <<mode, now, limits, published, inboxVars, ids, walk>>

HandleFails(p) ==
  /\ call[p] # None
  /\ now < MaxTime
  /\ call' = [call EXCEPT ![p] = None]
  /\ UNCHANGED <<mode, now, limits, published, inboxVars, owed, ids, entries, walk>>

-----------------------------------------------------------------------------
(* Reading.                                                                *)

(* The keys of an organization's rows, each of which reads back (TrailIsTrue). *)
Stored(t) == {entries[e].id : e \in {f \in DOMAIN entries : entries[f].tenant = t}}

(* ListOrganizationAuditEntries: one page, the first or the one after a
   cursor.  The reader may present the cursor of another organization's list.
   Refused for that, or for being no owner or admin by now, the reader has
   learnt nothing: no step here. *)
Page(t, cursor) ==
  /\ walk[t].stage \in {"start", "next"}
  /\ Acceptable(cursor, t)
  /\ \E rows \in KeysetPage(Stored(t), cursor.position, PageSize) :
       LET page == Window(rows, PageSize)
       IN walk' = [walk EXCEPT ![t] =
            [stage |-> IF page.next = <<>> THEN "done" ELSE "next",
             at |-> page.next, seen |-> walk[t].seen \o page.items,
             base |-> IF walk[t].stage = "start" \/ mode = "memory"
                      THEN Stored(t) ELSE walk[t].base]]
  /\ UNCHANGED <<mode, now, limits, published, inboxVars, owed, recording>>

Next ==
  \/ Tick
  \/ \E r \in Requests : Limit(r) \/ Publish(r)
  \/ \E e \in Requests : DeliverInMemory(e) \/ HandleInMemory(e) \/ RequeueInMemory(e)
  \/ \E p \in Processes : HandleCommit(p) \/ HandleFails(p) \/ \E e \in owed : Handle(p, e)
  \/ \E s, t \in Tenants : Page(t, Cursor(s, walk[s].at))

(* Processes keep polling, handlers return, time passes. *)
Fairness ==
  /\ WF_vars(Tick)
  /\ WF_vars(\E e \in Requests : DeliverInMemory(e) \/ HandleInMemory(e))
  /\ WF_vars(\E p \in Processes : HandleCommit(p) \/ \E e \in owed : Handle(p, e))

Spec == Init /\ [][Next]_vars /\ Fairness

-----------------------------------------------------------------------------
Dead(e) == e \in DOMAIN receipts /\ receipts[e].state = "dead"
Waiting(e) == e \in owed \/ (e \in DOMAIN receipts /\ receipts[e].state # "processed")

Keys == (0 .. MaxTime) \X (0 .. MaxTime) \X Nat \X Processes

Receipts == [state : {"pending", "processed", "dead"}, attempts : Nat, availableAt : Nat,
             sequence : Nat]

TypeOK ==
  /\ mode \in Modes /\ now \in 0 .. MaxTime
  /\ RateTypeOK
  /\ DOMAIN receipts \subseteq Requests /\ \A e \in DOMAIN receipts : receipts[e] \in Receipts
  /\ leased \subseteq DOMAIN receipts
  /\ published \subseteq Requests /\ owed \subseteq Requests
  /\ ids \in [Processes -> [last : 0 .. MaxTime, counter : Nat]]
  /\ DOMAIN call = Processes
  /\ DOMAIN walk = Tenants

(* Only what an admitted request has published waits, is handled or is on the
   trail, each mode in its own inbox. *)
OnlyPublished ==
  /\ \A e \in published : Admitted(e)
  /\ DOMAIN receipts \cup owed \cup DOMAIN entries \subseteq published
  /\ mode = "memory" => owed = {} /\ \A p \in Processes : call[p] = None
  /\ mode # "memory" => DOMAIN receipts = {}

(* The entry of an event under a key, whose first part is the time. *)
EntryUnder(k, e) == RecordEntry(k, EventOf[e], k[1])

(* What a process is about to insert has the id it has minted last; what is
   stored has one that its process will not mint again, in memory with a time
   that has come. *)
IdsAreSpent ==
  /\ \A p \in Processes : call[p] # None =>
       \E e \in published, time \in 0 .. MaxTime :
         call[p] = EntryUnder(<<time, ids[p].last, ids[p].counter, p>>, e)
  /\ \A e \in DOMAIN entries :
       LET k == entries[e].id
       IN /\ k \in Keys
          /\ entries[e] = EntryRow(EntryUnder(k, e))
          /\ \/ k[2] < ids[k[4]].last
             \/ k[2] = ids[k[4]].last /\ k[3] < ids[k[4]].counter
             \/ k[2] = ids[k[4]].last /\ k[3] = ids[k[4]].counter /\ call[k[4]] = None
          /\ mode = "memory" => k[4] = 1 /\ k[1] <= Clock(1)

(* The trail tells what happened: every row reads back as the entry of an
   event that was published for an admitted request, with that request's work
   and organization, and no two entries share an id, whichever processes
   recorded them. *)
TrailIsTrue ==
  \A e \in DOMAIN entries :
    LET entry == EntryFrom(entries[e])
    IN /\ DecodeWork(entries[e].work) # None /\ entry.eventId = e
       /\ Admitted(e) /\ entry.tenant = TenantOf[e] /\ entry.work = HttpWork[e]
       /\ \A f \in DOMAIN entries \ {e} : entries[f].id # entries[e].id

(* An event that no longer waits for the consumer is on the trail: a delivery
   never ends well without its entry. *)
HandledIsRecorded == \A e \in published : Waiting(e) \/ e \in DOMAIN entries

(* A walk that is on its way stands at the last key it has seen, and what it
   still has to show comes after that. *)
WalkOnCourse ==
  \A t \in Tenants :
    LET w == walk[t]
    IN /\ w.stage \in {"start", "next", "done"}
       /\ w.seen \in Seq(Keys) /\ w.base \subseteq Stored(t)
       /\ w.stage = "start" => w.at = <<>> /\ w.seen = <<>>
       /\ w.stage = "next" =>
            /\ w.seen # <<>> /\ w.at = w.seen[Len(w.seen)]
            /\ \A k \in (IF mode = "memory" THEN Stored(t) ELSE w.base) :
                 k \in ToSet(w.seen) \/ Before(w.at, k)

(* Types, a true trail, no delivery that ends well without its entry, and
   what these, the limits and the pages rest on. *)
AuditInv ==
  /\ TypeOK /\ OnlyPublished /\ IdsAreSpent /\ TrailIsTrue /\ HandledIsRecorded
  /\ CountsCover /\ WalkOnCourse

(* An entry, once readable, is what it was for good, however often its event
   is delivered: pages already read stay true. *)
EntryIsFinal ==
  [][\A e \in DOMAIN entries : e \in DOMAIN entries' /\ entries'[e] = entries[e]]_vars

(* A walk over the pages shows entries of its organization only, each once
   and in order, and all that were stored when it began, whatever is recorded
   meanwhile and whatever cursors the reader mixes up.  In memory it shows all
   that are stored when it ends; otherwise it may miss an entry whose time was
   read early or by a slow clock and which was inserted behind the cursor. *)
WalkComplete ==
  \A t \in Tenants :
    LET w == walk[t]
    IN /\ ToSet(w.seen) \subseteq Stored(t)
       /\ InOrderOf(w.seen)
       /\ w.stage = "done" => w.base \subseteq ToSet(w.seen)

(* Every event that is published is recorded in the end, or dead in the
   in-memory inbox after all its attempts failed: no schedule of failures,
   retries and other events starves it. *)
EventuallyRecorded ==
  \A e \in Requests :
    e \in published ~> (e \in DOMAIN entries \/ Dead(e))

-----------------------------------------------------------------------------
(* Lineage.                                                                *)

(* Whatever travels comes back: through the envelope and through the row. *)
Survives(w) ==
  /\ \A e \in IDs : AssertEventWork(EnvelopeCreate(e, w, "payload", None, None), w)
  /\ DecodeWork(EncodeWork(w)) = w

Someone == [initiator |-> [kind |-> "user", identity |-> CHOOSE n \in Names : TRUE],
            onBehalfOf |-> None, tenant |-> None]

Optional(S) == S \cup {None}

(* What the factory makes without a parent, and from one. *)
Roots ==
  ({Open(w, "request", Someone, i) : w \in Optional(IDs), i \in IDs}
    \cup {Enter(w, "message", Someone, c, f, i) :
            w \in Optional(IDs), c \in Optional(IDs), f \in Optional(References), i \in IDs}
    \cup {Replay(f, n, w, Someone, i) :
            f \in References, n \in Optional(IDs), w \in Optional(IDs), i \in IDs})
  \ {None}

Children(s) ==
  ({Child(s, w, f, i) : w \in Optional(IDs), f \in Optional(References), i \in IDs}
    \cup {Execute(p, 1, i) :
            p \in {Prepare(s, w, None) : w \in IDs} \ {None}, i \in IDs})
  \ {None}

Retries(s) == {Retry(s, i) : i \in IDs} \ {None}

Scopes == Roots \cup UNION {Children(s) : s \in {Open(None, "request", Someone, i) : i \in IDs}}

(* What is inherited by a child, whoever makes it. *)
Inherited(c, s) ==
  /\ c.work.causation # None
  /\ <<c.work.correlationId, c.work.origin, c.work.attribution, c.work.replay>>
       = <<s.work.correlationId, s.work.origin, s.work.attribution, s.work.replay>>
  /\ c.work.depth = IF s.work.depth = None THEN None ELSE s.work.depth + 1
  /\ c.work.workId # s.work.workId /\ c.attempt = 1

(* The same for everything the factory makes of its inputs: descendants and
   retries, and a new id makes an operation succeed. *)
ScopesKeepLineage ==
  /\ \A a \in Attributions, i \in IDs : Survives(Open(None, "request", a, i).work)
  /\ \A s \in Scopes :
       LET w == s.work
           used == {w.workId, w.correlationId, s.scopeId}
       IN /\ Survives(w)
          /\ \A c \in Children(s) : Survives(c.work) /\ Inherited(c, s)
          /\ \A r \in Retries(s) :
               r.work = w /\ r.attempt = s.attempt + 1 /\ r.previousAttempt = s.scopeId
          /\ \A i \in IDs \ used :
               w.replay = None =>
                 /\ w.depth = MaxCount \/ Child(s, None, None, i) # None
                 /\ w.causation # None \/ s.attempt = MaxCount \/ Retry(s, i) # None

(* The scope of a recorded event's work, as its row tells it. *)
RecordedScope(e) ==
  [work |-> EntryFrom(entries[e]).work, scopeId |-> e, attempt |-> 1, previousAttempt |-> None]

(* However work is handed on, its lineage is kept: every descendant belongs to
   its ancestor's correlation, origin and replay and is one step deeper, a
   retry is the same work with the attempt before it, an id that is new makes
   an operation succeed, and all of it survives the envelope and the audit
   row, for every attribution; so the work of every entry on the trail can be
   continued from what its row tells. *)
LineageKept ==
  /\ ScopesKeepLineage
  /\ \A e \in DOMAIN entries : \A i \in IDs \ {e} :
       LET c == Child(RecordedScope(e), None, None, i)
       IN c # None /\ Inherited(c, RecordedScope(e))

=============================================================================
