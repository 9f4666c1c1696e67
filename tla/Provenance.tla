----------------------------- MODULE Provenance -----------------------------
(***************************************************************************)
(* The lineage of work: what a unit of work is, who it is attributed to,   *)
(* which correlation it belongs to and what caused it, and the operations  *)
(* of the factory that open, continue, repeat and replay it.  These are    *)
(* pure functions; the ids they are given come from the id generator.      *)
(* A field that is not set is None; an operation that refuses gives None.  *)
(***************************************************************************)
EXTENDS Naturals, FiniteSets

CONSTANTS
  IDs,         \* ids
  Names,       \* identities of actors and tenants that are well formed
  None,        \* undefined
  MaxCount     \* 4294967295, the largest depth and attempt

(* actor(): only the anonymous actor has no identity. *)
Actors ==
  {[kind |-> "anonymous", identity |-> None]}
    \cup [kind : {"user", "service", "system"}, identity : Names]

NamedActor(a) == a \in Actors /\ a.kind # "anonymous"

(* attribution(): somebody named may act for somebody else who is named. *)
Attributions ==
  {a \in [initiator : Actors \cup {None}, onBehalfOf : Actors \cup {None},
          tenant : Names \cup {None}] :
     a.onBehalfOf # None =>
       NamedActor(a.initiator) /\ NamedActor(a.onBehalfOf) /\ a.initiator # a.onBehalfOf}

References == [kind : {"scope", "work", "event"}, id : IDs]

Origins == {"request", "message", "schedule", "replay", "backfill", "startup"}

(* ReplayInfo, DraftWork (of a unit of work) and ScopeSnapshot, valid or not. *)
Runs == [runId : IDs \cup {None}, source : References]

Works ==
  [workId : IDs \cup {None}, correlationId : IDs \cup {None},
   correlationSource : {"local", "external"}, causation : References \cup {None},
   origin : Origins \cup {None}, attribution : Attributions,
   depth : Nat \cup {None}, replay : Runs \cup {None}]

Executions ==
  [work : Works, scopeId : IDs, attempt : Nat, previousAttempt : IDs \cup {None}]

(* Whatever is defined is not undefined. *)
ASSUME ProvenanceAssumption ==
  /\ None \notin IDs \cup Names /\ Names # {}
  /\ None \notin Actors \cup References \cup Runs \cup Works \cup Executions
  /\ MaxCount \in Nat \ {0}

(* An optional field, which may still be open when defaults are to come. *)
Chosen(v, defaults) == v \in IDs \/ (defaults /\ v = None)

(* A root of a local correlation has no cause; what has ancestors has one. *)
DepthValid(w) ==
  w.depth # None =>
    /\ w.depth \in 0 .. MaxCount
    /\ w.correlationSource = "local" /\ w.depth = 0 => w.causation = None
    /\ w.depth > 0 => w.causation # None

(* Work is not its own cause and does not replay itself. *)
NotItself(ref, w) ==
  ref # None => ref \in References /\ ~(ref.kind = "work" /\ ref.id = w.workId)

ReplayValid(w, defaults) ==
  /\ (w.replay # None) <=> (w.origin = "replay")
  /\ w.replay # None =>
       NotItself(w.replay.source, w) /\ Chosen(w.replay.runId, defaults)

ValidateWork(w, defaults) ==
  /\ Chosen(w.workId, defaults) /\ Chosen(w.correlationId, defaults)
  /\ w.correlationSource \in {"local", "external"}
  /\ w.attribution \in Attributions
  /\ w.origin \in Origins \cup {None}
  /\ ReplayValid(w, defaults)
  /\ NotItself(w.causation, w)
  /\ DepthValid(w)

(* restoreScope: an attempt's predecessor and a work's cause are other scopes. *)
RestoreScope(s) ==
  /\ s.scopeId \in IDs
  /\ ValidateWork(s.work, FALSE)
  /\ s.attempt \in 1 .. MaxCount
  /\ s.previousAttempt # None =>
       s.previousAttempt \in IDs \ {s.scopeId} /\ s.attempt # 1
  /\ s.work.causation # [kind |-> "scope", id |-> s.scopeId]

-----------------------------------------------------------------------------
(* The factory.  The operations take the id that the generator mints.      *)

OrElse(v, id) == IF v = None THEN id ELSE v

(* The minted id names everything not named yet. *)
Named(work, id) ==
  [work EXCEPT !.workId = OrElse(work.workId, id),
     !.correlationId = OrElse(work.correlationId, id),
     !.replay = IF work.replay = None THEN None
                ELSE [work.replay EXCEPT !.runId = OrElse(work.replay.runId, id)]]

(* #emit: the minted id also names the scope. *)
Emit(work, attempt, previousAttempt, forbidden, id) ==
  LET scope == [work |-> Named(work, id), scopeId |-> id, attempt |-> attempt,
                previousAttempt |-> previousAttempt]
  IN IF attempt \in 1 .. MaxCount /\ ValidateWork(work, TRUE)
          /\ id \notin forbidden /\ RestoreScope(scope)
     THEN scope ELSE None

RootWork(workId, origin, who) ==
  [workId |-> workId, correlationId |-> None, correlationSource |-> "local",
   causation |-> None, origin |-> origin, attribution |-> who, depth |-> 0,
   replay |-> None]

Open(workId, origin, who, id) ==
  IF origin = "replay" THEN None
  ELSE Emit(RootWork(workId, origin, who), 1, None, {}, id)

(* Seeded fault: a child starts a correlation of its own. *)
ChildWorkUncorrelated(parent, workId, cause) ==
  [parent.work EXCEPT !.workId = workId, !.correlationId = None,
     !.depth = IF @ = None THEN None ELSE @ + 1,
     !.causation = OrElse(cause, [kind |-> "scope", id |-> parent.scopeId])]

(* A child inherits its parent's correlation, origin, attribution and replay,
   and is caused by the parent's scope unless told otherwise. *)
ChildWork(parent, workId, cause) ==
  [parent.work EXCEPT !.workId = workId,
     !.depth = IF @ = None THEN None ELSE @ + 1,
     !.causation = OrElse(cause, [kind |-> "scope", id |-> parent.scopeId])]

Child(parent, workId, cause, id) ==
  IF workId = parent.work.workId \/ parent.work.depth = MaxCount THEN None
  ELSE Emit(ChildWork(parent, workId, cause), 1, None,
            {parent.scopeId} \cup (IF workId = None THEN {parent.work.workId} ELSE {}), id)

(* prepare hands a child's work over, execute runs it elsewhere. *)
Prepare(parent, workId, cause) ==
  LET work == ChildWork(parent, workId, cause)
  IN IF workId \in IDs \ {parent.work.workId} /\ parent.work.depth # MaxCount
          /\ ValidateWork(work, FALSE)
     THEN work ELSE None

Execute(work, attempt, id) == Emit(work, attempt, None, {}, id)

Retry(previous, id) ==
  IF previous.attempt = MaxCount THEN None
  ELSE Emit(previous.work, previous.attempt + 1, previous.scopeId, {previous.scopeId}, id)

Replay(source, runId, workId, who, id) ==
  IF source.kind = "work" /\ source.id = workId THEN None
  ELSE Emit([RootWork(workId, "replay", who) EXCEPT
               !.replay = [runId |-> runId, source |-> source]],
            1, None, IF source.kind = "scope" THEN {source.id} ELSE {}, id)

(* inspectIncoming and enter: a correlation that parses is continued, with
   its cause; without one a cause is dropped and the work is a root. *)
Enter(workId, origin, who, correlation, cause, id) ==
  IF origin = "replay" THEN None
  ELSE Emit(IF correlation = None THEN RootWork(workId, origin, who)
            ELSE [RootWork(workId, origin, who) EXCEPT
                    !.correlationId = correlation, !.correlationSource = "external",
                    !.causation = cause, !.origin = None, !.depth = None],
            1, None, {}, id)

=============================================================================
