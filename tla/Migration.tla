------------------------------ MODULE Migration ------------------------------
(***************************************************************************)
(* Database.migrate and adopt of shared/postgres/index.ts, called by every *)
(* process that starts (platform/runtime/runtime.module.ts).               *)
(*                                                                         *)
(* Processes of different releases start, fail and start again against one *)
(* database.  Each compares its own list of migrations with the ledger and *)
(* runs what is missing, in one transaction under an advisory lock.  The   *)
(* body of a migration is its checksum; the schema is the sequence of the  *)
(* bodies that were ever run to completion.                                *)
(***************************************************************************)
EXTENDS Naturals, Sequences, SequencesExt, FiniteSets

CONSTANTS
  Processes,
  Entries,          \* each process's migrations: [version, sum] in list order
  BaselineThrough,  \* legacy.baselineThrough
  Baseline,         \* the bodies equivalent to the complete legacy history
  Histories,        \* what the legacy ledger may hold when the system is met
  MaxFailures       \* bound on failures and crashes of processes

NoLock == "none"
Migrations == [version : Nat, sum : STRING]

(* The versions of a list rise from 1 and up. *)
Valid(entries) ==
  /\ \A i \in DOMAIN entries : entries[i].version > 0
  /\ \A i, j \in DOMAIN entries : i < j => entries[i].version < entries[j].version

(* test/migration-baseline.integration.spec.ts proves the schema of the legacy
   history identical to the baselines', with which every release's list
   begins. *)
ASSUME MigrationAssumption ==
  /\ MaxFailures \in Nat /\ BaselineThrough \in Nat
  /\ NoLock \notin Processes
  /\ Histories \subseteq {"none", "complete", "partial"}
  /\ Entries \in [Processes -> Seq(Migrations)]
  /\ Baseline \in Seq(STRING) \ {<<>>}
  /\ \A p \in Processes :
       Valid(Entries[p]) =>
         /\ \A i \in DOMAIN Entries[p] :
              Entries[p][i].version <= BaselineThrough <=> i <= Len(Baseline)
         /\ \A i \in DOMAIN Baseline :
              i \in DOMAIN Entries[p] /\ Entries[p][i].sum = Baseline[i]

VARIABLES
  ledger,    \* n2f_migrations as committed, ordered by version
  history,   \* signals_migrations as committed
  schema,    \* the bodies the committed schema is made of
  lock,      \* who holds pg_advisory_xact_lock(925005)
  session,   \* the server's side of each process's transaction
  status,    \* what each process is doing
  failures   \* failures so far

migrationVars == <<ledger, history, schema, lock, session, status, failures>>

Sums(rows) == [i \in DOMAIN rows |-> rows[i].sum]

(* rows: the ledger as the transaction sees it; ran: the bodies it has run;
   adopts: whether it has dropped the legacy ledger. *)
Fresh(state) == [state |-> state, rows |-> <<>>, ran |-> <<>>, adopts |-> FALSE]
NoTx == Fresh("none")

Sessions == [state : {"none", "open", "deciding"}, rows : Seq(Migrations),
             ran : Seq(STRING), adopts : BOOLEAN]

MigrationTypeOK ==
  /\ ledger \in Seq(Migrations)
  /\ history \in {"none", "complete", "partial"}
  /\ schema \in Seq(STRING)
  /\ lock \in Processes \cup {NoLock}
  /\ session \in [Processes -> Sessions]
  /\ status \in [Processes -> {"down", "waiting", "migrating", "committing", "up", "refused"}]
  /\ failures \in 0..MaxFailures

(* The schema that a legacy ledger stands for. *)
LegacySchema(h) ==
  IF h = "complete" THEN Baseline ELSE SubSeq(Baseline, 1, Len(Baseline) - 1)

MigrationInit ==
  /\ ledger = <<>>
  /\ history \in Histories
  /\ schema = IF history = "none" THEN <<>> ELSE LegacySchema(history)
  /\ lock = NoLock
  /\ session = [p \in Processes |-> NoTx]
  /\ status = [p \in Processes |-> "down"]
  /\ failures = 0

-----------------------------------------------------------------------------
(* Reading the list and the ledger.                                        *)

(* Seeded fault: the legacy ledger is dropped and nothing recorded for it. *)
BaselinesNone(entries) == <<>>

(* What adopt records for a complete legacy history: the entries up to
   BaselineThrough, which in a valid list come first. *)
Baselines(entries) ==
  SubSeq(entries, 1,
         Cardinality({i \in DOMAIN entries : entries[i].version <= BaselineThrough}))

Adopts == ledger = <<>> /\ history = "complete"

(* database.legacy_history: a ledger that does not hold the whole history. *)
PredatesBaseline == ledger = <<>> /\ history = "partial"

(* The rows the comparison starts from. *)
Rows(p) == IF Adopts THEN Baselines(Entries[p]) ELSE ledger

(* Seeded fault: the checksums are not compared. *)
DriftedByVersion(rows, entries) ==
  \/ Len(rows) > Len(entries)
  \/ \E i \in DOMAIN rows : i <= Len(entries) /\ rows[i].version # entries[i].version

(* database.migration_drift: more rows than entries, or a row that is not the
   entry at its place. *)
Drifted(rows, entries) ==
  \/ Len(rows) > Len(entries)
  \/ \E i \in DOMAIN rows : i <= Len(entries) /\ rows[i] # entries[i]

-----------------------------------------------------------------------------
(* The steps of a process.                                                 *)

Become(p, s) == status' = [status EXCEPT ![p] = s]

(* migrate is called: the list is checked before the database is touched. *)
Start(p) ==
  /\ status[p] = "down"
  /\ session[p] = NoTx
  /\ IF Valid(Entries[p])
       THEN Become(p, "waiting") /\ session' = [session EXCEPT ![p] = Fresh("open")]
       ELSE Become(p, "refused") /\ UNCHANGED session
  /\ UNCHANGED <<ledger, history, schema, lock, failures>>

LockFree(p) == lock = NoLock

(* The lock is granted, the ledger created and read, the legacy history
   adopted: nothing else touches these tables while the lock is held. *)
Check(p) ==
  /\ status[p] = "waiting"
  /\ LockFree(p)
  /\ LET rows == Rows(p)
     IN IF PredatesBaseline \/ Drifted(rows, Entries[p])
          THEN /\ Become(p, "refused")
               /\ session' = [session EXCEPT ![p] = NoTx]
               /\ UNCHANGED lock
          ELSE /\ Become(p, "migrating")
               /\ lock' = p
               /\ session' = [session EXCEPT ![p] =
                     [state |-> "open", rows |-> rows, ran |-> <<>>, adopts |-> Adopts]]
  /\ UNCHANGED <<ledger, history, schema, failures>>

Pending(p) == Len(session[p].rows) < Len(Entries[p])

(* One migration is run and recorded. *)
Apply(p) ==
  /\ status[p] = "migrating"
  /\ Pending(p)
  /\ LET next == Entries[p][Len(session[p].rows) + 1]
     IN session' = [session EXCEPT ![p].rows = Append(@, next), ![p].ran = Append(@, next.sum)]
  /\ UNCHANGED <<ledger, history, schema, lock, status, failures>>

SendCommit(p) ==
  /\ status[p] = "migrating"
  /\ ~Pending(p)
  /\ Become(p, "committing")
  /\ session' = [session EXCEPT ![p].state = "deciding"]
  /\ UNCHANGED <<ledger, history, schema, lock, failures>>

(* COMMIT is answered: the process goes on to serve. *)
Committed(p) ==
  /\ status[p] = "committing"
  /\ session[p].state = "none"
  /\ Become(p, "up")
  /\ UNCHANGED <<ledger, history, schema, lock, session, failures>>

(* A statement fails, the budget runs out (while waiting for the lock too), or
   the process dies.  It starts again later; the server finds out in its own
   time, and a COMMIT already sent to it may still take effect. *)
Fail(p) ==
  /\ status[p] \in {"waiting", "migrating", "committing", "up"}
  /\ failures < MaxFailures
  /\ failures' = failures + 1
  /\ Become(p, "down")
  /\ UNCHANGED <<ledger, history, schema, lock, session>>

-----------------------------------------------------------------------------
(* The server's steps.                                                     *)

(* Seeded fault: the lock is the session's, not the transaction's. *)
UnlockedOnCommit(p) == IF lock = p /\ session[p].state = "deciding" THEN NoLock ELSE lock

Unlocked(p) == IF lock = p THEN NoLock ELSE lock

Commit(p) ==
  /\ session[p].state = "deciding"
  /\ ledger' = session[p].rows
  /\ schema' = schema \o session[p].ran
  /\ history' = IF session[p].adopts THEN "none" ELSE history
  /\ lock' = Unlocked(p)
  /\ session' = [session EXCEPT ![p] = NoTx]
  /\ UNCHANGED <<status, failures>>

(* The connection of a process that gave up is gone: its transaction is rolled
   back and the lock with it. *)
RollBack(p) ==
  /\ session[p].state # "none"
  /\ status[p] = "down"
  /\ lock' = Unlocked(p)
  /\ session' = [session EXCEPT ![p] = NoTx]
  /\ UNCHANGED <<ledger, history, schema, status, failures>>

MigrationNext ==
  \E p \in Processes :
    \/ Start(p) \/ Check(p) \/ Apply(p) \/ SendCommit(p) \/ Committed(p) \/ Fail(p)
    \/ Commit(p) \/ RollBack(p)

MigrationSpec == MigrationInit /\ [][MigrationNext]_migrationVars

(* A process that is down is started again, its statements are answered and
   the server notices lost connections; failures are bounded by MaxFailures,
   so they end.  The lock is granted to those who wait for it. *)
MigrationFairSpec ==
  /\ MigrationSpec
  /\ \A p \in Processes :
       /\ WF_migrationVars(Start(p))
       /\ SF_migrationVars(Check(p))
       /\ WF_migrationVars(Apply(p) \/ SendCommit(p) \/ Committed(p))
       /\ WF_migrationVars(Commit(p) \/ RollBack(p))

-----------------------------------------------------------------------------
(* Properties.                                                             *)

(* The ledger tells the schema: every migration it records was run exactly
   once, in its order, and nothing else was, whatever failed in between and
   however many processes started together.  A database with a legacy ledger
   is as it was found. *)
LedgerTellsSchema ==
  IF history = "none" THEN schema = Sums(ledger)
                      ELSE ledger = <<>> /\ schema = LegacySchema(history)

(* Who holds the lock is at work or has left it to the server; everybody
   else's transaction has done nothing. *)
LockGuardsSessions ==
  \A p \in Processes :
    /\ lock = p => session[p].state # "none"
    /\ lock # p => session[p] \in {NoTx, Fresh("open")}
    /\ status[p] = "waiting" => lock # p /\ session[p].state = "open" /\ Valid(Entries[p])
    /\ status[p] = "migrating" => lock = p /\ session[p].state = "open"
    /\ status[p] = "committing" => session[p].state \in {"deciding", "none"}
    /\ status[p] \in {"up", "refused"} => session[p].state = "none"

(* The rows of the transaction that holds the lock are the first ones of its
   release's list; it found some of them and has run the others. *)
RunsOnTop ==
  \A p \in Processes :
    lock = p =>
      LET found == Len(Rows(p))
          rows == session[p].rows
      IN /\ Valid(Entries[p]) /\ history # "partial"
         /\ session[p].adopts = Adopts
         /\ IsPrefix(Rows(p), rows) /\ IsPrefix(rows, Entries[p])
         /\ session[p].ran = [i \in 1 .. Len(rows) - found |-> rows[found + i].sum]
         /\ Sums(Rows(p)) = schema
         /\ session[p].state = "deciding" => rows = Entries[p]

(* Types, the agreement of ledger and schema, and what it rests on: one
   transaction at a time continues the ledger. *)
LedgerInv == MigrationTypeOK /\ LedgerTellsSchema /\ LockGuardsSessions /\ RunsOnTop

(* A process that serves, or is about to, does so on a schema its own
   migrations made: they are the first ones of the ledger, now and after any
   later release has migrated the database under it. *)
ServesItsSchema ==
  \A p \in Processes :
    status[p] = "up" \/ (status[p] = "committing" /\ session[p].state = "none") =>
      IsPrefix(Entries[p], ledger)

(* A refusal is never one that waiting would have spared the release: its list
   is malformed, the legacy history is incomplete, or the ledger has something
   its list has not. *)
RefusedForReason ==
  \A p \in Processes :
    status[p] = "refused" =>
      \/ ~Valid(Entries[p])
      \/ history = "partial"
      \/ ~IsPrefix(ledger, Entries[p])

(* Whatever the races and failures, a release serves only on its own schema and
   is refused only for good reason. *)
DecidesRightly == ServesItsSchema /\ RefusedForReason

(* However starts and failures interleave, in the end every process serves or
   has been refused: no failed migration leaves the lock behind. *)
EveryStartDecides ==
  \A p \in Processes : <>[](status[p] \in {"up", "refused"})
=============================================================================
