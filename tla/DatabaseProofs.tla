--------------------------- MODULE DatabaseProofs ---------------------------
(***************************************************************************)
(* Proofs about the two halves of shared/postgres/index.ts.                *)
(*                                                                         *)
(* Database.transaction tells its caller the truth and keeps the pool      *)
(* clean, for any number of calls and connections (module Database).       *)
(*                                                                         *)
(* Database.migrate keeps ledger and schema in step and decides rightly    *)
(* who may serve, for any number of processes of any releases (module      *)
(* Migration).                                                             *)
(***************************************************************************)
EXTENDS Database, Migration, FiniteSetTheorems, TLAPS

LEMMA InitIInv == Init => IInv
  BY DEF Init, IInv, TypeOK, CallInv, Truthful, Unsettled

(* A step of one call keeps the invariant of every call: the others are not
   touched. *)
LEMMA NextIInv == IInv /\ [Next]_vars => IInv'
  <1> SUFFICES ASSUME IInv, [Next]_vars PROVE IInv'
    OBVIOUS
  <1> USE DEF IInv, TypeOK, CallInv, Truthful, Unsettled
  <1>1. ASSUME NEW c \in Calls, Call(c) PROVE IInv'
    BY <1>1 DEF Call
  <1>2. ASSUME NEW c \in Calls, CallRefused(c) PROVE IInv'
    BY <1>2 DEF CallRefused, Return
  <1>3. ASSUME NEW c \in Calls, Connect(c) PROVE IInv'
    BY <1>3 DEF Connect, Return
  <1>4. ASSUME NEW c \in Calls, ConnectFails(c) PROVE IInv'
    BY <1>4 DEF ConnectFails, Return
  <1>5. ASSUME NEW c \in Calls, Begin(c) PROVE IInv'
    BY <1>5 DEF Begin
  <1>6. ASSUME NEW c \in Calls, NEW ok \in BOOLEAN, BodyReturns(c, ok) PROVE IInv'
    <2>1. CASE ok
      BY <1>6, <2>1 DEF BodyReturns
    <2>2. CASE ~ok
      BY <1>6, <2>2 DEF BodyReturns
    <2> QED
      BY <2>1, <2>2
  <1>7. ASSUME NEW c \in Calls, Throws(c) PROVE IInv'
    BY <1>7 DEF Throws, Return
  <1>8. ASSUME NEW c \in Calls, RollbackAnswered(c) PROVE IInv'
    BY <1>8 DEF RollbackAnswered, Return
  <1>9. ASSUME NEW c \in Calls, ServerCommits(c) PROVE IInv'
    BY <1>9 DEF ServerCommits
  <1>10. ASSUME NEW c \in Calls, CommitAnswered(c) PROVE IInv'
    BY <1>10 DEF CommitAnswered, Return
  <1>11. ASSUME NEW c \in Calls, CommitBreaks(c) PROVE IInv'
    BY <1>11 DEF CommitBreaks, Return
  <1>12. ASSUME NEW c \in Calls, ServerDrops(c) PROVE IInv'
    BY <1>12 DEF ServerDrops
  <1>13. ASSUME NEW c \in Calls, TimesOut(c) PROVE IInv'
    BY <1>13 DEF TimesOut, Return, Stoppable, StopRelease, StopVerdict
  <1>14. ASSUME NEW c \in Calls, Abort(c) PROVE IInv'
    BY <1>14 DEF Abort, Stoppable, StopRelease, StopVerdict
  <1>15. ASSUME NEW c \in Calls, NextCall(c) PROVE IInv'
    BY <1>15 DEF NextCall
  <1>16. CASE Close
    BY <1>16 DEF Close
  <1>17. CASE PoolEnded
    BY <1>17 DEF PoolEnded
  <1>18. CASE UNCHANGED vars
    BY <1>18 DEF vars
  <1> QED
    BY <1>1, <1>2, <1>3, <1>4, <1>5, <1>6, <1>7, <1>8, <1>9, <1>10, <1>11, <1>12,
       <1>13, <1>14, <1>15, <1>16, <1>17, <1>18 DEF Next

(* Every call is at a point where client, server and result fit together. *)
THEOREM DatabaseInvariant == Spec => []IInv
  BY InitIInv, NextIInv, PTL DEF Spec

(* ok means committed; a failure, a cancellation or a timeout means that the
   transaction has not committed. *)
THEOREM DatabaseVerdictIsTrue == Spec => []VerdictIsTrue
  <1>1. IInv => VerdictIsTrue
    BY DEF IInv, TypeOK, CallInv, Truthful, VerdictIsTrue
  <1> QED
    BY <1>1, DatabaseInvariant, PTL

(* A pooled client carries no open transaction. *)
THEOREM DatabasePoolIsClean == Spec => []PoolIsClean
  <1>1. IInv => PoolIsClean
    BY DEF IInv, TypeOK, CallInv, PoolIsClean
  <1> QED
    BY <1>1, DatabaseInvariant, PTL

-----------------------------------------------------------------------------
(* Migration: prefixes of lists.                                           *)

(* A prefix has the same elements as far as it goes. *)
LEMMA PrefixPointwise ==
  ASSUME NEW S, NEW s \in Seq(S), NEW t \in Seq(S)
  PROVE  IsPrefix(s, t) <=> Len(s) <= Len(t) /\ \A i \in 1 .. Len(s) : s[i] = t[i]
  <1>1. SubSeq(s, 1, Len(s)) = s
    OBVIOUS
  <1>2. ASSUME Len(s) <= Len(t)
        PROVE  /\ Len(SubSeq(t, 1, Len(s))) = Len(s)
               /\ \A i \in 1 .. Len(s) : SubSeq(t, 1, Len(s))[i] = t[i]
               /\ SubSeq(t, 1, Len(s)) \in Seq(S)
    BY <1>2
  <1>3. ASSUME Len(s) <= Len(t), \A i \in 1 .. Len(s) : s[i] = t[i]
        PROVE  s = SubSeq(t, 1, Len(s))
    BY <1>2, <1>3
  <1> QED
    BY <1>1, <1>2, <1>3 DEF IsPrefix

(* Nothing is a prefix of everything, *)
LEMMA EmptyPrefix ==
  ASSUME NEW S, NEW t \in Seq(S)
  PROVE  IsPrefix(<<>>, t)
  <1>1. <<>> \in Seq(S) /\ Len(<<>>) = 0 /\ Len(t) \in Nat
    OBVIOUS
  <1>2. 1 .. Len(<<>>) = {}
    BY <1>1
  <1>3. Len(<<>>) <= Len(t) /\ \A i \in 1 .. Len(<<>>) : <<>>[i] = t[i]
    BY <1>1, <1>2
  <1> QED
    BY ONLY <1>1, <1>3, t \in Seq(S), PrefixPointwise

(* being a prefix is transitive, *)
LEMMA PrefixTransitive ==
  ASSUME NEW S, NEW s \in Seq(S), NEW t \in Seq(S), NEW u \in Seq(S),
         IsPrefix(s, t), IsPrefix(t, u)
  PROVE  IsPrefix(s, u)
  <1>1. /\ Len(s) <= Len(t) /\ \A i \in 1 .. Len(s) : s[i] = t[i]
        /\ Len(t) <= Len(u) /\ \A i \in 1 .. Len(t) : t[i] = u[i]
    BY PrefixPointwise
  <1>2. Len(s) <= Len(u) /\ \A i \in 1 .. Len(s) : s[i] = u[i]
    BY <1>1
  <1> QED
    BY <1>2, PrefixPointwise

(* and a prefix that is not shorter is the whole. *)
LEMMA WholePrefix ==
  ASSUME NEW S, NEW s \in Seq(S), NEW t \in Seq(S), IsPrefix(s, t), Len(t) <= Len(s)
  PROVE  s = t
  <1>1. Len(s) = Len(t) /\ \A i \in 1 .. Len(s) : s[i] = t[i]
    BY PrefixPointwise
  <1> QED
    BY <1>1

(* What adopt records are the first entries of a valid list, and they stand
   for the schema of the complete legacy history. *)
LEMMA BaselinesFirst ==
  ASSUME NEW p \in Processes, Valid(Entries[p])
  PROVE  /\ Baselines(Entries[p]) \in Seq(Migrations)
         /\ IsPrefix(Baselines(Entries[p]), Entries[p])
         /\ Sums(Baselines(Entries[p])) = Baseline
  <1> DEFINE E == Entries[p]
             n == Len(Baseline)
             low == {i \in DOMAIN E : E[i].version <= BaselineThrough}
  <1>1. E \in Seq(Migrations) /\ Baseline \in Seq(STRING) /\ n \in Nat
    BY MigrationAssumption
  <1>2. /\ \A i \in DOMAIN E : E[i].version <= BaselineThrough <=> i <= n
        /\ \A i \in DOMAIN Baseline : i \in DOMAIN E /\ E[i].sum = Baseline[i]
    BY MigrationAssumption
  <1>3. low = 1 .. n
    BY <1>1, <1>2
  <1>4. Cardinality(1 .. n) = n
    <2>1. 1 \in Int /\ n \in Int
      BY <1>1
    <2> HIDE DEF n
    <2>2. Cardinality(1 .. n) = IF 1 > n THEN 0 ELSE n - 1 + 1
      BY <2>1, FS_Interval
    <2> QED
      BY <1>1, <2>2
  <1>5. Baselines(E) = SubSeq(E, 1, n)
    BY <1>3, <1>4 DEF Baselines
  <1>6. n <= Len(E)
    BY <1>1, <1>2
  <1> HIDE DEF E, n
  <1>7. /\ SubSeq(E, 1, n) \in Seq(Migrations)
        /\ Len(SubSeq(E, 1, n)) = n
        /\ \A i \in 1 .. n : SubSeq(E, 1, n)[i] = E[i]
    BY <1>1, <1>6
  <1>8. IsPrefix(SubSeq(E, 1, n), E)
    BY <1>1, <1>6, <1>7, PrefixPointwise
  <1>9. Sums(SubSeq(E, 1, n)) = Baseline
    <2>1. DOMAIN SubSeq(E, 1, n) = DOMAIN Baseline /\ DOMAIN Baseline = 1 .. n
      BY <1>1, <1>7 DEF n
    <2> QED
      BY <1>1, <1>2, <1>7, <2>1 DEF Sums
  <1> QED
    BY <1>5, <1>7, <1>8, <1>9 DEF E

(* The inductive invariant: one transaction at a time continues the ledger,
   and decisions are as the ledger says. *)
MigrationInv == LedgerInv /\ DecidesRightly

(* Nobody's rows change while the ledger and the legacy history stay. *)
LEMMA RowsUnchanged ==
  ASSUME UNCHANGED <<ledger, history, schema>>, LedgerTellsSchema
  PROVE  /\ LedgerTellsSchema'
         /\ Adopts' = Adopts
         /\ \A p \in Processes : Rows(p)' = Rows(p)
  BY DEF LedgerTellsSchema, Adopts, Rows, Sums, LegacySchema, Baselines

(* A start, a failure or an answer leaves the lock and what its holder has
   done alone. *)
LEMMA HolderUnchanged ==
  ASSUME LedgerInv, UNCHANGED <<ledger, history, schema>>,
         \A p \in Processes : lock' = p => lock = p /\ session'[p] = session[p]
  PROVE  LedgerTellsSchema' /\ RunsOnTop'
  <1>1. /\ LedgerTellsSchema'
        /\ Adopts' = Adopts
        /\ \A p \in Processes : Rows(p)' = Rows(p)
    BY RowsUnchanged DEF LedgerInv
  <1> SUFFICES ASSUME NEW p \in Processes, lock' = p
               PROVE  LET found == Len(Rows(p)')
                          rows == session'[p].rows
                      IN /\ Valid(Entries[p]) /\ history' # "partial"
                         /\ session'[p].adopts = Adopts'
                         /\ IsPrefix(Rows(p)', rows) /\ IsPrefix(rows, Entries[p])
                         /\ session'[p].ran =
                              [i \in 1 .. Len(rows) - found |-> rows[found + i].sum]
                         /\ Sums(Rows(p)') = schema'
                         /\ session'[p].state = "deciding" => rows = Entries[p]
    BY <1>1 DEF RunsOnTop, Valid, Sums
  <1>2. lock = p /\ session'[p] = session[p]
    OBVIOUS
  <1> QED
    BY <1>1, <1>2 DEF LedgerInv, RunsOnTop

(* A start. *)
LEMMA StartKeeps ==
  ASSUME MigrationInv, NEW p \in Processes, Start(p)
  PROVE  MigrationInv'
  <1> USE MigrationAssumption DEF MigrationInv, LedgerInv, MigrationTypeOK
  <1>1. lock # p
    BY DEF Start, LockGuardsSessions, NoTx, Fresh
  <1> DEFINE open == Fresh("open")
  <1>0. /\ open \in Sessions
        /\ open.state = "open" /\ session[p].state = "none"
    <2>1. open = [state |-> "open", rows |-> <<>>, ran |-> <<>>, adopts |-> FALSE]
      BY DEF Fresh
    <2>2. session[p].state = "none"
      BY DEF NoTx, Fresh, Start
    <2>3. <<>> \in Seq(Migrations) /\ <<>> \in Seq(STRING)
      OBVIOUS
    <2> HIDE DEF open
    <2> QED
      BY ONLY <2>1, <2>2, <2>3 DEF Sessions
  <1>2. ASSUME Valid(Entries[p]) PROVE MigrationTypeOK' /\ LockGuardsSessions'
    <2>1. session' = [session EXCEPT ![p] = open] /\ status' = [status EXCEPT ![p] = "waiting"]
      BY <1>2 DEF Start, Become
    <2> HIDE DEF open
    <2>2. MigrationTypeOK'
      BY <1>0, <2>1 DEF Start
    <2>3. LockGuardsSessions'
      <3> SUFFICES ASSUME NEW q \in Processes
                   PROVE  /\ lock = q => session'[q].state # "none"
                          /\ lock # q => session'[q] \in {NoTx, open}
                          /\ status'[q] = "waiting" =>
                               lock # q /\ session'[q].state = "open" /\ Valid(Entries[q])
                          /\ status'[q] = "migrating" => lock = q /\ session'[q].state = "open"
                          /\ status'[q] = "committing" =>
                               session'[q].state \in {"deciding", "none"}
                          /\ status'[q] \in {"up", "refused"} => session'[q].state = "none"
        BY DEF Start, LockGuardsSessions, open, Valid, NoTx, Fresh
      <3>1. CASE q = p
        BY <1>0, <1>1, <1>2, <2>1, <3>1
      <3>2. CASE q # p
        BY <2>1, <3>2 DEF LockGuardsSessions, open
      <3> QED
        BY <3>1, <3>2
    <2> QED
      BY <2>2, <2>3
  <1>3. ASSUME ~Valid(Entries[p]) PROVE MigrationTypeOK' /\ LockGuardsSessions'
    <2>1. UNCHANGED <<session, lock, ledger, history, schema, failures>>
      BY <1>3 DEF Start
    <2>2. status' = [status EXCEPT ![p] = "refused"]
      BY <1>3 DEF Start, Become
    <2>3. MigrationTypeOK'
      BY <2>1, <2>2
    <2>4. LockGuardsSessions'
      BY <1>0, <2>1, <2>2 DEF LockGuardsSessions, Valid
    <2> QED
      BY <2>3, <2>4
  <1>4. LedgerTellsSchema' /\ RunsOnTop'
    BY <1>1, HolderUnchanged DEF Start
  <1>5. DecidesRightly'
    BY DEF Start, Become, DecidesRightly, ServesItsSchema, RefusedForReason, Valid
  <1> QED
    BY <1>2, <1>3, <1>4, <1>5 DEF MigrationTypeOK, LedgerInv, MigrationInv

(* A failure. *)
LEMMA FailKeeps ==
  ASSUME MigrationInv, NEW p \in Processes, Fail(p)
  PROVE  MigrationInv'
  <1> USE MigrationAssumption DEF MigrationInv, LedgerInv, MigrationTypeOK
  <1>1. MigrationTypeOK'
    BY DEF Fail, Become
  <1>2. LockGuardsSessions'
    BY DEF Fail, Become, LockGuardsSessions, Valid
  <1>3. LedgerTellsSchema' /\ RunsOnTop'
    BY HolderUnchanged DEF Fail
  <1>4. DecidesRightly'
    BY DEF Fail, Become, DecidesRightly, ServesItsSchema, RefusedForReason, Valid
  <1> QED
    BY <1>1, <1>2, <1>3, <1>4

(* The answer to a COMMIT. *)
LEMMA CommittedKeeps ==
  ASSUME MigrationInv, NEW p \in Processes, Committed(p)
  PROVE  MigrationInv'
  <1> USE MigrationAssumption DEF MigrationInv, LedgerInv, MigrationTypeOK
  <1>1. MigrationTypeOK'
    BY DEF Committed, Become
  <1>2. LockGuardsSessions'
    BY DEF Committed, Become, LockGuardsSessions, Valid
  <1>3. LedgerTellsSchema' /\ RunsOnTop'
    BY HolderUnchanged DEF Committed
  <1>4. DecidesRightly'
    BY DEF Committed, Become, DecidesRightly, ServesItsSchema, RefusedForReason, Valid
  <1> QED
    BY <1>1, <1>2, <1>3, <1>4

(* A rollback. *)
LEMMA RollBackKeeps ==
  ASSUME MigrationInv, NEW p \in Processes, RollBack(p)
  PROVE  MigrationInv'
  <1> USE MigrationAssumption DEF MigrationInv, LedgerInv, MigrationTypeOK
  <1>1. lock' # p
    BY DEF RollBack, Unlocked
  <1>2. MigrationTypeOK'
    BY DEF RollBack, Unlocked, NoTx, Fresh, Sessions
  <1>3. LockGuardsSessions'
    BY DEF RollBack, Unlocked, LockGuardsSessions, NoTx, Fresh, Valid
  <1>4. \A q \in Processes : lock' = q => lock = q /\ session'[q] = session[q]
    BY <1>1 DEF RollBack, Unlocked
  <1>5. LedgerTellsSchema' /\ RunsOnTop'
    BY <1>4, HolderUnchanged DEF RollBack
  <1>6. DecidesRightly'
    BY DEF RollBack, DecidesRightly, ServesItsSchema, RefusedForReason, Valid
  <1> QED
    BY <1>2, <1>3, <1>5, <1>6

(* The rows a check starts from tell the schema. *)
LEMMA RowsTellSchema ==
  ASSUME LedgerInv, NEW p \in Processes, Valid(Entries[p]), history # "partial"
  PROVE  Rows(p) \in Seq(Migrations) /\ Sums(Rows(p)) = schema
  <1> USE DEF LedgerInv, MigrationTypeOK
  <1>1. CASE Adopts
    <2>1. schema = Baseline /\ Rows(p) = Baselines(Entries[p])
      BY <1>1 DEF Adopts, Rows, LedgerTellsSchema, LegacySchema
    <2> QED
      BY <2>1, BaselinesFirst
  <1>2. CASE ~Adopts
    <2>1. history = "none" /\ Rows(p) = ledger
      BY <1>2 DEF Adopts, Rows, LedgerTellsSchema
    <2> QED
      BY <2>1 DEF LedgerTellsSchema
  <1> QED
    BY <1>1, <1>2

(* A list that is not drifted continues the rows. *)
LEMMA NotDrifted ==
  ASSUME NEW rows \in Seq(Migrations), NEW entries \in Seq(Migrations)
  PROVE  Drifted(rows, entries) <=> ~IsPrefix(rows, entries)
  BY PrefixPointwise DEF Drifted

(* A check refuses. *)
LEMMA CheckRefuses ==
  ASSUME MigrationInv, NEW p \in Processes, Check(p),
         PredatesBaseline \/ Drifted(Rows(p), Entries[p])
  PROVE  MigrationInv'
  <1> USE MigrationAssumption DEF MigrationInv, LedgerInv, MigrationTypeOK
  <1>1. /\ Become(p, "refused")
        /\ session' = [session EXCEPT ![p] = NoTx]
        /\ UNCHANGED <<lock, ledger, history, schema, failures>>
        /\ lock = NoLock /\ status[p] = "waiting" /\ Valid(Entries[p])
    BY DEF Check, LockFree, LockGuardsSessions
  <1>2. NoTx \in Sessions
        /\ NoTx.state = "none"
    BY DEF NoTx, Fresh, Sessions
  <1>3. MigrationTypeOK'
    BY <1>1, <1>2 DEF Become
  <1>4. LockGuardsSessions'
    BY <1>1, <1>2 DEF Become, LockGuardsSessions, Valid
  <1>5. LedgerTellsSchema' /\ RunsOnTop'
    BY <1>1, HolderUnchanged
  <1>6. history = "partial" \/ ~IsPrefix(ledger, Entries[p])
    <2>1. CASE PredatesBaseline
      BY <2>1 DEF PredatesBaseline
    <2>2. CASE Adopts /\ ~PredatesBaseline
      <3>1. ~Drifted(Baselines(Entries[p]), Entries[p])
        BY <1>1, BaselinesFirst, NotDrifted
      <3> QED
        BY <2>2, <3>1 DEF Rows
    <2>3. CASE ~Adopts /\ ~PredatesBaseline
      BY <2>3, NotDrifted DEF Rows
    <2> QED
      BY <2>1, <2>2, <2>3
  <1>7. DecidesRightly'
    <2>1. ServesItsSchema'
      BY <1>1 DEF Become, DecidesRightly, ServesItsSchema
    <2>2. RefusedForReason'
      BY <1>1, <1>6 DEF Become, DecidesRightly, RefusedForReason, Valid
    <2> QED
      BY <2>1, <2>2 DEF DecidesRightly
  <1> QED
    BY <1>3, <1>4, <1>5, <1>7

(* A check lets a list pass. *)
LEMMA CheckPasses ==
  ASSUME MigrationInv, NEW p \in Processes, Check(p),
         ~(PredatesBaseline \/ Drifted(Rows(p), Entries[p]))
  PROVE  MigrationInv'
  <1> USE MigrationAssumption DEF MigrationInv, LedgerInv, MigrationTypeOK
  <1>1. /\ Become(p, "migrating")
        /\ session' = [session EXCEPT ![p] =
             [state |-> "open", rows |-> Rows(p), ran |-> <<>>, adopts |-> Adopts]]
        /\ UNCHANGED <<ledger, history, schema, failures>>
        /\ lock = NoLock /\ lock' = p /\ status[p] = "waiting"
    BY DEF Check, LockFree
  <1>2. session[p] = Fresh("open") /\ Valid(Entries[p])
    BY <1>1 DEF LockGuardsSessions, NoTx, Fresh
  <1>3. history # "partial"
    BY DEF PredatesBaseline, LedgerTellsSchema
  <1>4. Rows(p) \in Seq(Migrations) /\ Sums(Rows(p)) = schema
    BY <1>2, <1>3, RowsTellSchema
  <1>5. IsPrefix(Rows(p), Entries[p])
    BY <1>4, NotDrifted
  <1>6. /\ session'[p].state = "open" /\ session'[p].rows = Rows(p)
        /\ session'[p].ran = <<>> /\ session'[p].adopts = Adopts
        /\ session'[p] \in Sessions
        /\ \A q \in Processes \ {p} : session'[q] = session[q]
    <2>1. /\ session'[p] =
               [state |-> "open", rows |-> Rows(p), ran |-> <<>>, adopts |-> Adopts]
          /\ \A q \in Processes \ {p} : session'[q] = session[q]
      BY <1>1
    <2>2. Adopts \in BOOLEAN /\ <<>> \in Seq(STRING)
      BY DEF Adopts
    <2>3. /\ session'[p].state = "open" /\ session'[p].rows = Rows(p)
          /\ session'[p].ran = <<>> /\ session'[p].adopts = Adopts
      BY ONLY <2>1
    <2>4. session'[p] \in Sessions
      BY ONLY <1>4, <2>1, <2>2 DEF Sessions
    <2> QED
      BY ONLY <2>1, <2>3, <2>4
  <1>7. MigrationTypeOK'
    BY <1>1, <1>6 DEF Become
  <1>8. LockGuardsSessions'
    BY <1>1, <1>6 DEF Become, LockGuardsSessions, Valid
  <1>9. /\ LedgerTellsSchema' /\ Adopts' = Adopts
        /\ \A q \in Processes : Rows(q)' = Rows(q)
    BY <1>1, RowsUnchanged
  <1>10. RunsOnTop'
    <2>1. IsPrefix(Rows(p), Rows(p))
      BY <1>4, PrefixPointwise
    <2>2. <<>> = [i \in 1 .. Len(Rows(p)) - Len(Rows(p)) |-> Rows(p)[Len(Rows(p)) + i].sum]
      <3>1. 1 .. Len(Rows(p)) - Len(Rows(p)) = {}
        BY <1>4
      <3> QED
        BY <3>1
    <2> SUFFICES /\ Valid(Entries[p]) /\ history' # "partial"
                 /\ session'[p].adopts = Adopts'
                 /\ IsPrefix(Rows(p)', session'[p].rows)
                 /\ IsPrefix(session'[p].rows, Entries[p])
                 /\ session'[p].ran =
                      [i \in 1 .. Len(session'[p].rows) - Len(Rows(p)') |->
                         session'[p].rows[Len(Rows(p)') + i].sum]
                 /\ Sums(Rows(p)') = schema'
                 /\ session'[p].state = "deciding" => session'[p].rows = Entries[p]
      BY <1>1 DEF RunsOnTop, Valid, Sums
    <2> QED
      BY <1>1, <1>2, <1>3, <1>4, <1>5, <1>6, <1>9, <2>1, <2>2
  <1>11. DecidesRightly'
    BY <1>1, <1>6 DEF Become, DecidesRightly, ServesItsSchema, RefusedForReason, Valid
  <1> QED
    BY <1>7, <1>8, <1>9, <1>10, <1>11

(* What the holder of the lock has found and done. *)
LEMMA HolderRuns ==
  ASSUME LedgerInv, NEW p \in Processes, lock = p
  PROVE  /\ Valid(Entries[p]) /\ history # "partial"
         /\ session[p] \in Sessions
         /\ session[p].rows \in Seq(Migrations) /\ Entries[p] \in Seq(Migrations)
         /\ Rows(p) \in Seq(Migrations)
         /\ session[p].ran \in Seq(STRING) /\ session[p].adopts \in BOOLEAN
         /\ session[p].adopts = Adopts
         /\ IsPrefix(Rows(p), session[p].rows) /\ IsPrefix(session[p].rows, Entries[p])
         /\ session[p].ran = [i \in 1 .. Len(session[p].rows) - Len(Rows(p)) |->
                                session[p].rows[Len(Rows(p)) + i].sum]
         /\ Sums(Rows(p)) = schema
         /\ session[p].state = "deciding" => session[p].rows = Entries[p]
  <1>1. session[p] \in Sessions /\ Entries[p] \in Seq(Migrations)
    BY MigrationAssumption DEF LedgerInv, MigrationTypeOK
  <1>2. /\ Valid(Entries[p]) /\ history # "partial"
        /\ session[p].adopts = Adopts
        /\ IsPrefix(Rows(p), session[p].rows) /\ IsPrefix(session[p].rows, Entries[p])
        /\ session[p].ran = [i \in 1 .. Len(session[p].rows) - Len(Rows(p)) |->
                               session[p].rows[Len(Rows(p)) + i].sum]
        /\ Sums(Rows(p)) = schema
        /\ session[p].state = "deciding" => session[p].rows = Entries[p]
    BY DEF LedgerInv, RunsOnTop
  <1>3. Rows(p) \in Seq(Migrations)
    BY <1>2, RowsTellSchema
  <1>4. /\ session[p].rows \in Seq(Migrations)
        /\ session[p].ran \in Seq(STRING) /\ session[p].adopts \in BOOLEAN
    BY <1>1 DEF Sessions
  <1> QED
    BY ONLY <1>1, <1>2, <1>3, <1>4

(* The same of the next state is what is to be shown for a step of the
   holder. *)
LEMMA HolderStep ==
  ASSUME NEW p \in Processes, lock' = p, Adopts' = Adopts, Rows(p)' = Rows(p),
         Sums(Rows(p)) = schema', Valid(Entries[p]), history' # "partial",
         session'[p].adopts = Adopts,
         IsPrefix(Rows(p), session'[p].rows), IsPrefix(session'[p].rows, Entries[p]),
         session'[p].ran = [i \in 1 .. Len(session'[p].rows) - Len(Rows(p)) |->
                              session'[p].rows[Len(Rows(p)) + i].sum],
         session'[p].state = "deciding" => session'[p].rows = Entries[p]
  PROVE  RunsOnTop'
  BY DEF RunsOnTop, Valid, Sums

(* A step of the holder that changes only its own session and status. *)
LEMMA HolderLocal ==
  ASSUME MigrationInv, NEW p \in Processes, lock = p,
         UNCHANGED <<ledger, history, schema, lock, failures>>,
         NEW x, x \in Sessions, session' = [session EXCEPT ![p] = x],
         NEW s \in {"migrating", "committing"}, status' = [status EXCEPT ![p] = s],
         s = "migrating" => x.state = "open",
         s = "committing" => x.state = "deciding"
  PROVE  MigrationTypeOK' /\ LockGuardsSessions' /\ DecidesRightly'
  <1>1. /\ session \in [Processes -> Sessions]
        /\ status \in [Processes -> {"down", "waiting", "migrating", "committing", "up",
                                     "refused"}]
    BY DEF MigrationInv, LedgerInv, MigrationTypeOK
  <1>2. session' \in [Processes -> Sessions] /\ session'[p] = x
    BY <1>1
  <1>3. \A q \in Processes \ {p} : session'[q] = session[q] /\ status'[q] = status[q]
    BY <1>1
  <1>4. status'[p] = s
    BY <1>1
  <1>5. MigrationTypeOK'
    BY <1>1, <1>2 DEF MigrationInv, LedgerInv, MigrationTypeOK
  <1>6. LockGuardsSessions'
    BY <1>2, <1>3, <1>4 DEF MigrationInv, LedgerInv, LockGuardsSessions, Valid
  <1>7. DecidesRightly'
    BY <1>2, <1>3, <1>4 DEF MigrationInv, DecidesRightly, ServesItsSchema, RefusedForReason,
       Valid
  <1> QED
    BY <1>5, <1>6, <1>7

(* A migration is run. *)
LEMMA ApplyKeeps ==
  ASSUME MigrationInv, NEW p \in Processes, Apply(p)
  PROVE  MigrationInv'
  <1> DEFINE E == Entries[p]
             rows == session[p].rows
             ran == session[p].ran
             found == Len(Rows(p))
             next == E[Len(rows) + 1]
             x == [session[p] EXCEPT !.rows = Append(rows, next),
                                     !.ran = Append(ran, next.sum)]
  <1>0. LedgerInv /\ LedgerTellsSchema
    BY DEF MigrationInv, LedgerInv
  <1>1. /\ lock = p /\ session[p].state = "open" /\ status[p] = "migrating"
        /\ UNCHANGED <<ledger, history, schema, lock, status, failures>>
        /\ Len(rows) < Len(E)
    BY <1>0 DEF Apply, Pending, LedgerInv, LockGuardsSessions
  <1>2. /\ session[p] \in Sessions
        /\ rows \in Seq(Migrations) /\ E \in Seq(Migrations)
        /\ Rows(p) \in Seq(Migrations) /\ ran \in Seq(STRING)
    BY <1>0, <1>1, HolderRuns
  <1>3. /\ Valid(E) /\ history # "partial"
        /\ session[p].adopts = Adopts
        /\ IsPrefix(Rows(p), rows) /\ IsPrefix(rows, E)
        /\ ran = [i \in 1 .. Len(rows) - found |-> rows[found + i].sum]
        /\ Sums(Rows(p)) = schema
    BY <1>0, <1>1, HolderRuns
  <1>4. session' = [session EXCEPT ![p] = x]
    BY DEF Apply
  <1>5. status' = [status EXCEPT ![p] = "migrating"]
    BY <1>1 DEF MigrationInv, LedgerInv, MigrationTypeOK
  <1>6. next \in Migrations
    BY <1>1, <1>2
  <1>7. next.sum \in STRING
    BY <1>6 DEF Migrations
  <1> HIDE DEF E, rows, ran, found, next
  <1>8. Append(rows, next) \in Seq(Migrations) /\ Append(ran, next.sum) \in Seq(STRING)
    BY <1>2, <1>6, <1>7
  <1>9. /\ x.state = "open" /\ x.adopts = session[p].adopts
        /\ x.rows = Append(rows, next) /\ x.ran = Append(ran, next.sum)
        /\ x \in Sessions
    BY <1>1, <1>2, <1>8 DEF Sessions
  <1> HIDE DEF x
  <1>10. MigrationTypeOK' /\ LockGuardsSessions' /\ DecidesRightly'
    BY <1>1, <1>4, <1>5, <1>9, HolderLocal
  <1>11. /\ LedgerTellsSchema' /\ Adopts' = Adopts
         /\ \A q \in Processes : Rows(q)' = Rows(q)
    BY <1>0, <1>1, RowsUnchanged
  <1>12. session'[p] = x
    BY <1>4 DEF MigrationInv, LedgerInv, MigrationTypeOK
  <1>13. /\ found \in Nat /\ found <= Len(rows)
         /\ \A i \in 1 .. found : Rows(p)[i] = rows[i]
         /\ \A i \in 1 .. Len(rows) : rows[i] = E[i]
    BY <1>2, <1>3, PrefixPointwise DEF found
  <1>14. /\ Len(Append(rows, next)) = Len(rows) + 1
         /\ \A i \in 1 .. Len(rows) : Append(rows, next)[i] = rows[i]
         /\ Append(rows, next)[Len(rows) + 1] = E[Len(rows) + 1]
    BY <1>2, <1>6 DEF next
  <1>15. IsPrefix(Rows(p), Append(rows, next))
    <2>1. \A i \in 1 .. found : Rows(p)[i] = Append(rows, next)[i]
      BY <1>2, <1>13, <1>14
    <2>2. found <= Len(Append(rows, next))
      BY <1>2, <1>13, <1>14
    <2> QED
      BY <1>2, <1>8, <2>1, <2>2, PrefixPointwise DEF found
  <1>16. IsPrefix(Append(rows, next), E)
    <2>1. \A i \in 1 .. Len(Append(rows, next)) : Append(rows, next)[i] = E[i]
      BY <1>2, <1>13, <1>14
    <2>2. Len(Append(rows, next)) <= Len(E)
      BY <1>1, <1>2, <1>14 DEF E, rows
    <2> QED
      BY <1>2, <1>8, <2>1, <2>2, PrefixPointwise
  <1>17. Append(ran, next.sum) =
           [i \in 1 .. Len(Append(rows, next)) - found |-> Append(rows, next)[found + i].sum]
    <2> DEFINE n == Len(rows) - found
               all == [i \in 1 .. n + 1 |-> Append(rows, next)[found + i].sum]
    <2>1. n \in Nat /\ Len(Append(rows, next)) - found = n + 1
      BY <1>2, <1>13, <1>14
    <2>2. Len(ran) = n /\ \A i \in 1 .. n : ran[i] = rows[found + i].sum
      BY <1>2, <1>3, <2>1
    <2>3. \A i \in 1 .. n : Append(rows, next)[found + i] = rows[found + i]
      BY <1>2, <1>13, <1>14
    <2>4. Append(rows, next)[found + (n + 1)] = next
      BY <1>2, <1>13, <1>14 DEF next
    <2>5. Append(ran, next.sum) =
            [i \in 1 .. n + 1 |-> IF i <= n THEN ran[i] ELSE next.sum]
      BY <1>2, <1>7, <2>2
    <2> HIDE DEF n
    <2>6. \A i \in 1 .. n + 1 :
            all[i] = IF i <= n THEN ran[i] ELSE next.sum
      <3> SUFFICES ASSUME NEW i \in 1 .. n + 1
                   PROVE  all[i] = IF i <= n THEN ran[i] ELSE next.sum
        OBVIOUS
      <3>1. all[i] = Append(rows, next)[found + i].sum
        OBVIOUS
      <3> HIDE DEF all
      <3>2. CASE i \in 1 .. n
        <4>1. all[i] = ran[i]
          BY ONLY <2>2, <2>3, <3>1, <3>2
        <4>2. i <= n
          BY <2>1, <3>2
        <4> QED
          BY ONLY <4>1, <4>2
      <3>3. CASE i = n + 1
        <4>1. all[i] = next.sum
          BY ONLY <2>4, <3>1, <3>3
        <4>2. ~(i <= n)
          BY <2>1, <3>3
        <4> QED
          BY ONLY <4>1, <4>2
      <3>4. i \in 1 .. n \/ i = n + 1
        BY ONLY <2>1, i \in 1 .. n + 1
      <3> QED
        BY <3>2, <3>3, <3>4
    <2>7. Append(ran, next.sum) = all
      BY <2>5, <2>6
    <2> QED
      BY <2>1, <2>7
  <1>18. RunsOnTop'
    BY <1>1, <1>3, <1>9, <1>11, <1>12, <1>15, <1>16, <1>17, HolderStep DEF E, found
  <1> QED
    BY <1>10, <1>11, <1>18 DEF MigrationInv, LedgerInv

(* COMMIT is sent. *)
LEMMA SendCommitKeeps ==
  ASSUME MigrationInv, NEW p \in Processes, SendCommit(p)
  PROVE  MigrationInv'
  <1> DEFINE x == [session[p] EXCEPT !.state = "deciding"]
  <1>0. LedgerInv /\ LedgerTellsSchema
    BY DEF MigrationInv, LedgerInv
  <1>1. /\ lock = p
        /\ UNCHANGED <<ledger, history, schema, lock, failures>>
        /\ status' = [status EXCEPT ![p] = "committing"]
        /\ session' = [session EXCEPT ![p] = x]
        /\ ~Pending(p)
    BY <1>0 DEF SendCommit, Become, LedgerInv, LockGuardsSessions
  <1>2. /\ session[p] \in Sessions
        /\ session[p].rows \in Seq(Migrations) /\ Entries[p] \in Seq(Migrations)
        /\ IsPrefix(session[p].rows, Entries[p])
    BY <1>0, <1>1, HolderRuns
  <1>3. session[p].rows = Entries[p]
    <2>1. Len(Entries[p]) <= Len(session[p].rows)
      BY <1>1, <1>2 DEF Pending
    <2> QED
      BY <1>2, <2>1, WholePrefix
  <1>4. /\ x.state = "deciding" /\ x.adopts = session[p].adopts
        /\ x.rows = session[p].rows /\ x.ran = session[p].ran
        /\ x \in Sessions
    BY <1>2 DEF Sessions
  <1> HIDE DEF x
  <1>5. MigrationTypeOK' /\ LockGuardsSessions' /\ DecidesRightly'
    BY <1>1, <1>4, HolderLocal
  <1>6. /\ LedgerTellsSchema' /\ Adopts' = Adopts
        /\ \A q \in Processes : Rows(q)' = Rows(q)
    BY <1>0, <1>1, RowsUnchanged
  <1>7. session'[p] = x
    BY <1>1 DEF MigrationInv, LedgerInv, MigrationTypeOK
  <1>8. /\ Valid(Entries[p]) /\ history # "partial"
        /\ session[p].adopts = Adopts /\ IsPrefix(Rows(p), session[p].rows)
        /\ session[p].ran = [i \in 1 .. Len(session[p].rows) - Len(Rows(p)) |->
                               session[p].rows[Len(Rows(p)) + i].sum]
        /\ Sums(Rows(p)) = schema
    BY <1>0, <1>1, HolderRuns
  <1>9. RunsOnTop'
    BY <1>1, <1>2, <1>3, <1>4, <1>6, <1>7, <1>8, HolderStep
  <1> QED
    BY <1>5, <1>6, <1>9 DEF MigrationInv, LedgerInv

(* The server commits: the ledger is the release's list, and the schema is
   what the list says. *)
LEMMA CommitKeeps ==
  ASSUME MigrationInv, NEW p \in Processes, Commit(p)
  PROVE  MigrationInv'
  <1> DEFINE E == Entries[p]
             ran == session[p].ran
             found == Len(Rows(p))
  <1>0. LedgerInv /\ LedgerTellsSchema /\ NoLock \notin Processes
    BY MigrationAssumption DEF MigrationInv, LedgerInv
  <1>1. lock = p
    BY <1>0 DEF Commit, LedgerInv, LockGuardsSessions, NoTx, Fresh
  <1>2. E \in Seq(Migrations) /\ Rows(p) \in Seq(Migrations) /\ ran \in Seq(STRING)
    BY <1>0, <1>1, HolderRuns
  <1>3. /\ Valid(E) /\ history # "partial"
        /\ session[p].adopts = Adopts
        /\ session[p].rows = E
        /\ IsPrefix(Rows(p), session[p].rows)
        /\ ran = [i \in 1 .. Len(session[p].rows) - found |-> session[p].rows[found + i].sum]
        /\ Sums(Rows(p)) = schema
    BY <1>0, <1>1, HolderRuns DEF Commit
  <1>4. /\ ledger' = E /\ schema' = schema \o ran
        /\ history' = IF session[p].adopts THEN "none" ELSE history
        /\ lock' = NoLock /\ session' = [session EXCEPT ![p] = NoTx]
        /\ UNCHANGED <<status, failures>>
    BY <1>1, <1>3 DEF Commit, Unlocked
  <1>5. history' = "none"
    BY <1>0, <1>3, <1>4 DEF Adopts, LedgerTellsSchema, LedgerInv, MigrationTypeOK
  <1>6. ledger \in Seq(Migrations) /\ IsPrefix(ledger, E)
    <2>1. ledger \in Seq(Migrations)
      BY DEF MigrationInv, LedgerInv, MigrationTypeOK
    <2>2. CASE Adopts
      <3>1. ledger = <<>> /\ Len(ledger) = 0 /\ Len(E) \in Nat
        BY <1>2, <2>2 DEF Adopts
      <3> QED
        BY <1>2, <3>1, EmptyPrefix
    <2>3. CASE ~Adopts
      BY <1>3, <2>1, <2>3 DEF Rows
    <2> QED
      BY <2>2, <2>3
  <1>7. NoTx \in Sessions /\ NoTx.state = "none"
    BY DEF NoTx, Fresh, Sessions
  <1>8. schema' = Sums(E) /\ schema' \in Seq(STRING)
    <2> HIDE DEF E, found, ran
    <2>1. /\ found \in Nat /\ found <= Len(E) /\ found = Len(Rows(p)) /\ Len(E) \in Nat
          /\ \A i \in 1 .. found : Rows(p)[i] = E[i]
      BY <1>2, <1>3, PrefixPointwise DEF found
    <2>2. \A i \in 1 .. Len(E) : E[i].sum \in STRING
      <3>1. \A i \in 1 .. Len(E) : E[i] \in Migrations
        BY <1>2
      <3> QED
        BY <3>1 DEF Migrations
    <2>3. schema \in Seq(STRING) /\ schema = Sums(Rows(p))
      BY <1>3 DEF MigrationInv, LedgerInv, MigrationTypeOK
    <2>4. Len(schema) = found /\ \A i \in 1 .. found : schema[i] = E[i].sum
      BY <1>2, <2>1, <2>3 DEF Sums
    <2>5. Len(ran) = Len(E) - found /\ \A i \in 1 .. Len(E) - found : ran[i] = E[found + i].sum
      BY <1>2, <1>3, <2>1
    <2>6. schema \o ran \in Seq(STRING) /\ Len(schema \o ran) = Len(E)
      <3>1. schema \o ran \in Seq(STRING) /\ Len(schema \o ran) = Len(schema) + Len(ran)
        BY ONLY <1>2, <2>3
      <3> QED
        BY ONLY <2>1, <2>4, <2>5, <3>1
    <2>7. \A i \in 1 .. Len(E) : (schema \o ran)[i] = E[i].sum
      <3> SUFFICES ASSUME NEW i \in 1 .. Len(E)
                   PROVE  (schema \o ran)[i] = E[i].sum
        OBVIOUS
      <3>0. i \in Int /\ 1 <= i /\ i <= Len(E)
        BY ONLY <2>1, i \in 1 .. Len(E)
      <3>1. CASE i <= found
        <4>1. i \in 1 .. found
          BY ONLY <2>1, <3>0, <3>1
        <4>2. (schema \o ran)[i] = schema[i]
          BY ONLY <1>2, <2>3, <2>4, <4>1
        <4> QED
          BY ONLY <2>4, <4>1, <4>2
      <3>2. CASE i > found
        <4>1. (schema \o ran)[i] = ran[i - found]
          BY ONLY <1>2, <2>1, <2>3, <2>4, <2>5, <3>0, <3>2
        <4>2. i - found \in 1 .. Len(E) - found /\ found + (i - found) = i
          BY ONLY <2>1, <3>0, <3>2
        <4> QED
          BY ONLY <2>5, <4>1, <4>2
      <3>3. i <= found \/ i > found
        BY ONLY <2>1, <3>0
      <3> QED
        BY <3>1, <3>2, <3>3
    <2>8. schema \o ran = Sums(E)
      <3>1. DOMAIN (schema \o ran) = 1 .. Len(E) /\ DOMAIN E = 1 .. Len(E)
        BY <1>2, <2>6
      <3>2. schema \o ran = [i \in 1 .. Len(E) |-> (schema \o ran)[i]]
        <4> DEFINE t == schema \o ran
        <4>1. t \in Seq(STRING)
          BY <2>6
        <4> HIDE DEF t
        <4>2. t = [i \in 1 .. Len(t) |-> t[i]]
          BY ONLY <4>1
        <4> QED
          BY <2>6, <4>2 DEF t
      <3> QED
        BY <2>7, <3>1, <3>2 DEF Sums
    <2> QED
      BY <1>4, <2>6, <2>8
  <1> HIDE DEF E
  <1>9. /\ session \in [Processes -> Sessions]
        /\ session' \in [Processes -> Sessions] /\ session'[p] = NoTx
        /\ \A q \in Processes \ {p} : session'[q] = session[q]
    BY <1>4, <1>7 DEF MigrationInv, LedgerInv, MigrationTypeOK
  <1>10. MigrationTypeOK'
    BY <1>2, <1>4, <1>5, <1>8, <1>9 DEF MigrationInv, LedgerInv, MigrationTypeOK
  <1>11. LockGuardsSessions'
    <2> SUFFICES ASSUME NEW q \in Processes
                 PROVE  /\ lock' = q => session'[q].state # "none"
                        /\ lock' # q => session'[q] \in {NoTx, Fresh("open")}
                        /\ status[q] = "waiting" =>
                             lock' # q /\ session'[q].state = "open" /\ Valid(Entries[q])
                        /\ status[q] = "migrating" => lock' = q /\ session'[q].state = "open"
                        /\ status[q] = "committing" =>
                             session'[q].state \in {"deciding", "none"}
                        /\ status[q] \in {"up", "refused"} => session'[q].state = "none"
      BY <1>4 DEF LockGuardsSessions, Valid, NoTx, Fresh
    <2>1. lock' # q
      BY <1>0, <1>4
    <2>2. CASE q = p
      <3>1. status[p] # "waiting" /\ status[p] # "migrating"
        BY <1>0, <1>1 DEF LedgerInv, LockGuardsSessions, Commit
      <3> QED
        BY <1>7, <1>9, <2>1, <2>2, <3>1
    <2>3. CASE q # p
      <3>1. session'[q] = session[q] /\ lock # q
        BY <1>1, <1>9, <2>3
      <3> QED
        BY <1>0, <2>1, <3>1 DEF LedgerInv, LockGuardsSessions
    <2> QED
      BY <2>2, <2>3
  <1>12. LedgerTellsSchema' /\ RunsOnTop'
    BY <1>0, <1>4, <1>5, <1>8 DEF LedgerTellsSchema, RunsOnTop, Sums
  <1>13. DecidesRightly'
    <2>0. \A q \in Processes : Entries[q] \in Seq(Migrations)
      BY MigrationAssumption
    <2>1. ASSUME NEW q \in Processes, IsPrefix(Entries[q], ledger)
          PROVE  IsPrefix(Entries[q], E)
      BY <1>2, <1>6, <2>0, <2>1, PrefixTransitive
    <2>2. ASSUME NEW q \in Processes, IsPrefix(E, Entries[q])
          PROVE  IsPrefix(ledger, Entries[q])
      BY <1>2, <1>6, <2>0, <2>2, PrefixTransitive
    <2>3. IsPrefix(E, E)
      BY <1>2, PrefixPointwise
    <2>4. ServesItsSchema'
      BY <1>4, <1>9, <2>1, <2>3 DEF MigrationInv, DecidesRightly, ServesItsSchema, E
    <2>5. RefusedForReason'
      BY <1>3, <1>4, <2>2 DEF MigrationInv, DecidesRightly, RefusedForReason, Valid
    <2> QED
      BY <2>4, <2>5 DEF DecidesRightly
  <1> QED
    BY <1>10, <1>11, <1>12, <1>13 DEF MigrationInv, LedgerInv

(* Every reachable state of every instance satisfies the inductive
   invariant. *)
LEMMA MigrationInvHolds == MigrationSpec => []MigrationInv
  <1>1. MigrationInit => MigrationInv
    <2> SUFFICES ASSUME MigrationInit PROVE MigrationInv
      OBVIOUS
    <2>1. NoTx \in Sessions /\ NoTx.state = "none"
      BY DEF NoTx, Fresh, Sessions
    <2>2. schema \in Seq(STRING) /\ LedgerTellsSchema
      <3>1. CASE history = "none"
        <4>1. Sums(<<>>) = <<>>
          BY DEF Sums
        <4> QED
          BY <3>1, <4>1 DEF MigrationInit, LedgerTellsSchema
      <3>2. CASE history # "none"
        <4>1. Baseline \in Seq(STRING) /\ Len(Baseline) \in Nat \ {0}
          BY MigrationAssumption
        <4>2. SubSeq(Baseline, 1, Len(Baseline) - 1) \in Seq(STRING)
          BY <4>1
        <4> QED
          BY <3>2, <4>1, <4>2 DEF MigrationInit, LedgerTellsSchema, LegacySchema
      <3> QED
        BY <3>1, <3>2
    <2>3. MigrationTypeOK
      BY <2>1, <2>2, MigrationAssumption DEF MigrationInit, MigrationTypeOK
    <2>4. LockGuardsSessions /\ RunsOnTop
      BY <2>1, MigrationAssumption DEF MigrationInit, LockGuardsSessions, RunsOnTop
    <2>5. DecidesRightly
      BY DEF MigrationInit, DecidesRightly, ServesItsSchema, RefusedForReason
    <2> QED
      BY <2>2, <2>3, <2>4, <2>5 DEF MigrationInv, LedgerInv
  <1>2. MigrationInv /\ [MigrationNext]_migrationVars => MigrationInv'
    <2> SUFFICES ASSUME MigrationInv, [MigrationNext]_migrationVars PROVE MigrationInv'
      OBVIOUS
    <2>1. ASSUME NEW p \in Processes, Check(p) PROVE MigrationInv'
      BY <2>1, CheckRefuses, CheckPasses
    <2>2. CASE UNCHANGED migrationVars
      <3>1. UNCHANGED <<ledger, history, schema, lock, session, status, failures>>
        BY <2>2 DEF migrationVars
      <3>2. LedgerTellsSchema' /\ RunsOnTop'
        BY <3>1, HolderUnchanged DEF MigrationInv
      <3>3. MigrationTypeOK' /\ LockGuardsSessions'
        BY <3>1 DEF MigrationInv, LedgerInv, MigrationTypeOK, LockGuardsSessions, Valid
      <3>4. DecidesRightly'
        BY <3>1 DEF MigrationInv, DecidesRightly, ServesItsSchema, RefusedForReason, Valid
      <3> QED
        BY <3>2, <3>3, <3>4 DEF MigrationInv, LedgerInv
    <2> QED
      BY <2>1, <2>2, StartKeeps, ApplyKeeps, SendCommitKeeps, CommittedKeeps, FailKeeps,
         CommitKeeps, RollBackKeeps DEF MigrationNext
  <1> QED
    BY <1>1, <1>2, PTL DEF MigrationSpec

(* For any number of processes of any releases, any legacy history and any
   number of failures, the ledger tells the schema: what it records was run
   once and in order, and only the holder of the advisory lock continues it. *)
THEOREM LedgerHolds == MigrationSpec => []LedgerInv
  <1>1. MigrationInv => LedgerInv
    BY DEF MigrationInv
  <1> QED
    BY <1>1, MigrationInvHolds, PTL

(* A release that serves does so on a schema that begins with its own
   migrations, and one that is refused is refused for what waiting would not
   change. *)
THEOREM StartsDecideRightly == MigrationSpec => []DecidesRightly
  <1>1. MigrationInv => DecidesRightly
    BY DEF MigrationInv
  <1> QED
    BY <1>1, MigrationInvHolds, PTL
=============================================================================
