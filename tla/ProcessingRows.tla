--------------------------- MODULE ProcessingRows ---------------------------
(***************************************************************************)
(* What the document-processing workflow promises about its rows: one      *)
(* document, the jobs whose subject it is and the job events still owed to *)
(* the workflow's consumer change only by whole transitions of the         *)
(* aggregates, as if nothing ran concurrently.  DocumentProcessing, where  *)
(* calls load, wait and write, is shown to implement this.                 *)
(***************************************************************************)
EXTENDS Job, Document

CONSTANTS
  Jobs,      \* job ids: bounds how many jobs the document ever gets
  Asks,      \* the ids a job may get with each attempt budget
  NoJob,     \* no job row, no loaded job
  Legacy     \* the document may predate the recording of runs

ASSUME RowsAssumption ==
  /\ NoRun \notin Jobs
  /\ Asks \subseteq Jobs \X Budgets
  /\ NoJob \notin Job
  /\ Legacy \in BOOLEAN

VARIABLES
  doc,    \* the document row
  jobs,   \* the job rows whose subject is the document
  owed    \* job events not yet recorded as processed by the consumer

rows == <<doc, jobs, owed>>

EventTypes == {"retried", "completed", "failed", "canceled"}
Events == [type : EventTypes, job : Jobs, attempt : 0..10]

Documents ==
  [status : DocumentStatuses, run : Jobs \cup {NoRun}, attempt : 0..10,
   failed : BOOLEAN, archivedAt : BOOLEAN]

OpenJobs == {j \in Jobs : jobs[j] # NoJob /\ Open(jobs[j])}

(* The event a transition publishes with the row; the workflow does not act
   on started and submitted events. *)
EventsOf(a, j, job) ==
  CASE a = "start" -> {}
    [] a = "complete" -> {[type |-> "completed", job |-> j, attempt |-> job.attempts]}
    [] a = "fail" -> {[type |-> "failed", job |-> j, attempt |-> job.attempts]}
    [] a = "retry" -> {[type |-> "retried", job |-> j, attempt |-> job.attempts]}
    [] a = "cancel" -> {[type |-> "canceled", job |-> j, attempt |-> job.attempts]}

(* decodeJobEvent: what an event means for the document. *)
ResultOf(e) ==
  CASE e.type = "retried" -> "retrying"
    [] e.type = "completed" -> "succeeded"
    [] e.type \in {"failed", "canceled"} -> "failed"

AfterEvent(d, e) == ApplyOutcome(d, e.job, e.attempt, ResultOf(e))

(* What an event says of its job is so, and stays so. *)
Truthful(e) ==
  /\ jobs[e.job] # NoJob
  /\ e.attempt <= jobs[e.job].attempts
  /\ e.type = "completed" =>
       jobs[e.job].status = "succeeded" /\ e.attempt = jobs[e.job].attempts
  /\ e.type = "canceled" =>
       jobs[e.job].status = "canceled" /\ e.attempt = jobs[e.job].attempts

RowsInit ==
  /\ \/ doc = NewDocument /\ jobs = [j \in Jobs |-> NoJob]
     \/ /\ Legacy
        /\ doc = LegacyDocument
        /\ \E j \in Jobs, b \in Budgets :
             /\ <<j, b>> \in Asks
             /\ jobs = [i \in Jobs |-> IF i = j THEN Create(b) ELSE NoJob]
  /\ owed = {}

CreateRow(j, b) ==
  /\ <<j, b>> \in Asks
  /\ OpenJobs = {}
  /\ jobs[j] = NoJob
  /\ jobs' = [jobs EXCEPT ![j] = Create(b)]
  /\ UNCHANGED <<doc, owed>>

TransitionRow(j, a) ==
  /\ jobs[j] # NoJob
  /\ Allowed(a, jobs[j])
  /\ jobs' = [jobs EXCEPT ![j] = Changed(a, jobs[j])]
  /\ owed' = owed \cup EventsOf(a, j, Changed(a, jobs[j]))
  /\ UNCHANGED doc

BeginRow(j) ==
  /\ jobs[j] # NoJob
  /\ Processable(doc)
  /\ doc' = BeginProcessing(doc, j)
  /\ UNCHANGED <<jobs, owed>>

ArchiveRow ==
  /\ CanArchive(doc)
  /\ doc' = Archive(doc)
  /\ UNCHANGED <<jobs, owed>>

(* An outcome is applied; its event may stay owed. *)
OutcomeRow(e) ==
  /\ Truthful(e)
  /\ doc' = AfterEvent(doc, e)
  /\ owed' \in {owed, owed \ {e}}
  /\ UNCHANGED jobs

RowStep ==
  \/ \E j \in Jobs, b \in Budgets : CreateRow(j, b)
  \/ \E j \in Jobs, a \in Actions : TransitionRow(j, a)
  \/ \E j \in Jobs : BeginRow(j)
  \/ ArchiveRow
  \/ \E e \in Events : OutcomeRow(e)

RowsSpec == RowsInit /\ [][RowStep]_rows

-----------------------------------------------------------------------------
(* Properties of the rows.                                                 *)

RowsTypeOK ==
  /\ doc \in Documents
  /\ jobs \in [Jobs -> Job \cup {NoJob}]
  /\ owed \in SUBSET Events

(* Every row the transitions write can be read back: Job.restore,
   Document.restore and the CHECK constraints accept it after any sequence of
   transitions. *)
RowsRestorable ==
  /\ RestorableDocument(doc)
  /\ \A j \in Jobs : jobs[j] # NoJob => Restorable(jobs[j])

(* Concurrent requests converge on one job: a document never has two open
   jobs.  In particular no update reopens a closed job, so the unique index
   refuses inserts only. *)
AtMostOneOpen == \A i, j \in OpenJobs : i = j

(* A processed document was processed by a job that succeeded: no stale,
   superseded or reordered outcome marks it processed. *)
ProcessedMeansSucceeded ==
  doc.status = "processed" =>
    doc.run \in Jobs /\ jobs[doc.run] # NoJob /\ jobs[doc.run].status = "succeeded"

(* A succeeded or canceled job never changes again, whatever calls loaded it
   before it finished; an exhausted one only gives way to a cancellation. *)
FinishedJobIsFinal ==
  [][\A j \in Jobs :
       jobs[j] # NoJob =>
         /\ jobs[j].status \in {"succeeded", "canceled"} => jobs'[j] = jobs[j]
         /\ ~Open(jobs[j]) /\ jobs'[j] # jobs[j] => jobs'[j].status = "canceled"]_rows

(* An archived document never changes again and a processed one can only be
   archived, even if a request or an outcome was in flight. *)
DocumentNeverReopens ==
  [][/\ doc.status = "archived" => doc' = doc
     /\ doc.status = "processed" => doc'.status \in {"processed", "archived"}]_rows

(* The events after which their job does no more work. *)
Closing(e) ==
  \/ e.type \in {"completed", "canceled"}
  \/ e.type = "failed" /\ e.attempt = jobs[e.job].maxAttempts

(* When the last outcome of the run a document waits on has been delivered,
   the document is no longer processing that run: however late the outcome
   comes and whatever came before it, it is never taken for a stale one. *)
ClosingOutcomeSettles ==
  [][\A e \in owed \ owed' :
       Closing(e) => ~(doc'.status = "processing" /\ doc'.run = e.job)]_rows

-----------------------------------------------------------------------------
(* The inductive invariant behind these properties.                        *)

(* A document waits on an existing run and knows no attempt of it that the
   job has not made. *)
RunExists ==
  IF doc.run = NoRun
  THEN doc.attempt = 0
  ELSE jobs[doc.run] # NoJob /\ doc.attempt <= jobs[doc.run].attempts

OwedTruthful == \A e \in owed : Truthful(e)

RowsInv ==
  /\ RowsTypeOK
  /\ RowsRestorable
  /\ AtMostOneOpen
  /\ ProcessedMeansSucceeded
  /\ RunExists
  /\ OwedTruthful

=============================================================================
