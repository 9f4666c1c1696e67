---------------------- MODULE DocumentProcessingProofs ----------------------
(***************************************************************************)
(* DocumentProcessing keeps its properties for every set of jobs, calls    *)
(* and attempt budgets.                                                    *)
(***************************************************************************)
EXTENDS DocumentProcessing, TLAPS

-----------------------------------------------------------------------------
(* The aggregates.                                                         *)

(* Setting one column of a job, or of a document, keeps its type. *)
LEMMA JobFields ==
  ASSUME NEW job \in Job
  PROVE  /\ \A x \in JobStatuses : [job EXCEPT !.status = x] \in Job
         /\ \A x \in 0..10 : [job EXCEPT !.attempts = x] \in Job
         /\ \A x \in BOOLEAN : [job EXCEPT !.started = x] \in Job
         /\ \A x \in BOOLEAN : [job EXCEPT !.finished = x] \in Job
         /\ \A x \in BOOLEAN : [job EXCEPT !.failed = x] \in Job
BY DEF Job

LEMMA DocumentFields ==
  ASSUME NEW d \in Documents
  PROVE  /\ \A x \in DocumentStatuses : [d EXCEPT !.status = x] \in Documents
         /\ \A x \in Jobs \cup {NoRun} : [d EXCEPT !.run = x] \in Documents
         /\ \A x \in 0..10 : [d EXCEPT !.attempt = x] \in Documents
         /\ \A x \in BOOLEAN : [d EXCEPT !.failed = x] \in Documents
         /\ \A x \in BOOLEAN : [d EXCEPT !.archivedAt = x] \in Documents
BY DEF Documents

(* A new job is a restorable row (Job.create, Job.restore). *)
LEMMA CreatedJob ==
  ASSUME NEW b \in Budgets
  PROVE  Create(b) \in Job /\ Restorable(Create(b)) /\ Create(b).attempts = 0
<1>1. Create(b) \in Job
  BY DEF Create, Job, JobStatuses
<1>2. Restorable(Create(b))
  BY BudgetsAssumption DEF Create, Restorable
<1>3. Create(b).attempts = 0
  BY DEF Create
<1> QED
  BY <1>1, <1>2, <1>3

(* A transition the aggregate accepts gives a well-formed job. *)
LEMMA ChangedJobType ==
  ASSUME NEW job \in Job, NEW a \in Actions, Allowed(a, job)
  PROVE  Changed(a, job) \in Job
<1>0. JobStatuses = {"queued", "running", "succeeded", "failed", "canceled"}
      /\ TRUE \in BOOLEAN /\ FALSE \in BOOLEAN
  BY DEF JobStatuses
<1>1. CASE a = "start"
  <2>1. job.attempts + 1 \in 0..10
    <3>1. job.maxAttempts \in 1..10 /\ job.attempts \in 0..10
      BY BudgetsAssumption DEF Job
    <3>2. job.attempts < job.maxAttempts
      BY <1>1 DEF Allowed
    <3> QED
      BY <3>1, <3>2
  <2>2. Start(job) \in Job
    BY <1>0, <2>1, JobFields DEF Start
  <2> QED
    BY <1>1, <2>2 DEF Changed
<1>2. Complete(job) \in Job
  BY <1>0, JobFields DEF Complete
<1>3. Fail(job) \in Job
  BY <1>0, JobFields DEF Fail
<1>4. Retry(job) \in Job
  BY <1>0, JobFields DEF Retry
<1>5. Cancel(job) \in Job
  BY <1>0, JobFields DEF Cancel
<1> QED
  BY <1>1, <1>2, <1>3, <1>4, <1>5 DEF Actions, Changed

(* It keeps the row restorable (Job.restore, CHECK constraints). *)
LEMMA ChangedJobRestorable ==
  ASSUME NEW job \in Job, NEW a \in Actions, Allowed(a, job), Restorable(job)
  PROVE  Restorable(Changed(a, job))
<1>0. job.maxAttempts \in 1..10 /\ job.attempts \in 0..10
  BY BudgetsAssumption DEF Job
<1>1. CASE a = "start"
  <2>1. job.status = "queued" /\ job.attempts < job.maxAttempts
    BY <1>1 DEF Allowed
  <2>2. LET new == Start(job) IN
        /\ new.status = "running" /\ new.attempts = job.attempts + 1
        /\ new.maxAttempts = job.maxAttempts
        /\ new.started = TRUE /\ new.finished = FALSE /\ new.failed = FALSE
    BY DEF Job, Start
  <2>3. Changed(a, job) = Start(job)
    BY <1>1 DEF Changed
  <2> QED
    BY <1>0, <2>1, <2>2, <2>3 DEF Restorable
<1>2. CASE a = "complete"
  BY <1>2 DEF Job, Allowed, Restorable, Changed, Complete
<1>3. CASE a = "fail"
  BY <1>3 DEF Job, Allowed, Restorable, Changed, Fail
<1>4. CASE a = "retry"
  BY <1>4 DEF Job, Allowed, Restorable, Changed, Retry
<1>5. CASE a = "cancel"
  BY <1>5 DEF Job, Allowed, Restorable, Changed, Cancel
<1> QED
  BY <1>1, <1>2, <1>3, <1>4, <1>5 DEF Actions

(* It never takes an attempt back, finishes no finished job and never reopens
   a closed one. *)
LEMMA ChangedJobForward ==
  ASSUME NEW job \in Job, NEW a \in Actions, Allowed(a, job)
  PROVE  LET new == Changed(a, job) IN
         /\ new.attempts >= job.attempts
         /\ new.maxAttempts = job.maxAttempts
         /\ Open(new) => Open(job)
         /\ job.status \notin {"succeeded", "canceled"}
         /\ ~Open(job) => new.status = "canceled"
         /\ a = "complete" => new.status = "succeeded" /\ new.attempts = job.attempts
         /\ a = "cancel" => new.status = "canceled" /\ new.attempts = job.attempts
<1>0. job.maxAttempts \in 1..10 /\ job.attempts \in 0..10
  BY BudgetsAssumption DEF Job
<1>1. CASE a = "start"
  <2>1. job.status = "queued"
    BY <1>1 DEF Allowed
  <2>2. LET new == Start(job) IN
        /\ new.status = "running" /\ new.attempts = job.attempts + 1
        /\ new.maxAttempts = job.maxAttempts
    BY DEF Job, Start
  <2>3. Changed(a, job) = Start(job)
    BY <1>1 DEF Changed
  <2> QED
    BY <1>0, <1>1, <2>1, <2>2, <2>3 DEF Open
<1>2. CASE a = "complete"
  <2>1. job.status = "running"
    BY <1>2 DEF Allowed
  <2>2. LET new == Complete(job) IN
        /\ new.status = "succeeded" /\ new.attempts = job.attempts
        /\ new.maxAttempts = job.maxAttempts
    BY DEF Job, Complete
  <2>3. Changed(a, job) = Complete(job)
    BY <1>2 DEF Changed
  <2> QED
    BY <1>0, <1>2, <2>1, <2>2, <2>3 DEF Open
<1>3. CASE a = "fail"
  <2>1. job.status = "running"
    BY <1>3 DEF Allowed
  <2>2. LET new == Fail(job) IN
        /\ new.status = "failed" /\ new.attempts = job.attempts
        /\ new.maxAttempts = job.maxAttempts
    BY DEF Job, Fail
  <2>3. Changed(a, job) = Fail(job)
    BY <1>3 DEF Changed
  <2> QED
    BY <1>0, <1>3, <2>1, <2>2, <2>3 DEF Open
<1>4. CASE a = "retry"
  <2>1. job.status = "failed" /\ job.attempts < job.maxAttempts
    BY <1>4 DEF Allowed
  <2>2. LET new == Retry(job) IN
        /\ new.status = "queued" /\ new.attempts = job.attempts
        /\ new.maxAttempts = job.maxAttempts
    BY DEF Job, Retry
  <2>3. Changed(a, job) = Retry(job)
    BY <1>4 DEF Changed
  <2> QED
    BY <1>0, <1>4, <2>1, <2>2, <2>3 DEF Open
<1>5. CASE a = "cancel"
  <2>1. job.status \notin {"succeeded", "canceled"}
    BY <1>5 DEF Allowed
  <2>2. LET new == Cancel(job) IN
        /\ new.status = "canceled" /\ new.attempts = job.attempts
        /\ new.maxAttempts = job.maxAttempts
    BY DEF Job, Cancel
  <2>3. Changed(a, job) = Cancel(job)
    BY <1>5 DEF Changed
  <2> QED
    BY <1>0, <1>5, <2>1, <2>2, <2>3 DEF Open
<1> QED
  BY <1>1, <1>2, <1>3, <1>4, <1>5 DEF Actions

(* Archiving keeps the document's row restorable. *)
LEMMA ArchivedDocument ==
  ASSUME NEW d \in Documents, RestorableDocument(d)
  PROVE  LET new == Archive(d) IN
         /\ new \in Documents /\ RestorableDocument(new)
         /\ new.status = "archived" /\ new.run = d.run /\ new.attempt = d.attempt
BY DEF Documents, DocumentStatuses, RestorableDocument, Archive

(* Beginning a run puts a processable document to processing at attempt 0. *)
LEMMA BegunDocument ==
  ASSUME NEW d \in Documents, NEW j \in Jobs, RestorableDocument(d), Processable(d)
  PROVE  LET new == BeginProcessing(d, j) IN
         /\ new \in Documents /\ RestorableDocument(new)
         /\ new.status = "processing" /\ new.run = j
         /\ new = d \/ new.attempt = 0
<1>1. CASE d.status = "processing" /\ d.run = j
  BY <1>1 DEF BeginProcessing
<1>2. CASE ~(d.status = "processing" /\ d.run = j)
  <2>1. "processing" \in DocumentStatuses /\ FALSE \in BOOLEAN
        /\ j \in Jobs \cup {NoRun} /\ 0 \in 0..10
    BY DEF DocumentStatuses
  <2>2. BeginProcessing(d, j) \in Documents
    BY <1>2, <2>1, DocumentFields DEF BeginProcessing
  <2>3. RestorableDocument(BeginProcessing(d, j))
    BY <1>2 DEF BeginProcessing, Documents, DocumentStatuses, Processable,
                RestorableDocument
  <2> QED
    BY <1>2, <2>2, <2>3 DEF BeginProcessing, Documents
<1> QED
  BY <1>1, <1>2

(* An outcome changes only a document that waits on its run; one that is not
   older than what the document knows and is not a retry ends the wait. *)
LEMMA InformedDocument ==
  ASSUME NEW d \in Documents, NEW e \in Events, RestorableDocument(d)
  PROVE  LET new == AfterEvent(d, e) IN
         /\ new \in Documents /\ RestorableDocument(new)
         /\ new # d => /\ d.status \in {"processing", "processing_failed"}
                       /\ new.run = e.job /\ new.attempt = e.attempt
                       /\ new.status \in {"processing", "processing_failed", "processed"}
                       /\ new.status = "processed" => e.type = "completed"
         /\ (e.type # "retried" /\ d.run = e.job /\ e.attempt >= d.attempt)
              => new.status # "processing"
<1> DEFINE new == AfterEvent(d, e)
<1>1. CASE Stale(d, e.job, e.attempt)
  <2>1. new = d
    BY <1>1 DEF AfterEvent, ApplyOutcome
  <2> QED
    BY <1>1, <2>1 DEF Stale, Documents, DocumentStatuses, Events
<1>2. CASE ~Stale(d, e.job, e.attempt)
  <2>0. d.status \in {"processing", "processing_failed"}
    BY <1>2 DEF Stale, Documents, DocumentStatuses
  <2>1. CASE e.type = "completed"
    <3>1. new = [d EXCEPT !.run = e.job, !.attempt = e.attempt,
                          !.status = "processed", !.failed = FALSE]
      BY <1>2, <2>1 DEF AfterEvent, ApplyOutcome, ResultOf, Documents, Events
    <3> QED
      BY <2>0, <2>1, <3>1 DEF Documents, DocumentStatuses, Events, RestorableDocument
  <2>2. CASE e.type = "retried"
    <3>1. ResultOf(e) = "retrying"
      BY <2>2 DEF ResultOf
    <3> QED
      BY <1>2, <2>0, <2>2, <3>1 DEF AfterEvent, ApplyOutcome,
         Documents, DocumentStatuses, Events, RestorableDocument
  <2>3. CASE e.type \in {"failed", "canceled"}
    <3>1. ResultOf(e) = "failed"
      BY <2>3 DEF ResultOf
    <3> QED
      BY <1>2, <2>0, <2>3, <3>1 DEF AfterEvent, ApplyOutcome,
         Documents, DocumentStatuses, Events, RestorableDocument
  <2> QED
    BY <2>1, <2>2, <2>3 DEF Events, EventTypes
<1> QED
  BY <1>1, <1>2

-----------------------------------------------------------------------------
(* The rows.                                                               *)

(* What a published event says of its job stays true: attempts only grow and
   finished jobs do not change. *)
LEMMA TruthfulStable ==
  ASSUME RowsInv, [RowStep]_rows, NEW e \in Events, Truthful(e)
  PROVE  Truthful(e)'
<1>1. CASE jobs'[e.job] = jobs[e.job]
  BY <1>1 DEF Truthful
<1>2. ASSUME NEW j \in Jobs, NEW b \in Budgets, CreateRow(j, b)
      PROVE  jobs'[e.job] = jobs[e.job]
  BY <1>2 DEF CreateRow, Truthful, RowsInv, RowsTypeOK, Events
<1>3. ASSUME NEW j \in Jobs, NEW a \in Actions, TransitionRow(j, a)
      PROVE  Truthful(e)'
  <2>1. CASE e.job # j
    BY <2>1, <1>3, <1>1 DEF TransitionRow, RowsInv, RowsTypeOK
  <2>2. CASE e.job = j
    <3>1. jobs[j] \in Job
      BY <1>3 DEF TransitionRow, RowsInv, RowsTypeOK
    <3>2. jobs'[j] = Changed(a, jobs[j])
      BY <1>3 DEF TransitionRow, RowsInv, RowsTypeOK
    <3>3. jobs'[j] \in Job
      BY <1>3, <3>1, <3>2, ChangedJobType DEF TransitionRow
    <3>4. /\ jobs'[j].attempts >= jobs[j].attempts
          /\ jobs[j].status \notin {"succeeded", "canceled"}
      BY <1>3, <3>1, <3>2, ChangedJobForward DEF TransitionRow
    <3>5. /\ jobs'[j] # NoJob
          /\ jobs[j].attempts \in Nat /\ jobs'[j].attempts \in Nat /\ e.attempt \in Nat
      BY <3>1, <3>3, RowsAssumption DEF Job, Events
    <3> QED
      BY <2>2, <3>4, <3>5 DEF Truthful
  <2> QED
    BY <2>1, <2>2
<1>4. RowStep /\ ~(\E j \in Jobs, b \in Budgets : CreateRow(j, b))
              /\ ~(\E j \in Jobs, a \in Actions : TransitionRow(j, a))
      => jobs'[e.job] = jobs[e.job]
  BY DEF RowStep, BeginRow, ArchiveRow, OutcomeRow
<1> QED
  BY <1>1, <1>2, <1>3, <1>4 DEF rows

(* Creating a job keeps the invariant of the rows: there was no open job. *)
LEMMA CreateRowPreserves ==
  ASSUME RowsInv, NEW j \in Jobs, NEW b \in Budgets, CreateRow(j, b)
  PROVE  RowsInv'
<1> DEFINE job == Create(b)
<1>0. job \in Job /\ Restorable(job) /\ job # NoJob
  BY CreatedJob, RowsAssumption
<1>1. /\ jobs' = [jobs EXCEPT ![j] = job] /\ jobs[j] = NoJob
      /\ doc' = doc /\ owed' = owed /\ OpenJobs = {}
  BY DEF CreateRow
<1>2. jobs'[j] = job /\ \A i \in Jobs : i # j => jobs'[i] = jobs[i]
  BY <1>1 DEF RowsInv, RowsTypeOK
<1> HIDE DEF job
<1>3. RowsTypeOK'
  BY <1>0, <1>1 DEF RowsInv, RowsTypeOK
<1>4. RowsRestorable'
  BY <1>0, <1>1, <1>2 DEF RowsInv, RowsRestorable
<1>5. AtMostOneOpen'
  <2>1. \A i \in OpenJobs' : i = j
    BY <1>1, <1>2 DEF OpenJobs
  <2> QED
    BY <2>1 DEF AtMostOneOpen
<1>6. ProcessedMeansSucceeded'
  BY <1>1, <1>2 DEF RowsInv, ProcessedMeansSucceeded
<1>7. RunExists'
  BY <1>1, <1>2 DEF RowsInv, RowsTypeOK, RunExists, Documents
<1>8. OwedTruthful'
  BY <1>1, TruthfulStable DEF RowsInv, RowsTypeOK, OwedTruthful, RowStep
<1> QED
  BY <1>3, <1>4, <1>5, <1>6, <1>7, <1>8 DEF RowsInv

(* So does a job transition; the event it publishes is true of the new row. *)
LEMMA TransitionRowPreserves ==
  ASSUME RowsInv, NEW j \in Jobs, NEW a \in Actions, TransitionRow(j, a)
  PROVE  RowsInv'
<1> DEFINE new == Changed(a, jobs[j])
<1>0. jobs[j] \in Job /\ Restorable(jobs[j]) /\ Allowed(a, jobs[j])
  BY DEF RowsInv, RowsTypeOK, RowsRestorable, TransitionRow
<1>1. new \in Job /\ Restorable(new) /\ new # NoJob
  BY <1>0, ChangedJobType, ChangedJobRestorable, RowsAssumption
<1>2. /\ new.attempts >= jobs[j].attempts
      /\ Open(new) => Open(jobs[j])
      /\ jobs[j].status \notin {"succeeded", "canceled"}
      /\ a = "complete" => new.status = "succeeded"
      /\ a = "cancel" => new.status = "canceled"
  BY <1>0, ChangedJobForward
<1>3. /\ jobs' = [jobs EXCEPT ![j] = new] /\ doc' = doc
      /\ owed' = owed \cup EventsOf(a, j, new) /\ jobs[j] # NoJob
  BY DEF TransitionRow
<1>4. jobs'[j] = new /\ \A i \in Jobs : i # j => jobs'[i] = jobs[i]
  BY <1>3 DEF RowsInv, RowsTypeOK
<1> HIDE DEF new
<1>5. new.attempts \in 0..10
  BY <1>1 DEF Job
<1>6. \A e \in EventsOf(a, j, new) :
        /\ e \in Events /\ e.job = j /\ e.attempt = new.attempts
        /\ e.type = "completed" => a = "complete"
        /\ e.type = "canceled" => a = "cancel"
  BY <1>5 DEF EventsOf, Events, EventTypes, Actions
<1>7. RowsTypeOK'
  BY <1>1, <1>3, <1>6 DEF RowsInv, RowsTypeOK
<1>8. RowsRestorable'
  BY <1>1, <1>3, <1>4 DEF RowsInv, RowsRestorable
<1>9. AtMostOneOpen'
  <2>1. OpenJobs' \subseteq OpenJobs
    BY <1>2, <1>3, <1>4 DEF OpenJobs
  <2> QED
    BY <2>1 DEF RowsInv, AtMostOneOpen
<1>10. ProcessedMeansSucceeded'
  BY <1>2, <1>3, <1>4 DEF RowsInv, ProcessedMeansSucceeded
<1>11. RunExists'
  <2>1. jobs[j].attempts \in Nat /\ new.attempts \in Nat /\ doc.attempt \in Nat
    BY <1>0, <1>5 DEF Job, RowsInv, RowsTypeOK, Documents
  <2> QED
    BY <1>1, <1>2, <1>3, <1>4, <2>1 DEF RowsInv, RowsTypeOK, RunExists, Documents
<1>12. OwedTruthful'
  <2>1. \A e \in owed : Truthful(e)'
    BY TruthfulStable DEF RowsInv, RowsTypeOK, OwedTruthful, RowStep
  <2>2. \A e \in EventsOf(a, j, new) : Truthful(e)'
    BY <1>1, <1>2, <1>4, <1>5, <1>6 DEF Truthful
  <2> QED
    BY <1>3, <2>1, <2>2 DEF OwedTruthful
<1> QED
  BY <1>7, <1>8, <1>9, <1>10, <1>11, <1>12 DEF RowsInv

(* A document write that keeps the row well formed and points to an existing
   run keeps the invariant, if it marks only a succeeded run processed. *)
LEMMA DocumentWritePreserves ==
  ASSUME RowsInv, jobs' = jobs, owed' \subseteq owed,
         doc' \in Documents, RestorableDocument(doc'),
         RunExists', ProcessedMeansSucceeded'
  PROVE  RowsInv'
<1>1. RowsTypeOK'
  BY DEF RowsInv, RowsTypeOK
<1>2. RowsRestorable' /\ AtMostOneOpen'
  BY DEF RowsInv, RowsRestorable, AtMostOneOpen, OpenJobs
<1>3. OwedTruthful'
  BY DEF RowsInv, OwedTruthful, Truthful
<1> QED
  BY <1>1, <1>2, <1>3 DEF RowsInv

(* Every step of the rows keeps their invariant. *)
LEMMA RowStepPreserves ==
  ASSUME RowsInv, [RowStep]_rows
  PROVE  RowsInv'
<1>0. doc \in Documents /\ RestorableDocument(doc)
  BY DEF RowsInv, RowsTypeOK, RowsRestorable
<1>1. CASE UNCHANGED rows
  BY <1>1 DEF rows, RowsInv, RowsTypeOK, RowsRestorable, AtMostOneOpen, OpenJobs,
     ProcessedMeansSucceeded, RunExists, OwedTruthful, Truthful
<1>2. ASSUME NEW j \in Jobs, BeginRow(j) PROVE RowsInv'
  <2>1. /\ doc' \in Documents /\ RestorableDocument(doc')
        /\ doc'.status = "processing" /\ doc'.run = j
        /\ doc' = doc \/ doc'.attempt = 0
    BY <1>0, <1>2, BegunDocument DEF BeginRow
  <2>2. jobs' = jobs /\ owed' \subseteq owed /\ jobs[j] # NoJob
    BY <1>2 DEF BeginRow
  <2>3. RunExists'
    <3>1. jobs[j] \in Job
      BY <2>2 DEF RowsInv, RowsTypeOK
    <3>2. jobs[j].attempts \in 0..10
      BY <3>1 DEF Job
    <3> QED
      BY <2>1, <2>2, <3>2, RowsAssumption DEF RunExists, RowsInv
  <2>4. ProcessedMeansSucceeded'
    BY <2>1 DEF ProcessedMeansSucceeded
  <2> QED
    BY <2>1, <2>2, <2>3, <2>4, DocumentWritePreserves
<1>3. CASE ArchiveRow
  <2>1. /\ doc' \in Documents /\ RestorableDocument(doc')
        /\ doc'.status = "archived" /\ doc'.run = doc.run /\ doc'.attempt = doc.attempt
    BY <1>0, <1>3, ArchivedDocument DEF ArchiveRow
  <2>2. jobs' = jobs /\ owed' \subseteq owed
    BY <1>3 DEF ArchiveRow
  <2>3. RunExists' /\ ProcessedMeansSucceeded'
    BY <2>1, <2>2 DEF RowsInv, RunExists, ProcessedMeansSucceeded
  <2> QED
    BY <2>1, <2>2, <2>3, DocumentWritePreserves
<1>4. ASSUME NEW e \in Events, OutcomeRow(e) PROVE RowsInv'
  <2>0. doc' = AfterEvent(doc, e) /\ jobs' = jobs /\ Truthful(e) /\ owed' \subseteq owed
    BY <1>4 DEF OutcomeRow
  <2>1. /\ doc' \in Documents /\ RestorableDocument(doc')
        /\ doc' # doc => /\ doc'.run = e.job /\ doc'.attempt = e.attempt
                         /\ doc'.status = "processed" => e.type = "completed"
    BY <1>0, <2>0, InformedDocument
  <2>2. e.job \in Jobs
    BY DEF Events
  <2>3. RunExists'
    BY <2>0, <2>1, <2>2, RowsAssumption DEF RowsInv, RunExists, Truthful
  <2>4. ProcessedMeansSucceeded'
    BY <2>0, <2>1, <2>2 DEF RowsInv, ProcessedMeansSucceeded, Truthful
  <2> QED
    BY <2>0, <2>1, <2>3, <2>4, DocumentWritePreserves
<1> QED
  BY <1>1, <1>2, <1>3, <1>4, CreateRowPreserves, TransitionRowPreserves DEF RowStep

(* The initial rows: a new document without jobs, or a legacy one. *)
LEMMA RowsInitially == RowsInit => RowsInv
<1> SUFFICES ASSUME RowsInit PROVE RowsInv
  OBVIOUS
<1>1. /\ doc \in Documents /\ RestorableDocument(doc)
      /\ doc.run = NoRun /\ doc.attempt = 0 /\ doc.status # "processed"
  <2>1. doc = NewDocument \/ doc = LegacyDocument
    BY DEF RowsInit
  <2>2. NewDocument \in Documents
    BY DEF NewDocument, Documents, DocumentStatuses
  <2>3. LegacyDocument \in Documents
    BY <2>2, DocumentFields DEF LegacyDocument, DocumentStatuses
  <2>4. RestorableDocument(NewDocument) /\ RestorableDocument(LegacyDocument)
    BY DEF NewDocument, LegacyDocument, RestorableDocument
  <2>5. /\ NewDocument.run = NoRun /\ LegacyDocument.run = NoRun
        /\ NewDocument.attempt = 0 /\ LegacyDocument.attempt = 0
        /\ NewDocument.status = "active" /\ LegacyDocument.status = "processing"
    BY DEF NewDocument, LegacyDocument
  <2> QED
    BY <2>1, <2>2, <2>3, <2>4, <2>5
<1>2. /\ \A i \in Jobs : jobs[i] = NoJob \/ \E b \in Budgets : jobs[i] = Create(b)
      /\ \A i, k \in Jobs : jobs[i] # NoJob /\ jobs[k] # NoJob => i = k
  <2>1. CASE jobs = [j \in Jobs |-> NoJob]
    BY <2>1
  <2>2. ASSUME NEW j \in Jobs, NEW b \in Budgets,
               jobs = [i \in Jobs |-> IF i = j THEN Create(b) ELSE NoJob]
        PROVE  <1>2
    BY <2>2
  <2> QED
    BY <2>1, <2>2 DEF RowsInit
<1>3. jobs \in [Jobs -> Job \cup {NoJob}]
  BY CreatedJob DEF RowsInit
<1>4. RowsTypeOK
  BY <1>1, <1>3 DEF RowsInit, RowsTypeOK
<1>5. RowsRestorable
  BY <1>1, <1>2, CreatedJob DEF RowsRestorable
<1>6. AtMostOneOpen
  BY <1>2 DEF AtMostOneOpen, OpenJobs
<1>7. ProcessedMeansSucceeded /\ RunExists /\ OwedTruthful
  BY <1>1 DEF RowsInit, ProcessedMeansSucceeded, RunExists, OwedTruthful
<1> QED
  BY <1>4, <1>5, <1>6, <1>7 DEF RowsInv

-----------------------------------------------------------------------------
(* The calls.                                                              *)

(* Every step a call takes leaves the rows alone or takes one atomic step of
   theirs: a write is refused unless what was loaded is still stored. *)
LEMMA StepIsRowStep ==
  ASSUME IInv, [Next]_vars
  PROVE  [RowStep]_rows
<1>0. RowsInv /\ \A c \in Calls : EventCall(c) /\ JobCall(c) /\ DocumentCall(c)
  BY DEF IInv, CallsOK
<1>1. ASSUME NEW c \in Calls, pc[c] \in {"retry", "transition"}, JobIsFresh(c), WriteJob(c)
      PROVE  RowStep
  <2>1. action[c] \in Actions /\ on[c] \in Jobs
    BY <1>0, <1>1 DEF JobIsFresh, JobCall
  <2>2. TransitionRow(on[c], action[c])
    BY <1>0, <1>1 DEF JobIsFresh, JobCall, WriteJob, TransitionRow
  <2> QED
    BY <2>1, <2>2 DEF RowStep
<1>2. ASSUME NEW c \in Calls, Request(c) PROVE [RowStep]_rows
  <2>1. CASE SubmitCreate(c)
    BY <2>1 DEF SubmitCreate, SubjectTaken, RowStep, CreateRow, rows
  <2>2. CASE SubmitRetryCommit(c)
    BY <1>1, <2>2 DEF SubmitRetryCommit
  <2>3. CASE BeginCommit(c)
    <3>1. c \in docFresh /\ on[c] \in Jobs /\ jobs[on[c]] # NoJob
      BY <1>0, <2>3 DEF BeginCommit, DocIsFresh, JobCall
    <3>2. BeginRow(on[c])
      BY <1>0, <2>3, <3>1 DEF BeginCommit, WriteDocument, DocumentCall, BeginRow
    <3> QED
      BY <3>1, <3>2 DEF RowStep
  <2>4. CASE RequestStart(c) \/ SubmitReuse(c) \/ SubmitRetry(c) \/ SubmitNone(c) \/ Begin(c)
    BY <2>4 DEF RequestStart, SubmitReuse, SubmitRetry, SubmitNone, Begin,
                LoadJob, LoadDocument, rows
  <2> QED
    BY <1>2, <2>1, <2>2, <2>3, <2>4 DEF Request
<1>3. ASSUME NEW c \in Calls, TransitionCommit(c) PROVE [RowStep]_rows
  BY <1>1, <1>3 DEF TransitionCommit
<1>4. ASSUME NEW c \in Calls, ArchiveCommit(c) PROVE [RowStep]_rows
  BY <1>0, <1>4 DEF ArchiveCommit, DocIsFresh, WriteDocument, DocumentCall, ArchiveRow, RowStep
<1>5. ASSUME NEW c \in Calls, HandleCommit(c) PROVE [RowStep]_rows
  <2>1. event[c] \in Events
    BY <1>0, <1>5 DEF HandleCommit, EventCall
  <2>2. OutcomeRow(event[c])
    BY <1>0, <1>5 DEF HandleCommit, DocIsFresh, Handled, WriteDocument, DocumentCall,
                      EventCall, OutcomeRow
  <2> QED
    BY <2>1, <2>2 DEF RowStep
<1>6. ASSUME NEW c \in Calls, NEW e \in owed, Handle(c, e) PROVE [RowStep]_rows
  <2>1. e \in Events /\ Truthful(e)
    BY <1>0 DEF RowsInv, RowsTypeOK, OwedTruthful
  <2>2. CASE AfterEvent(doc, e) = doc
    <3>1. OutcomeRow(e)
      BY <1>6, <2>1, <2>2 DEF Handle, Handled, OutcomeRow
    <3> QED
      BY <2>1, <3>1 DEF RowStep
  <2>3. CASE AfterEvent(doc, e) # doc
    BY <1>6, <2>3 DEF Handle, LoadDocument
  <2> QED
    BY <2>2, <2>3
<1>7. ASSUME NEW c \in Calls, NEW j \in Jobs, NEW a \in Actions,
             Transition(c, j, a) \/ Expire(c, j)
      PROVE  [RowStep]_rows
  BY <1>7 DEF Transition, Expire, Overdue, LoadJob, rows
<1>8. ASSUME NEW c \in Calls, ArchiveLoad(c) \/ CallFails(c) PROVE [RowStep]_rows
  BY <1>8 DEF ArchiveLoad, LoadDocument, CallFails, rows
<1>9. CASE UNCHANGED vars
  BY <1>9 DEF vars, rows
<1> QED
  BY <1>2, <1>3, <1>4, <1>5, <1>6, <1>7, <1>8, <1>9 DEF Next, JobExpiry, Actions

(* A step that does not touch call q and leaves it fresh only with respect to
   rows it did not change keeps what q knows. *)
LEMMA OthersKeep ==
  ASSUME IInv, [RowStep]_rows, NEW q \in Calls,
         /\ pc'[q] = pc[q] /\ on'[q] = on[q] /\ action'[q] = action[q]
         /\ event'[q] = event[q] /\ newJob'[q] = newJob[q] /\ newDoc'[q] = newDoc[q],
         q \in jobFresh' => q \in jobFresh /\ jobs'[on[q]] = jobs[on[q]],
         q \in docFresh' => q \in docFresh /\ doc' = doc
  PROVE  EventCall(q)' /\ JobCall(q)' /\ DocumentCall(q)'
<1>0. RowsInv /\ EventCall(q) /\ JobCall(q) /\ DocumentCall(q)
  BY DEF IInv, CallsOK
<1>1. EventCall(q)'
  BY <1>0, TruthfulStable DEF EventCall
<1>2. \A j \in Jobs : jobs[j] # NoJob => jobs'[j] # NoJob
  <2>1. ASSUME NEW j \in Jobs, NEW a \in Actions, TransitionRow(j, a)
        PROVE  jobs'[j] # NoJob /\ \A i \in Jobs : i # j => jobs'[i] = jobs[i]
    <3>1. jobs[j] \in Job /\ jobs'[j] = Changed(a, jobs[j]) /\ Allowed(a, jobs[j])
      BY <1>0, <2>1 DEF TransitionRow, RowsInv, RowsTypeOK
    <3>2. jobs'[j] \in Job
      BY <3>1, ChangedJobType
    <3> QED
      BY <1>0, <2>1, <3>2, RowsAssumption DEF TransitionRow, RowsInv, RowsTypeOK
  <2>2. ASSUME NEW j \in Jobs, NEW b \in Budgets, CreateRow(j, b)
        PROVE  \A i \in Jobs : jobs[i] # NoJob => jobs'[i] = jobs[i]
    BY <1>0, <2>2 DEF CreateRow, RowsInv, RowsTypeOK
  <2>3. CASE jobs' = jobs
    BY <2>3
  <2> QED
    BY <2>1, <2>2, <2>3 DEF RowStep, BeginRow, ArchiveRow, OutcomeRow, rows
<1>3. JobCall(q)'
  BY <1>0, <1>2 DEF JobCall
<1>4. DocumentCall(q)'
  BY <1>0 DEF DocumentCall
<1> QED
  BY <1>1, <1>3, <1>4

(* The types of calls are kept by every step. *)
LEMMA CallTypesPreserved ==
  ASSUME IInv, [Next]_vars
  PROVE  TypeOK'
<1>0. TypeOK /\ RowsTypeOK'
  BY StepIsRowStep, RowStepPreserves DEF IInv, RowsInv
<1>a. \A j \in Jobs, a \in Actions :
        jobs[j] # NoJob /\ Allowed(a, jobs[j]) => Changed(a, jobs[j]) \in Job
  BY <1>0, ChangedJobType DEF TypeOK, RowsTypeOK
<1>b. doc \in Documents /\ RestorableDocument(doc)
  BY DEF IInv, RowsInv, RowsTypeOK, RowsRestorable
<1>c. Processable(doc) => \A j \in Jobs : BeginProcessing(doc, j) \in Documents
  BY <1>b, BegunDocument
<1>d. Archive(doc) \in Documents
  BY <1>b, ArchivedDocument
<1>e. \A e \in owed : e \in Events /\ AfterEvent(doc, e) \in Documents
  BY <1>0, <1>b, InformedDocument DEF TypeOK, RowsTypeOK
<1>f. \A c \in Calls : pc[c] = "begin" => on[c] \in Jobs
  BY DEF IInv, CallsOK, JobCall
<1>1. ASSUME NEW c \in Calls, RequestStart(c) PROVE TypeOK'
  BY <1>0, <1>1 DEF TypeOK, Stages, RequestStart
<1>2. ASSUME NEW c \in Calls, SubmitReuse(c) PROVE TypeOK'
  BY <1>0, <1>2 DEF TypeOK, Stages, SubmitReuse, OpenJobs
<1>3. ASSUME NEW c \in Calls, SubmitRetry(c) PROVE TypeOK'
  BY <1>0, <1>a, <1>3 DEF TypeOK, Stages, SubmitRetry, LoadJob, OpenJobs, Actions
<1>4. ASSUME NEW c \in Calls, SubmitNone(c) PROVE TypeOK'
  BY <1>0, <1>4 DEF TypeOK, Stages, SubmitNone
<1>5. ASSUME NEW c \in Calls, SubmitCreate(c) PROVE TypeOK'
  BY <1>0, <1>5 DEF TypeOK, Stages, SubmitCreate
<1>6. ASSUME NEW c \in Calls, SubmitRetryCommit(c) PROVE TypeOK'
  BY <1>0, <1>6 DEF TypeOK, Stages, SubmitRetryCommit, WriteJob, JobIsFresh
<1>7. ASSUME NEW c \in Calls, Begin(c) PROVE TypeOK'
  BY <1>0, <1>c, <1>f, <1>7 DEF TypeOK, Stages, Begin, LoadDocument, Return
<1>8. ASSUME NEW c \in Calls, BeginCommit(c) PROVE TypeOK'
  BY <1>0, <1>8 DEF TypeOK, Stages, BeginCommit, WriteDocument, DocIsFresh, Return
<1>9. ASSUME NEW c \in Calls, NEW j \in Jobs, NEW a \in Actions, Transition(c, j, a) PROVE TypeOK'
  BY <1>0, <1>a, <1>9 DEF TypeOK, Stages, Transition, LoadJob
<1>10. ASSUME NEW c \in Calls, NEW j \in Jobs, Expire(c, j) PROVE TypeOK'
  BY <1>0, <1>a, <1>10 DEF TypeOK, Stages, Expire, Overdue, LoadJob, Actions
<1>11. ASSUME NEW c \in Calls, TransitionCommit(c) PROVE TypeOK'
  BY <1>0, <1>11 DEF TypeOK, Stages, TransitionCommit, WriteJob, JobIsFresh, Return
<1>12. ASSUME NEW c \in Calls, ArchiveLoad(c) PROVE TypeOK'
  BY <1>0, <1>d, <1>12 DEF TypeOK, Stages, ArchiveLoad, LoadDocument
<1>13. ASSUME NEW c \in Calls, ArchiveCommit(c) PROVE TypeOK'
  BY <1>0, <1>13 DEF TypeOK, Stages, ArchiveCommit, WriteDocument, DocIsFresh, Return
<1>14. ASSUME NEW c \in Calls, NEW e \in owed, Handle(c, e) PROVE TypeOK'
  BY <1>0, <1>e, <1>14 DEF TypeOK, Stages, Handle, LoadDocument, callVars
<1>15. ASSUME NEW c \in Calls, HandleCommit(c) PROVE TypeOK'
  BY <1>0, <1>15 DEF TypeOK, Stages, HandleCommit, WriteDocument, DocIsFresh, Return
<1>16. ASSUME NEW c \in Calls, CallFails(c) PROVE TypeOK'
  BY <1>0, <1>16 DEF TypeOK, Stages, CallFails, Return, rows
<1>17. CASE UNCHANGED vars
  BY <1>0, <1>17 DEF vars, callVars, TypeOK
<1> QED
  BY <1>1, <1>2, <1>3, <1>4, <1>5, <1>6, <1>7, <1>8,
     <1>9, <1>10, <1>11, <1>12, <1>13, <1>14, <1>15, <1>16, <1>17 DEF Next, JobExpiry, Request

(* What calls know stays true under every step, of their own and of others. *)
LEMMA CallsPreserved ==
  ASSUME IInv, [Next]_vars
  PROVE  CallsOK'
<1> DEFINE Untouched(q) ==
      /\ pc'[q] = pc[q] /\ on'[q] = on[q] /\ action'[q] = action[q]
      /\ event'[q] = event[q] /\ newJob'[q] = newJob[q] /\ newDoc'[q] = newDoc[q]
      /\ q \in jobFresh' => q \in jobFresh /\ jobs'[on[q]] = jobs[on[q]]
      /\ q \in docFresh' => q \in docFresh /\ doc' = doc
<1>a. TypeOK /\ RowsTypeOK /\ [RowStep]_rows
  BY StepIsRowStep DEF IInv, RowsInv
<1>b. \A c \in Calls : EventCall(c) /\ JobCall(c) /\ DocumentCall(c)
  BY DEF IInv, CallsOK
<1>c. \A e \in owed : e \in Events /\ Truthful(e) /\ Truthful(e)'
  BY TruthfulStable, <1>a DEF IInv, RowsInv, RowsTypeOK, OwedTruthful
<1>d. ASSUME NEW c \in Calls, EventCall(c)', JobCall(c)', DocumentCall(c)',
             \A q \in Calls : q # c => Untouched(q)
      PROVE  CallsOK'
  BY <1>a, <1>d, OthersKeep DEF CallsOK
<1>e. ASSUME NEW q \in Calls, q \in jobFresh PROVE on[q] \in Jobs /\ jobs[on[q]] # NoJob
  BY <1>b, <1>e DEF JobCall
<1>1. ASSUME NEW c \in Calls, RequestStart(c) PROVE CallsOK'
  <2>0. JobCall(c) /\ DocumentCall(c)
    BY <1>b
  <2>1. EventCall(c)'
    BY <1>a, <1>c, <1>1 DEF TypeOK, EventCall, RequestStart
  <2>2. JobCall(c)'
    BY <1>a, <1>1, <2>0 DEF TypeOK, RowsTypeOK, JobCall, rows, RequestStart
  <2>3. DocumentCall(c)'
    BY <1>a, <1>1, <2>0 DEF TypeOK, DocumentCall, rows, RequestStart
  <2>4. ASSUME NEW q \in Calls, q # c PROVE Untouched(q)
    BY <1>a, <1>e, <1>1, <2>4 DEF TypeOK, RowsTypeOK, rows, RequestStart
  <2> QED
    BY <1>d, <2>1, <2>2, <2>3, <2>4
<1>2. ASSUME NEW c \in Calls, SubmitReuse(c) PROVE CallsOK'
  <2>0. JobCall(c) /\ DocumentCall(c)
    BY <1>b
  <2>1. EventCall(c)'
    BY <1>a, <1>c, <1>2 DEF TypeOK, EventCall, SubmitReuse, OpenJobs
  <2>2. JobCall(c)'
    BY <1>a, <1>2, <2>0 DEF TypeOK, RowsTypeOK, JobCall, rows, SubmitReuse, OpenJobs
  <2>3. DocumentCall(c)'
    BY <1>a, <1>2, <2>0 DEF TypeOK, DocumentCall, rows, SubmitReuse, OpenJobs
  <2>4. ASSUME NEW q \in Calls, q # c PROVE Untouched(q)
    BY <1>a, <1>e, <1>2, <2>4 DEF TypeOK, RowsTypeOK, rows, SubmitReuse, OpenJobs
  <2> QED
    BY <1>d, <2>1, <2>2, <2>3, <2>4
<1>3. ASSUME NEW c \in Calls, SubmitRetry(c) PROVE CallsOK'
  <2>0. JobCall(c) /\ DocumentCall(c)
    BY <1>b
  <2>1. EventCall(c)'
    BY <1>a, <1>c, <1>3 DEF TypeOK, EventCall, SubmitRetry, LoadJob, OpenJobs, Actions
  <2>2. JobCall(c)'
    BY <1>a, <1>3, <2>0 DEF TypeOK, RowsTypeOK, JobCall, rows, SubmitRetry, LoadJob, OpenJobs, Actions
  <2>3. DocumentCall(c)'
    BY <1>a, <1>3, <2>0 DEF TypeOK, DocumentCall, rows, SubmitRetry, LoadJob, OpenJobs, Actions
  <2>4. ASSUME NEW q \in Calls, q # c PROVE Untouched(q)
    BY <1>a, <1>e, <1>3, <2>4 DEF TypeOK, RowsTypeOK, rows, SubmitRetry, LoadJob, OpenJobs, Actions
  <2> QED
    BY <1>d, <2>1, <2>2, <2>3, <2>4
<1>4. ASSUME NEW c \in Calls, SubmitNone(c) PROVE CallsOK'
  <2>0. JobCall(c) /\ DocumentCall(c)
    BY <1>b
  <2>1. EventCall(c)'
    BY <1>a, <1>c, <1>4 DEF TypeOK, EventCall, SubmitNone
  <2>2. JobCall(c)'
    BY <1>a, <1>4, <2>0 DEF TypeOK, RowsTypeOK, JobCall, rows, SubmitNone
  <2>3. DocumentCall(c)'
    BY <1>a, <1>4, <2>0 DEF TypeOK, DocumentCall, rows, SubmitNone
  <2>4. ASSUME NEW q \in Calls, q # c PROVE Untouched(q)
    BY <1>a, <1>e, <1>4, <2>4 DEF TypeOK, RowsTypeOK, rows, SubmitNone
  <2> QED
    BY <1>d, <2>1, <2>2, <2>3, <2>4
<1>5. ASSUME NEW c \in Calls, SubmitCreate(c) PROVE CallsOK'
  <2>0. JobCall(c) /\ DocumentCall(c)
    BY <1>b
  <2>1. EventCall(c)'
    BY <1>a, <1>c, <1>5 DEF TypeOK, EventCall, SubmitCreate
  <2>2. JobCall(c)'
    <3>0. \A b \in Budgets : Create(b) # NoJob
      BY CreatedJob, RowsAssumption
    <3>1. c \notin jobFresh'
      BY <1>5, <2>0 DEF SubmitCreate, JobCall
    <3>2. pc'[c] = "begin" => on'[c] \in Jobs /\ jobs'[on'[c]] # NoJob
      <4>1. CASE SubjectTaken
        BY <1>a, <1>5, <4>1 DEF SubmitCreate, TypeOK
      <4>2. CASE ~SubjectTaken
        <5>1. PICK j \in Jobs, b \in Budgets :
                /\ jobs' = [jobs EXCEPT ![j] = Create(b)]
                /\ on' = [on EXCEPT ![c] = j]
          BY <1>5, <4>2 DEF SubmitCreate
        <5>2. on'[c] = j /\ jobs'[j] = Create(b)
          BY <1>a, <5>1 DEF TypeOK, RowsTypeOK
        <5> QED
          BY <3>0, <5>2
      <4> QED
        BY <4>1, <4>2
    <3>3. pc'[c] \in {"begin", "refind"}
      BY <1>a, <1>5 DEF SubmitCreate, TypeOK
    <3> QED
      BY <3>1, <3>2, <3>3 DEF JobCall
  <2>3. DocumentCall(c)'
    BY <1>a, <1>5, <2>0 DEF TypeOK, DocumentCall, rows, SubmitCreate
  <2>4. ASSUME NEW q \in Calls, q # c PROVE Untouched(q)
    BY <1>a, <1>e, <1>5, <2>4 DEF TypeOK, RowsTypeOK, rows, SubmitCreate
  <2> QED
    BY <1>d, <2>1, <2>2, <2>3, <2>4
<1>6. ASSUME NEW c \in Calls, SubmitRetryCommit(c) PROVE CallsOK'
  <2>0. JobCall(c) /\ DocumentCall(c)
    BY <1>b
  <2>1. EventCall(c)'
    BY <1>a, <1>c, <1>6 DEF TypeOK, EventCall, SubmitRetryCommit, WriteJob, JobIsFresh
  <2>2. JobCall(c)'
    <3>1. on[c] \in Jobs /\ jobs[on[c]] \in Job /\ action[c] \in Actions
          /\ Allowed(action[c], jobs[on[c]]) /\ newJob[c] = Changed(action[c], jobs[on[c]])
      BY <1>a, <1>6, <2>0 DEF SubmitRetryCommit, JobIsFresh, JobCall, RowsTypeOK
    <3>2. newJob[c] # NoJob
      BY <3>1, ChangedJobType, RowsAssumption
    <3>3. pc'[c] = "begin" /\ on'[c] = on[c] /\ c \notin jobFresh'
      BY <1>a, <1>6 DEF SubmitRetryCommit, WriteJob, TypeOK
    <3>4. jobs'[on[c]] = newJob[c]
      BY <1>a, <1>6, <3>1 DEF SubmitRetryCommit, WriteJob, RowsTypeOK
    <3> QED
      BY <3>1, <3>2, <3>3, <3>4 DEF JobCall
  <2>3. DocumentCall(c)'
    BY <1>a, <1>6, <2>0 DEF TypeOK, DocumentCall, rows, SubmitRetryCommit, WriteJob, JobIsFresh
  <2>4. ASSUME NEW q \in Calls, q # c PROVE Untouched(q)
    BY <1>a, <1>e, <1>6, <2>4 DEF TypeOK, RowsTypeOK, rows, SubmitRetryCommit, WriteJob, JobIsFresh
  <2> QED
    BY <1>d, <2>1, <2>2, <2>3, <2>4
<1>7. ASSUME NEW c \in Calls, Begin(c) PROVE CallsOK'
  <2>0. JobCall(c) /\ DocumentCall(c)
    BY <1>b
  <2>1. EventCall(c)'
    BY <1>a, <1>c, <1>7 DEF TypeOK, EventCall, Begin, LoadDocument, Return
  <2>2. JobCall(c)'
    BY <1>a, <1>7, <2>0 DEF TypeOK, RowsTypeOK, JobCall, rows, Begin, LoadDocument, Return
  <2>3. DocumentCall(c)'
    BY <1>a, <1>7, <2>0 DEF TypeOK, DocumentCall, rows, Begin, LoadDocument, Return
  <2>4. ASSUME NEW q \in Calls, q # c PROVE Untouched(q)
    BY <1>a, <1>e, <1>7, <2>4 DEF TypeOK, RowsTypeOK, rows, Begin, LoadDocument, Return
  <2> QED
    BY <1>d, <2>1, <2>2, <2>3, <2>4
<1>8. ASSUME NEW c \in Calls, BeginCommit(c) PROVE CallsOK'
  <2>0. JobCall(c) /\ DocumentCall(c)
    BY <1>b
  <2>1. EventCall(c)'
    BY <1>a, <1>c, <1>8 DEF TypeOK, EventCall, BeginCommit, WriteDocument, DocIsFresh, Return
  <2>2. JobCall(c)'
    BY <1>a, <1>8, <2>0 DEF TypeOK, RowsTypeOK, JobCall, rows, BeginCommit, WriteDocument, DocIsFresh, Return
  <2>3. DocumentCall(c)'
    BY <1>a, <1>8, <2>0 DEF TypeOK, DocumentCall, rows, BeginCommit, WriteDocument, DocIsFresh, Return
  <2>4. ASSUME NEW q \in Calls, q # c PROVE Untouched(q)
    BY <1>a, <1>e, <1>8, <2>4 DEF TypeOK, RowsTypeOK, rows, BeginCommit, WriteDocument, DocIsFresh, Return
  <2> QED
    BY <1>d, <2>1, <2>2, <2>3, <2>4
<1>9. ASSUME NEW c \in Calls, NEW j \in Jobs, NEW a \in Actions, Transition(c, j, a) PROVE CallsOK'
  <2>0. JobCall(c) /\ DocumentCall(c)
    BY <1>b
  <2>1. EventCall(c)'
    BY <1>a, <1>c, <1>9 DEF TypeOK, EventCall, Transition, LoadJob
  <2>2. JobCall(c)'
    BY <1>a, <1>9, <2>0 DEF TypeOK, RowsTypeOK, JobCall, rows, Transition, LoadJob
  <2>3. DocumentCall(c)'
    BY <1>a, <1>9, <2>0 DEF TypeOK, DocumentCall, rows, Transition, LoadJob
  <2>4. ASSUME NEW q \in Calls, q # c PROVE Untouched(q)
    BY <1>a, <1>e, <1>9, <2>4 DEF TypeOK, RowsTypeOK, rows, Transition, LoadJob
  <2> QED
    BY <1>d, <2>1, <2>2, <2>3, <2>4
<1>10. ASSUME NEW c \in Calls, NEW j \in Jobs, Expire(c, j) PROVE CallsOK'
  <2>0. JobCall(c) /\ DocumentCall(c)
    BY <1>b
  <2>1. EventCall(c)'
    BY <1>a, <1>c, <1>10 DEF TypeOK, EventCall, Expire, Overdue, LoadJob, Actions
  <2>2. JobCall(c)'
    BY <1>a, <1>10, <2>0 DEF TypeOK, RowsTypeOK, JobCall, rows, Expire, Overdue, LoadJob, Actions
  <2>3. DocumentCall(c)'
    BY <1>a, <1>10, <2>0 DEF TypeOK, DocumentCall, rows, Expire, Overdue, LoadJob, Actions
  <2>4. ASSUME NEW q \in Calls, q # c PROVE Untouched(q)
    BY <1>a, <1>e, <1>10, <2>4 DEF TypeOK, RowsTypeOK, rows, Expire, Overdue, LoadJob, Actions
  <2> QED
    BY <1>d, <2>1, <2>2, <2>3, <2>4
<1>11. ASSUME NEW c \in Calls, TransitionCommit(c) PROVE CallsOK'
  <2>0. JobCall(c) /\ DocumentCall(c)
    BY <1>b
  <2>1. EventCall(c)'
    BY <1>a, <1>c, <1>11 DEF TypeOK, EventCall, TransitionCommit, WriteJob, JobIsFresh, Return
  <2>2. JobCall(c)'
    BY <1>a, <1>11, <2>0 DEF TypeOK, RowsTypeOK, JobCall, rows, TransitionCommit, WriteJob, JobIsFresh, Return
  <2>3. DocumentCall(c)'
    BY <1>a, <1>11, <2>0 DEF TypeOK, DocumentCall, rows, TransitionCommit, WriteJob, JobIsFresh, Return
  <2>4. ASSUME NEW q \in Calls, q # c PROVE Untouched(q)
    BY <1>a, <1>e, <1>11, <2>4 DEF TypeOK, RowsTypeOK, rows, TransitionCommit, WriteJob, JobIsFresh, Return
  <2> QED
    BY <1>d, <2>1, <2>2, <2>3, <2>4
<1>12. ASSUME NEW c \in Calls, ArchiveLoad(c) PROVE CallsOK'
  <2>0. JobCall(c) /\ DocumentCall(c)
    BY <1>b
  <2>1. EventCall(c)'
    BY <1>a, <1>c, <1>12 DEF TypeOK, EventCall, ArchiveLoad, LoadDocument
  <2>2. JobCall(c)'
    BY <1>a, <1>12, <2>0 DEF TypeOK, RowsTypeOK, JobCall, rows, ArchiveLoad, LoadDocument
  <2>3. DocumentCall(c)'
    BY <1>a, <1>12, <2>0 DEF TypeOK, DocumentCall, rows, ArchiveLoad, LoadDocument
  <2>4. ASSUME NEW q \in Calls, q # c PROVE Untouched(q)
    BY <1>a, <1>e, <1>12, <2>4 DEF TypeOK, RowsTypeOK, rows, ArchiveLoad, LoadDocument
  <2> QED
    BY <1>d, <2>1, <2>2, <2>3, <2>4
<1>13. ASSUME NEW c \in Calls, ArchiveCommit(c) PROVE CallsOK'
  <2>0. JobCall(c) /\ DocumentCall(c)
    BY <1>b
  <2>1. EventCall(c)'
    BY <1>a, <1>c, <1>13 DEF TypeOK, EventCall, ArchiveCommit, WriteDocument, DocIsFresh, Return
  <2>2. JobCall(c)'
    BY <1>a, <1>13, <2>0 DEF TypeOK, RowsTypeOK, JobCall, rows, ArchiveCommit, WriteDocument, DocIsFresh, Return
  <2>3. DocumentCall(c)'
    BY <1>a, <1>13, <2>0 DEF TypeOK, DocumentCall, rows, ArchiveCommit, WriteDocument, DocIsFresh, Return
  <2>4. ASSUME NEW q \in Calls, q # c PROVE Untouched(q)
    BY <1>a, <1>e, <1>13, <2>4 DEF TypeOK, RowsTypeOK, rows, ArchiveCommit, WriteDocument, DocIsFresh, Return
  <2> QED
    BY <1>d, <2>1, <2>2, <2>3, <2>4
<1>14. ASSUME NEW c \in Calls, NEW e \in owed, Handle(c, e) PROVE CallsOK'
  <2>0. JobCall(c) /\ DocumentCall(c)
    BY <1>b
  <2>1. EventCall(c)'
    BY <1>a, <1>c, <1>14 DEF TypeOK, EventCall, Handle, LoadDocument, callVars
  <2>2. JobCall(c)'
    BY <1>a, <1>14, <2>0 DEF TypeOK, RowsTypeOK, JobCall, rows, Handle, LoadDocument, callVars
  <2>3. DocumentCall(c)'
    BY <1>a, <1>14, <2>0 DEF TypeOK, DocumentCall, rows, Handle, LoadDocument, callVars
  <2>4. ASSUME NEW q \in Calls, q # c PROVE Untouched(q)
    BY <1>a, <1>e, <1>14, <2>4 DEF TypeOK, RowsTypeOK, rows, Handle, LoadDocument, callVars
  <2> QED
    BY <1>d, <2>1, <2>2, <2>3, <2>4
<1>15. ASSUME NEW c \in Calls, HandleCommit(c) PROVE CallsOK'
  <2>0. JobCall(c) /\ DocumentCall(c)
    BY <1>b
  <2>1. EventCall(c)'
    BY <1>a, <1>c, <1>15 DEF TypeOK, EventCall, HandleCommit, WriteDocument, DocIsFresh, Return
  <2>2. JobCall(c)'
    BY <1>a, <1>15, <2>0 DEF TypeOK, RowsTypeOK, JobCall, rows, HandleCommit, WriteDocument, DocIsFresh, Return
  <2>3. DocumentCall(c)'
    BY <1>a, <1>15, <2>0 DEF TypeOK, DocumentCall, rows, HandleCommit, WriteDocument, DocIsFresh, Return
  <2>4. ASSUME NEW q \in Calls, q # c PROVE Untouched(q)
    BY <1>a, <1>e, <1>15, <2>4 DEF TypeOK, RowsTypeOK, rows, HandleCommit, WriteDocument, DocIsFresh, Return
  <2> QED
    BY <1>d, <2>1, <2>2, <2>3, <2>4
<1>16. ASSUME NEW c \in Calls, CallFails(c) PROVE CallsOK'
  <2>0. JobCall(c) /\ DocumentCall(c)
    BY <1>b
  <2>1. EventCall(c)'
    BY <1>a, <1>c, <1>16 DEF TypeOK, EventCall, CallFails, Return
  <2>2. JobCall(c)'
    BY <1>a, <1>16, <2>0 DEF TypeOK, RowsTypeOK, JobCall, rows, CallFails, Return
  <2>3. DocumentCall(c)'
    BY <1>a, <1>16, <2>0 DEF TypeOK, DocumentCall, rows, CallFails, Return
  <2>4. ASSUME NEW q \in Calls, q # c PROVE Untouched(q)
    BY <1>a, <1>e, <1>16, <2>4 DEF TypeOK, RowsTypeOK, rows, CallFails, Return
  <2> QED
    BY <1>d, <2>1, <2>2, <2>3, <2>4
<1>17. CASE UNCHANGED vars
  BY <1>b, <1>17 DEF vars, rows, callVars, CallsOK, EventCall, Truthful, JobCall, DocumentCall
<1> QED
  BY <1>1, <1>2, <1>3, <1>4, <1>5, <1>6, <1>7, <1>8,
     <1>9, <1>10, <1>11, <1>12, <1>13, <1>14, <1>15, <1>16, <1>17 DEF Next, JobExpiry, Request

-----------------------------------------------------------------------------
(* Theorems.                                                               *)

(* The inductive invariant: what the rows hold and what every call in flight
   knows about them, in every reachable state. *)
THEOREM ProcessingInvariant == Spec => []IInv
<1>1. Init => IInv
  <2> SUFFICES ASSUME Init PROVE IInv
    OBVIOUS
  <2>1. RowsInv
    BY RowsInitially DEF Init
  <2>2. TypeOK
    BY <2>1 DEF Init, TypeOK, RowsInv, Stages
  <2>3. CallsOK
    BY DEF Init, CallsOK, EventCall, JobCall, DocumentCall
  <2> QED
    BY <2>1, <2>2, <2>3 DEF IInv
<1>2. IInv /\ [Next]_vars => IInv'
  <2> SUFFICES ASSUME IInv, [Next]_vars PROVE IInv'
    OBVIOUS
  <2>1. RowsInv'
    BY StepIsRowStep, RowStepPreserves DEF IInv
  <2> QED
    BY <2>1, CallTypesPreserved, CallsPreserved DEF IInv
<1> QED
  BY <1>1, <1>2, PTL DEF Spec

(* Rows, events and calls are well formed in every reachable state. *)
THEOREM ProcessingTypeCorrect == Spec => []TypeOK
<1>1. IInv => TypeOK
  BY DEF IInv
<1> QED
  BY <1>1, ProcessingInvariant, PTL

(* Optimistic concurrency makes the workflow's reads, decisions and writes
   atomic: the detailed specification implements ProcessingRows. *)
THEOREM ProcessingIsAtomic == Spec => RowsAreAtomic
<1>1. Init => RowsInit
  BY DEF Init
<1>2. IInv /\ [Next]_vars => [RowStep]_rows
  BY StepIsRowStep
<1> QED
  BY <1>1, <1>2, ProcessingInvariant, PTL DEF Spec, RowsAreAtomic, RowsSpec

(* Whatever transitions run, their rows can be read back (Job.restore,
   Document.restore, CHECK constraints). *)
THEOREM ProcessingRowsRestorable == Spec => []RowsRestorable
<1>1. IInv => RowsRestorable
  BY DEF IInv, RowsInv
<1> QED
  BY <1>1, ProcessingInvariant, PTL

(* Concurrent requests and transitions never leave two open jobs. *)
THEOREM ProcessingAtMostOneOpen == Spec => []AtMostOneOpen
<1>1. IInv => AtMostOneOpen
  BY DEF IInv, RowsInv
<1> QED
  BY <1>1, ProcessingInvariant, PTL

(* A processed document was processed by a job that succeeded. *)
THEOREM ProcessingMeansSucceeded == Spec => []ProcessedMeansSucceeded
<1>1. IInv => ProcessedMeansSucceeded
  BY DEF IInv, RowsInv
<1> QED
  BY <1>1, ProcessingInvariant, PTL

(* Succeeded and canceled jobs never change; a closed one is at most canceled. *)
THEOREM ProcessingFinishedJobIsFinal == Spec => FinishedJobIsFinal
<1> DEFINE Final == \A j \in Jobs :
      jobs[j] # NoJob =>
        /\ jobs[j].status \in {"succeeded", "canceled"} => jobs'[j] = jobs[j]
        /\ ~Open(jobs[j]) /\ jobs'[j] # jobs[j] => jobs'[j].status = "canceled"
<1>1. ASSUME IInv, [Next]_vars PROVE [Final]_rows
  <2>0. RowsInv /\ RowsTypeOK /\ [RowStep]_rows
    BY <1>1, StepIsRowStep DEF IInv, RowsInv
  <2>1. ASSUME NEW j \in Jobs, NEW a \in Actions, TransitionRow(j, a) PROVE Final
    <3>1. /\ jobs[j] \in Job /\ Allowed(a, jobs[j]) /\ jobs'[j] = Changed(a, jobs[j])
          /\ \A i \in Jobs : i # j => jobs'[i] = jobs[i]
      BY <2>0, <2>1 DEF TransitionRow, RowsTypeOK
    <3>2. /\ jobs[j].status \notin {"succeeded", "canceled"}
          /\ ~Open(jobs[j]) => jobs'[j].status = "canceled"
      BY <3>1, ChangedJobForward
    <3> QED
      BY <3>1, <3>2
  <2>2. ASSUME NEW j \in Jobs, NEW b \in Budgets, CreateRow(j, b) PROVE Final
    BY <2>0, <2>2 DEF CreateRow, RowsTypeOK
  <2>3. CASE jobs' = jobs
    BY <2>3
  <2> QED
    BY <2>0, <2>1, <2>2, <2>3 DEF RowStep, BeginRow, ArchiveRow, OutcomeRow, rows
<1> QED
  BY <1>1, ProcessingInvariant, PTL DEF Spec, FinishedJobIsFinal

(* An archived document stays as it is, a processed one can only be archived. *)
THEOREM ProcessingNeverReopens == Spec => DocumentNeverReopens
<1> DEFINE Closed ==
      /\ doc.status = "archived" => doc' = doc
      /\ doc.status = "processed" => doc'.status \in {"processed", "archived"}
<1>1. ASSUME IInv, [Next]_vars PROVE [Closed]_rows
  <2>0. doc \in Documents /\ RestorableDocument(doc) /\ [RowStep]_rows
    BY <1>1, StepIsRowStep DEF IInv, RowsInv, RowsTypeOK, RowsRestorable
  <2>1. ASSUME NEW j \in Jobs, BeginRow(j) PROVE Closed
    BY <2>1 DEF BeginRow, Processable
  <2>2. CASE ArchiveRow
    BY <2>0, <2>2, ArchivedDocument DEF ArchiveRow, CanArchive
  <2>3. ASSUME NEW e \in Events, OutcomeRow(e) PROVE Closed
    <3>1. doc' # doc => doc.status \in {"processing", "processing_failed"}
      BY <2>0, <2>3, InformedDocument DEF OutcomeRow
    <3> QED
      BY <3>1
  <2>4. CASE doc' = doc
    BY <2>4
  <2> QED
    BY <2>0, <2>1, <2>2, <2>3, <2>4 DEF RowStep, CreateRow, TransitionRow, rows
<1> QED
  BY <1>1, ProcessingInvariant, PTL DEF Spec, DocumentNeverReopens

(* The last outcome of the run a document waits on settles the document, in
   whatever order the outcomes were delivered. *)
THEOREM ProcessingClosingOutcomeSettles == Spec => ClosingOutcomeSettles
<1> DEFINE Settles == \A e \in owed \ owed' :
      Closing(e) => ~(doc'.status = "processing" /\ doc'.run = e.job)
<1>1. ASSUME IInv, [Next]_vars PROVE [Settles]_rows
  <2>0. RowsInv /\ [RowStep]_rows
    BY <1>1, StepIsRowStep DEF IInv
  <2>1. ASSUME NEW f \in Events, OutcomeRow(f) PROVE Settles
    <3> SUFFICES ASSUME NEW e \in owed \ owed', Closing(e),
                        doc'.status = "processing", doc'.run = e.job
                 PROVE  FALSE
      OBVIOUS
    <3>1. e = f /\ e \in Events /\ Truthful(e) /\ doc' = AfterEvent(doc, e)
      BY <2>1 DEF OutcomeRow
    <3>2. doc \in Documents /\ RestorableDocument(doc) /\ RunExists
      BY <2>0 DEF RowsInv, RowsTypeOK, RowsRestorable
    <3>3. e.type # "retried"
      BY <3>1 DEF Closing
    <3>4. jobs[e.job] \in Job /\ Restorable(jobs[e.job]) /\ e.job \in Jobs /\ e.job # NoRun
      BY <2>0, <3>1, RowsAssumption DEF RowsInv, RowsTypeOK, RowsRestorable, Events, Truthful
    <3>5. /\ jobs[e.job].attempts \in Nat /\ jobs[e.job].maxAttempts \in Nat
          /\ e.attempt \in Nat /\ doc.attempt \in Nat
      <4>1. jobs[e.job].attempts \in 0..10 /\ jobs[e.job].maxAttempts \in 1..10
        BY <3>4, BudgetsAssumption DEF Job
      <4>2. e.attempt \in 0..10
        BY <3>1 DEF Events
      <4>3. doc.attempt \in 0..10
        BY <3>2 DEF Documents
      <4> QED
        BY <4>1, <4>2, <4>3
    <3>6. e.attempt >= jobs[e.job].attempts
      <4>1. jobs[e.job].attempts <= jobs[e.job].maxAttempts
        BY <3>4 DEF Restorable
      <4> QED
        BY <3>1, <3>5, <4>1 DEF Closing, Truthful
    <3>7. CASE doc' = doc
      <4>1. doc.run = e.job
        BY <3>7
      <4>2. e.attempt >= doc.attempt
        BY <3>2, <3>4, <3>5, <3>6, <4>1 DEF RunExists
      <4> QED
        BY <3>1, <3>2, <3>3, <4>1, <4>2, InformedDocument
    <3>8. CASE doc' # doc
      <4>1. CASE doc.run = e.job
        <5>1. e.attempt >= doc.attempt
          BY <3>2, <3>4, <3>5, <3>6, <4>1 DEF RunExists
        <5> QED
          BY <3>1, <3>2, <3>3, <4>1, <5>1, InformedDocument
      <4>2. CASE doc.run # e.job
        <5>1. ~Stale(doc, e.job, e.attempt)
          BY <3>1, <3>8 DEF AfterEvent, ApplyOutcome
        <5>2. ResultOf(e) \in {"succeeded", "failed"}
          BY <3>1, <3>3 DEF ResultOf, Events, EventTypes
        <5> QED
          BY <3>1, <3>2, <5>1, <5>2, <4>2 DEF AfterEvent, ApplyOutcome, Stale, Documents
      <4> QED
        BY <4>1, <4>2
    <3> QED
      BY <3>7, <3>8
  <2>2. CASE owed \subseteq owed'
    BY <2>2
  <2> QED
    BY <2>0, <2>1, <2>2 DEF RowStep, CreateRow, TransitionRow, BeginRow, ArchiveRow, rows
<1> QED
  BY <1>1, ProcessingInvariant, PTL DEF Spec, ClosingOutcomeSettles

=============================================================================
