-------------------------------- MODULE Job ---------------------------------
(***************************************************************************)
(* The job aggregate of modules/jobs/domain/job.ts.  A job is a value; its *)
(* nullable columns started_at, finished_at and failure_code are kept as   *)
(* flags (TRUE: not NULL), dates are left out.                             *)
(***************************************************************************)
EXTENDS Naturals

CONSTANT Budgets   \* values of maxAttempts a request may ask for

ASSUME BudgetsAssumption == Budgets \subseteq 1..10

JobStatuses == {"queued", "running", "succeeded", "failed", "canceled"}

Job == [status : JobStatuses, attempts : 0..10, maxAttempts : Budgets,
        started : BOOLEAN, finished : BOOLEAN, failed : BOOLEAN]

(* Job.create. *)
Create(budget) ==
  [status |-> "queued", attempts |-> 0, maxAttempts |-> budget,
   started |-> FALSE, finished |-> FALSE, failed |-> FALSE]

(* Queued, running, or failed with attempts left: work is still ahead. *)
Open(job) ==
  \/ job.status \in {"queued", "running"}
  \/ job.status = "failed" /\ job.attempts < job.maxAttempts

Actions == {"start", "complete", "fail", "retry", "cancel"}

(* The transitions the aggregate accepts ... *)
Allowed(action, job) ==
  \/ action = "start" /\ job.status = "queued" /\ job.attempts < job.maxAttempts
  \/ action \in {"complete", "fail"} /\ job.status = "running"
  \/ action = "retry" /\ job.status = "failed" /\ job.attempts < job.maxAttempts
  \/ action = "cancel" /\ job.status \notin {"succeeded", "canceled"}

Start(job) ==
  [job EXCEPT !.status = "running", !.attempts = job.attempts + 1,
              !.started = TRUE, !.finished = FALSE, !.failed = FALSE]

Complete(job) == [job EXCEPT !.status = "succeeded", !.finished = TRUE]

Fail(job) == [job EXCEPT !.status = "failed", !.finished = TRUE, !.failed = TRUE]

Retry(job) ==
  [job EXCEPT !.status = "queued",
              !.started = FALSE, !.finished = FALSE, !.failed = FALSE]

Cancel(job) ==
  [job EXCEPT !.status = "canceled", !.finished = TRUE, !.failed = FALSE]

(* ... and what each makes of the job (transition in transition-job.ts). *)
Changed(action, job) ==
  CASE action = "start" -> Start(job)
    [] action = "complete" -> Complete(job)
    [] action = "fail" -> Fail(job)
    [] action = "retry" -> Retry(job)
    [] action = "cancel" -> Cancel(job)

(* Job.restore and the table's CHECK constraints: a row that fails this can
   be neither written nor read back. *)
Restorable(job) ==
  /\ job.attempts <= job.maxAttempts
  /\ job.status = "queued" => ~job.started /\ ~job.finished /\ ~job.failed
  /\ job.status = "running" =>
       job.started /\ ~job.finished /\ ~job.failed /\ job.attempts >= 1
  /\ job.status = "succeeded" => job.started /\ job.finished /\ ~job.failed
  /\ job.status = "failed" => job.started /\ job.finished /\ job.failed
  /\ job.status = "canceled" => job.finished

=============================================================================
