-------------------------- MODULE DocumentProcessing ------------------------
(***************************************************************************)
(* The document-processing workflow for one document: requests that submit *)
(* a job and begin a run, members who transition or archive, the reaper of *)
(* stale jobs, and the consumer of job events that reports outcomes to the *)
(* document.                                                               *)
(*                                                                         *)
(* Any number of calls run concurrently, in any number of processes.       *)
(* Reading a row and writing it are separate steps; a write is refused     *)
(* when the row's version is no longer the one loaded.  Only that          *)
(* comparison uses the version, so the model keeps, in docFresh and        *)
(* jobFresh, the calls whose loaded version is still the stored one.       *)
(*                                                                         *)
(* Events go through the pipeline, of which only the promise of            *)
(* AtLeastOnce is used: an event is owed until its handler has succeeded,  *)
(* deliveries come in any order and may be repeated.                       *)
(***************************************************************************)
EXTENDS ProcessingRows

CONSTANTS
  Calls,     \* concurrent calls: requests, transitions, handlers
  NoDoc,     \* no loaded document
  NoEvent    \* no event in hand

VARIABLES
  pc,         \* where each call is
  on,         \* the job it works on
  action,     \* the job transition it is about to write
  event,      \* the event it is handling
  newJob,     \* the job it will write
  newDoc,     \* the document it will write
  jobFresh,   \* calls whose loaded version of the job is current
  docFresh    \* calls whose loaded version of the document is current

callVars == <<pc, on, action, event, newJob, newDoc>>
vars == <<rows, callVars, jobFresh, docFresh>>

Stages == {"idle", "find", "refind", "create", "retry", "begin", "beginning",
           "transition", "archiving", "applying"}

Init ==
  /\ RowsInit
  /\ pc = [c \in Calls |-> "idle"]
  /\ on = [c \in Calls |-> NoRun]
  /\ action = [c \in Calls |-> "none"]
  /\ event = [c \in Calls |-> NoEvent]
  /\ newJob = [c \in Calls |-> NoJob]
  /\ newDoc = [c \in Calls |-> NoDoc]
  /\ jobFresh = {} /\ docFresh = {}

-----------------------------------------------------------------------------
(* What every call does.                                                   *)

(* The call returns, with a result or with an error. *)
Return(c) ==
  /\ pc' = [pc EXCEPT ![c] = "idle"]
  /\ on' = [on EXCEPT ![c] = NoRun]
  /\ action' = [action EXCEPT ![c] = "none"]
  /\ event' = [event EXCEPT ![c] = NoEvent]
  /\ newJob' = [newJob EXCEPT ![c] = NoJob]
  /\ newDoc' = [newDoc EXCEPT ![c] = NoDoc]

(* It fails: a storage failure or an abort, a clock that moved backwards, a
   crash.  A commit whose answer is lost is the commit and then this step. *)
CallFails(c) ==
  /\ pc[c] # "idle"
  /\ Return(c)
  /\ jobFresh' = jobFresh \ {c}
  /\ docFresh' = docFresh \ {c}
  /\ UNCHANGED rows

(* Load job j, apply transition a and prepare to write the result. *)
LoadJob(c, j, a) ==
  /\ Allowed(a, jobs[j])
  /\ on' = [on EXCEPT ![c] = j]
  /\ action' = [action EXCEPT ![c] = a]
  /\ newJob' = [newJob EXCEPT ![c] = Changed(a, jobs[j])]
  /\ jobFresh' = jobFresh \cup {c}
  /\ UNCHANGED <<rows, event, newDoc, docFresh>>

(* PostgresJobWriter.commit, update: row and event in one transaction. *)
WriteJob(c) ==
  /\ jobs' = [jobs EXCEPT ![on[c]] = newJob[c]]
  /\ owed' = owed \cup EventsOf(action[c], on[c], newJob[c])
  /\ jobFresh' = {q \in jobFresh : on[q] # on[c]}
  /\ UNCHANGED <<doc, docFresh>>

(* Load the document and prepare to write d. *)
LoadDocument(c, d) ==
  /\ newDoc' = [newDoc EXCEPT ![c] = d]
  /\ docFresh' = docFresh \cup {c}
  /\ UNCHANGED <<rows, action, newJob, jobFresh>>

(* PostgresDocumentWriter.commit, update. *)
WriteDocument(c) ==
  /\ doc' = newDoc[c]
  /\ docFresh' = {}
  /\ UNCHANGED <<jobs, jobFresh>>

(* Seeded fault: the version of the job is not compared. *)
JobIsFreshAlways(c) == TRUE

(* WHERE version = $loaded. *)
JobIsFresh(c) == c \in jobFresh

(* Seeded fault: the version of the document is not compared. *)
DocIsFreshAlways(c) == TRUE

DocIsFresh(c) == c \in docFresh

-----------------------------------------------------------------------------
(* RequestDocumentProcessing: check, submit, begin.                        *)

(* The member is authorised and the document processable right now. *)
RequestStart(c) ==
  /\ pc[c] = "idle"
  /\ Processable(doc)
  /\ pc' = [pc EXCEPT ![c] = "find"]
  /\ UNCHANGED <<rows, on, action, event, newJob, newDoc, jobFresh, docFresh>>

(* SubmitWorkflowJob: an open job is reused as it is ... *)
SubmitReuse(c) ==
  /\ pc[c] \in {"find", "refind"}
  /\ \E j \in OpenJobs :
       /\ jobs[j].status # "failed"
       /\ on' = [on EXCEPT ![c] = j]
  /\ pc' = [pc EXCEPT ![c] = "begin"]
  /\ UNCHANGED <<rows, action, event, newJob, newDoc, jobFresh, docFresh>>

(* ... or queued for another attempt when it has failed. *)
SubmitRetry(c) ==
  /\ pc[c] \in {"find", "refind"}
  /\ \E j \in OpenJobs : jobs[j].status = "failed" /\ LoadJob(c, j, "retry")
  /\ pc' = [pc EXCEPT ![c] = "retry"]

(* There is none; after losing the race to create one that is an error. *)
SubmitNone(c) ==
  /\ pc[c] \in {"find", "refind"}
  /\ OpenJobs = {}
  /\ pc' = [pc EXCEPT ![c] = IF pc[c] = "find" THEN "create" ELSE "idle"]
  /\ UNCHANGED <<rows, on, action, event, newJob, newDoc, jobFresh, docFresh>>

(* The unique index n2f_jobs_jobs_open_subject refuses the insert. *)
SubjectTaken == OpenJobs # {}

SubmitCreate(c) ==
  /\ pc[c] = "create"
  /\ \/ /\ ~SubjectTaken
        /\ \E j \in Jobs, b \in Budgets :
             /\ <<j, b>> \in Asks
             /\ jobs[j] = NoJob
             /\ jobs' = [jobs EXCEPT ![j] = Create(b)]
             /\ on' = [on EXCEPT ![c] = j]
        /\ pc' = [pc EXCEPT ![c] = "begin"]
     \/ /\ SubjectTaken
        /\ pc' = [pc EXCEPT ![c] = "refind"]
        /\ UNCHANGED <<jobs, on>>
  /\ UNCHANGED <<doc, owed, action, event, newJob, newDoc, jobFresh, docFresh>>

(* The retry is written; a conflict (CallFails) ends the request instead. *)
SubmitRetryCommit(c) ==
  /\ pc[c] = "retry"
  /\ JobIsFresh(c)
  /\ WriteJob(c)
  /\ pc' = [pc EXCEPT ![c] = "begin"]
  /\ action' = [action EXCEPT ![c] = "none"]
  /\ newJob' = [newJob EXCEPT ![c] = NoJob]
  /\ UNCHANGED <<on, event, newDoc>>

(* BeginDocumentProcessing loads the document again.  Beginning the run it
   already waits on changes nothing and the request is done. *)
Begin(c) ==
  /\ pc[c] = "begin"
  /\ Processable(doc)
  /\ LET begun == BeginProcessing(doc, on[c]) IN
     \/ begun = doc /\ Return(c) /\ UNCHANGED <<rows, jobFresh, docFresh>>
     \/ /\ begun # doc
        /\ LoadDocument(c, begun)
        /\ pc' = [pc EXCEPT ![c] = "beginning"]
        /\ UNCHANGED <<on, event>>

BeginCommit(c) ==
  /\ pc[c] = "beginning"
  /\ DocIsFresh(c)
  /\ WriteDocument(c)
  /\ Return(c)
  /\ UNCHANGED owed

Request(c) ==
  \/ RequestStart(c)
  \/ SubmitReuse(c)
  \/ SubmitRetry(c)
  \/ SubmitNone(c)
  \/ SubmitCreate(c)
  \/ SubmitRetryCommit(c)
  \/ Begin(c)
  \/ BeginCommit(c)

-----------------------------------------------------------------------------
(* Job transitions.                                                        *)

(* TransitionJob: a member loads a job and applies one transition. *)
Transition(c, j, a) ==
  /\ pc[c] = "idle"
  /\ jobs[j] # NoJob
  /\ LoadJob(c, j, a)
  /\ pc' = [pc EXCEPT ![c] = "transition"]

(* listRunningStartedBefore: a job has been running for too long, which the
   model allows at any time. *)
Overdue(j) == jobs[j] # NoJob /\ jobs[j].status = "running"

(* ExpireStaleJobs fails such a job. *)
Expire(c, j) ==
  /\ pc[c] = "idle"
  /\ Overdue(j)
  /\ LoadJob(c, j, "fail")
  /\ pc' = [pc EXCEPT ![c] = "transition"]

(* The periodic sweep. *)
JobExpiry(c) == \E j \in Jobs : Expire(c, j)

TransitionCommit(c) ==
  /\ pc[c] = "transition"
  /\ JobIsFresh(c)
  /\ WriteJob(c)
  /\ Return(c)

-----------------------------------------------------------------------------
(* The document.                                                           *)

ArchiveLoad(c) ==
  /\ pc[c] = "idle"
  /\ CanArchive(doc)
  /\ LoadDocument(c, Archive(doc))
  /\ pc' = [pc EXCEPT ![c] = "archiving"]
  /\ UNCHANGED <<on, event>>

ArchiveCommit(c) ==
  /\ pc[c] = "archiving"
  /\ DocIsFresh(c)
  /\ WriteDocument(c)
  /\ Return(c)
  /\ UNCHANGED owed

(* The handler returned ok.  The delivery is over, unless the loop lost its
   lease or died before it could record that. *)
Handled(e) == owed' \in {owed, owed \ {e}}

(* The document-processing consumer gets an event; an outcome that leaves the
   document unchanged is handled at once. *)
Handle(c, e) ==
  /\ pc[c] = "idle"
  /\ e \in owed
  /\ LET after == AfterEvent(doc, e) IN
     \/ /\ after = doc
        /\ Handled(e)
        /\ UNCHANGED <<doc, jobs, callVars, jobFresh, docFresh>>
     \/ /\ after # doc
        /\ LoadDocument(c, after)
        /\ event' = [event EXCEPT ![c] = e]
        /\ pc' = [pc EXCEPT ![c] = "applying"]
        /\ UNCHANGED on

(* The outcome is written; after a conflict the event is delivered again. *)
HandleCommit(c) ==
  /\ pc[c] = "applying"
  /\ DocIsFresh(c)
  /\ WriteDocument(c)
  /\ Handled(event[c])
  /\ Return(c)

-----------------------------------------------------------------------------
Next ==
  \E c \in Calls :
    \/ Request(c)
    \/ \E j \in Jobs, a \in Actions : Transition(c, j, a)
    \/ JobExpiry(c)
    \/ TransitionCommit(c)
    \/ ArchiveLoad(c)
    \/ ArchiveCommit(c)
    \/ \E e \in owed : Handle(c, e)
    \/ HandleCommit(c)
    \/ CallFails(c)

Spec == Init /\ [][Next]_vars

-----------------------------------------------------------------------------
(* Properties.                                                             *)

(* Rows, events and calls are well formed. *)
TypeOK ==
  /\ RowsTypeOK
  /\ pc \in [Calls -> Stages]
  /\ on \in [Calls -> Jobs \cup {NoRun}]
  /\ action \in [Calls -> Actions \cup {"none"}]
  /\ event \in [Calls -> Events \cup {NoEvent}]
  /\ newJob \in [Calls -> Job \cup {NoJob}]
  /\ newDoc \in [Calls -> Documents \cup {NoDoc}]
  /\ jobFresh \in SUBSET Calls
  /\ docFresh \in SUBSET Calls

(* Loading, deciding and writing in separate steps is as good as one atomic
   step: every row change is one transition of the aggregate as it is stored
   at that moment, because a write from a stale load is refused. *)
RowsAreAtomic == RowsSpec

-----------------------------------------------------------------------------
(* The inductive invariant behind these properties.                        *)

(* The event a handler is about to apply is true of its job. *)
EventCall(c) ==
  pc[c] = "applying" => event[c] \in Events /\ Truthful(event[c])

(* A call about to write a job, or to begin its run, has an existing one in
   hand; while its version is current the new row is one allowed transition
   away from the stored one. *)
JobCall(c) ==
  /\ pc[c] \in {"retry", "transition", "begin", "beginning"} =>
       on[c] \in Jobs /\ jobs[on[c]] # NoJob
  /\ c \in jobFresh =>
       /\ pc[c] \in {"retry", "transition"}
       /\ action[c] \in Actions
       /\ Allowed(action[c], jobs[on[c]])
       /\ newJob[c] = Changed(action[c], jobs[on[c]])

(* The same for calls about to write the document. *)
DocumentCall(c) ==
  c \in docFresh =>
    \/ /\ pc[c] = "beginning"
       /\ Processable(doc) /\ newDoc[c] = BeginProcessing(doc, on[c])
    \/ /\ pc[c] = "archiving"
       /\ CanArchive(doc) /\ newDoc[c] = Archive(doc)
    \/ /\ pc[c] = "applying"
       /\ newDoc[c] = AfterEvent(doc, event[c])

CallsOK == \A c \in Calls : EventCall(c) /\ JobCall(c) /\ DocumentCall(c)

IInv == RowsInv /\ TypeOK /\ CallsOK

-----------------------------------------------------------------------------
(* What the repository's documents claim and the code does not do.         *)

Quiet == owed = {} /\ \A c \in Calls : pc[c] = "idle"

(* "Workflows always settle": when no event is owed and no call is running, a
   document that is processing waits on a job that still has work ahead. *)
ProcessingWaitsOnOpenJob ==
  Quiet /\ doc.status = "processing" /\ doc.run # NoRun => doc.run \in OpenJobs

=============================================================================
