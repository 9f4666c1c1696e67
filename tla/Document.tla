------------------------------ MODULE Document ------------------------------
(***************************************************************************)
(* The document aggregate of modules/document/domain/document.ts, with the *)
(* processing run it waits on and the latest attempt of that run it knows. *)
(* failed: processing_failure_code is not NULL; archivedAt likewise.       *)
(***************************************************************************)
EXTENDS Naturals

CONSTANT NoRun   \* NULL in processing_run

DocumentStatuses ==
  {"active", "processing", "processed", "processing_failed", "archived"}

(* Document.create; it has no processing run. *)
NewDocument ==
  [status |-> "active", run |-> NoRun, attempt |-> 0,
   failed |-> FALSE, archivedAt |-> FALSE]

(* A document that was processing before runs were recorded. *)
LegacyDocument == [NewDocument EXCEPT !.status = "processing"]

CanArchive(doc) == doc.status # "archived"
Archive(doc) == [doc EXCEPT !.status = "archived", !.archivedAt = TRUE]

(* CheckDocumentProcessable, and the refusals of beginProcessing. *)
Processable(doc) == doc.status \notin {"archived", "processed"}

(* beginProcessing on a processable document; the same run again is a no-op. *)
BeginProcessing(doc, run) ==
  IF doc.status = "processing" /\ doc.run = run
  THEN doc
  ELSE [doc EXCEPT !.status = "processing", !.failed = FALSE,
                   !.run = run, !.attempt = 0]

(* Seeded fault: an outcome of the current attempt counts as old. *)
StaleUpToCurrent(doc, run, attempt) ==
  \/ doc.status \in {"archived", "active", "processed"}
  \/ doc.run # run /\ ~(doc.run = NoRun /\ doc.status = "processing")
  \/ attempt <= doc.attempt

(* An outcome of another run, of an older attempt or for a document that is
   not waiting is stale.  A legacy document adopts the first run that
   reports. *)
Stale(doc, run, attempt) ==
  \/ doc.status \in {"archived", "active", "processed"}
  \/ doc.run # run /\ ~(doc.run = NoRun /\ doc.status = "processing")
  \/ attempt < doc.attempt

Results == {"retrying", "succeeded", "failed"}

(* applyProcessingOutcome. *)
ApplyOutcome(doc, run, attempt, result) ==
  LET base == [doc EXCEPT !.run = run, !.attempt = attempt] IN
  CASE Stale(doc, run, attempt) -> doc
    [] ~Stale(doc, run, attempt) /\ result = "succeeded" ->
         [base EXCEPT !.status = "processed", !.failed = FALSE]
    [] ~Stale(doc, run, attempt) /\ result = "retrying" ->
         IF doc.status = "processing"
         THEN IF attempt = doc.attempt THEN doc ELSE base
         ELSE [base EXCEPT !.status = "processing", !.failed = FALSE]
    [] ~Stale(doc, run, attempt) /\ result = "failed" ->
         IF doc.status = "processing_failed" /\ attempt = doc.attempt
         THEN doc
         ELSE [base EXCEPT !.status = "processing_failed", !.failed = TRUE]

(* Document.restore and the table's processing_state CHECK. *)
RestorableDocument(doc) ==
  /\ doc.status \in {"active", "processing", "processed"} =>
       ~doc.archivedAt /\ ~doc.failed
  /\ doc.status = "processing_failed" => ~doc.archivedAt /\ doc.failed
  /\ doc.status = "archived" => doc.archivedAt

=============================================================================
