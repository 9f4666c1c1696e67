------------------------------ MODULE Envelope ------------------------------
(***************************************************************************)
(* How work travels: as JSON in an event's envelope, and as JSON in the    *)
(* row of an audit entry.  JSON leaves out what is undefined, so an object *)
(* is a function whose domain is the keys it has; reading a key that is    *)
(* not there gives None.  What does not decode is None.                    *)
(***************************************************************************)
EXTENDS Provenance

(* JSON.stringify. *)
Json(fields) == [k \in {f \in DOMAIN fields : fields[f] # None} |-> fields[k]]

Get(object, k) == IF k \in DOMAIN object THEN object[k] ELSE None

JsonOf(value) == IF value = None THEN None ELSE Json(value)

(* workOut, and the objects within it. *)
AttributionOut(a) ==
  Json([initiator |-> JsonOf(a.initiator), on_behalf_of |-> JsonOf(a.onBehalfOf),
        tenant |-> a.tenant])

ReplayOut(r) == Json([run_id |-> r.runId, source |-> Json(r.source)])

WorkOut(w) ==
  Json([work_id |-> w.workId, correlation_id |-> w.correlationId,
        correlation_source |-> w.correlationSource,
        attribution |-> AttributionOut(w.attribution),
        causation |-> JsonOf(w.causation), origin |-> w.origin, depth |-> w.depth,
        replay |-> IF w.replay = None THEN None ELSE ReplayOut(w.replay)])

WorkKeys == {"work_id", "correlation_id", "correlation_source", "attribution",
             "causation", "origin", "depth", "replay"}

WorkValues ==
  IDs \cup {"local", "external"} \cup Origins \cup Nat
    \cup {AttributionOut(a) : a \in Attributions}
    \cup {Json(f) : f \in References} \cup {ReplayOut(r) : r \in Runs}

(* No object is undefined. *)
ASSUME EnvelopeAssumption ==
  /\ \A value \in Actors \cup References : Json(value) # None
  /\ \A a \in Attributions : AttributionOut(a) # None
  /\ \A r \in Runs : ReplayOut(r) # None
  /\ \A keys \in SUBSET WorkKeys : None \notin [keys -> WorkValues]

(* actorIn, referenceIn: a value of the right shape, or none. *)
ActorIn(value) ==
  IF value = None THEN None
  ELSE [kind |-> Get(value, "kind"), identity |-> Get(value, "identity")]

ReferenceIn(value) ==
  IF value = None THEN None
  ELSE [kind |-> Get(value, "kind"), id |-> Get(value, "id")]

(* workIn: the snapshot that the object tells, if it restores. *)
Snapshot(object) ==
  LET who == object["attribution"]
      replay == Get(object, "replay")
  IN [workId |-> Get(object, "work_id"), correlationId |-> Get(object, "correlation_id"),
      correlationSource |-> Get(object, "correlation_source"),
      causation |-> ReferenceIn(Get(object, "causation")), origin |-> Get(object, "origin"),
      attribution |-> [initiator |-> ActorIn(Get(who, "initiator")),
                       onBehalfOf |-> ActorIn(Get(who, "on_behalf_of")),
                       tenant |-> Get(who, "tenant")],
      depth |-> Get(object, "depth"),
      replay |-> IF replay = None THEN None
                 ELSE [runId |-> Get(replay, "run_id"),
                       source |-> ReferenceIn(Get(replay, "source"))]]

WorkIn(object) ==
  IF DOMAIN object \subseteq WorkKeys /\ ValidateWork(Snapshot(object), FALSE)
  THEN Snapshot(object) ELSE None

(* Envelope.decode: envelopes may predate subject and tenant. *)
Decode(raw) ==
  IF /\ {"id", "work", "payload"} \subseteq DOMAIN raw
     /\ DOMAIN raw \subseteq {"id", "work", "payload", "subject", "tenant"}
     /\ raw["id"] \in IDs /\ WorkIn(raw["work"]) # None
  THEN [id |-> raw["id"], work |-> WorkIn(raw["work"]), payload |-> raw["payload"],
        subject |-> Get(raw, "subject"), tenant |-> Get(raw, "tenant")]
  ELSE None

(* Envelope.create encodes and decodes what it has encoded. *)
EnvelopeCreate(id, work, payload, subject, tenant) ==
  Decode(Json([id |-> id, work |-> WorkOut(work), payload |-> payload,
               subject |-> subject, tenant |-> tenant]))

(* assertEventWork: a writer stores only events of its own work. *)
AssertEventWork(event, work) == event.work = work

-----------------------------------------------------------------------------
(* The audit entry's row.                                                  *)

(* encodeWork: the same keys as in an envelope. *)
EncodeWork(w) == WorkOut(w)

(* decodeWork: as workIn, but other keys are ignored, the anonymous actor
   needs no identity and a replay must have its source. *)
DecodeWork(object) ==
  LET snapshot == Snapshot(object)
  IN IF /\ "attribution" \in DOMAIN object
        /\ snapshot.replay # None => snapshot.replay.source # None
        /\ ValidateWork(snapshot, FALSE)
     THEN snapshot ELSE None

(* AuditEntry.record, and the row it is stored as. *)
RecordEntry(id, event, recordedAt) ==
  [id |-> id, eventId |-> event.id, recordedAt |-> recordedAt, work |-> event.work,
   subject |-> event.subject, tenant |-> event.tenant]

EntryRow(entry) == [entry EXCEPT !.work = EncodeWork(@)]

(* entryFrom and AuditEntry.restore. *)
EntryFrom(row) ==
  IF DecodeWork(row.work) = None THEN None ELSE [row EXCEPT !.work = DecodeWork(@)]

=============================================================================
