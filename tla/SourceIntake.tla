----------------------------- MODULE SourceIntake -----------------------------
(***************************************************************************)
(* POST /v1/sources (uploadSource) and the conversion handler of the       *)
(* worker, over one object store and the table ivory_sources.  An upload   *)
(* is admitted, its bytes are stored under their hash, and then a record   *)
(* is made for that hash, if it has none; the policy of egress reads what  *)
(* the admission said of transfers from that record.  A conversion reads the source,  *)
(* has Docling convert it, and stores the artifact under the hash of the   *)
(* source and the parser version its job names.                            *)
(*                                                                         *)
(* A content stands for its hash.  A client that got no answer sends its   *)
(* upload again; the queue runs a handler again that failed or died.       *)
(***************************************************************************)
EXTENDS Naturals, ObjectStore, Environment, ContentPolicy

CONSTANTS Content,        \* what is uploaded
          Upload,         \* the clients that upload
          Metadata,       \* what they may say of it in their headers
          Topology,       \* IVORY_DEPLOYMENT_TOPOLOGY
          Conversion,     \* conversion jobs
          ParserVersion,  \* what a job may name
          Release,        \* releases of Docling that may answer
          MaxSends,       \* bound on the requests of a client
          MaxRuns         \* bound on the runs of a handler

SourceKey(h) == <<"sources", h>>
ArtifactKey(h, v) == <<"conversions", h, v>>

\* The headers of an upload; none of them states a rights basis.
Headers == [contentType  : {"supported", "unsupported"},
            contentClass : ContentClass,
            route        : AcquisitionRoute,
            itemLicence  : {"confirmed", "unconfirmed"}]

SourceId == Upload \X (1 .. MaxSends)  \* ids.next(): drawn anew by each request

\* A row of ivory_sources: transfer is what the gate of its admission said.
SourceRecord == [id : SourceId, transfer : Gate]

Markdown == (Content \cup {Partial}) \X Release

ASSUME IntakeAssumption ==
    /\ Caller = Upload \cup Conversion
    /\ Upload \cap Conversion = {}
    /\ ObjectKey = {SourceKey(h) : h \in Content}
                   \cup {ArtifactKey(h, v) : h \in Content, v \in ParserVersion}
    /\ Bytes = Content \cup Markdown
    /\ Content \cap Markdown = {}
    /\ Metadata \subseteq Headers
    /\ Topology \in DeploymentTopology
    /\ None \notin SourceRecord
    /\ MaxSends \in Nat /\ MaxRuns \in Nat

VARIABLES records,     \* ivory_sources: the record of each content_hash
          upload,      \* the request of each client
          conversion,  \* the handler call of each job
          granted      \* the contents whose transfer was authorized

vars == <<backend, objects, put, records, upload, conversion, granted, faults>>

(***************************************************************************)
(* An upload:      idle      not sent                                      *)
(*                 admit     awaiting the admission policy                 *)
(*                 put       awaiting putImmutable                         *)
(*                 answered  201, with id                                  *)
(*                 denied    422                                           *)
(*                 failed    500, or no answer                             *)
(***************************************************************************)
UploadRequest == [pc       : {"idle", "admit", "put", "answered", "denied", "failed"},
                  content  : Content,
                  metadata : Metadata,
                  id       : SourceId \cup {None},
                  sends    : 0 .. MaxSends]

(***************************************************************************)
(* A conversion:   idle      awaiting a delivery                           *)
(*                 load      before get                                    *)
(*                 convert   awaiting Docling                              *)
(*                 put       awaiting putImmutable                         *)
(*                 done      the handler returned                          *)
(*                 failed    it threw                                      *)
(***************************************************************************)
ConversionJob == [pc      : {"idle", "load", "convert", "put", "done", "failed"},
                  source  : Content,
                  version : ParserVersion,
                  loaded  : Content \cup {Partial, None},
                  runs    : 0 .. MaxRuns]

TypeOK == /\ ObjectsTypeOK
          /\ records \in [Content -> SourceRecord \cup {None}]
          /\ upload \in [Upload -> UploadRequest]
          /\ conversion \in [Conversion -> ConversionJob]
          /\ granted \subseteq Content
          /\ EnvironmentTypeOK

Init == /\ ObjectsInit
        /\ records = [h \in Content |-> None]
        /\ upload \in [Upload -> [pc : {"idle"}, content : Content, metadata : Metadata,
                                  id : {None}, sends : {0}]]
        /\ conversion \in [Conversion -> [pc : {"idle"}, source : Content,
                                          version : ParserVersion, loaded : {None},
                                          runs : {0}]]
        /\ granted = {}
        /\ EnvironmentInit

-----------------------------------------------------------------------------
\* uploadSource

Uploading(u, pc) == upload' = [upload EXCEPT ![u].pc = pc]

Hash(u) == upload[u].content

\* ContentRightsAdmissionPolicy.admit
Admission(m) ==
    IF m.contentType = "supported"
    THEN DecideAdmission([contentClass |-> m.contentClass, topology |-> Topology,
                          route |-> m.route, basis |-> NoBasis,
                          itemLicence |-> m.itemLicence])
    ELSE Decision(Refuse, Refuse)

Allowed(u) == Admission(upload[u].metadata).ingest.permitted

Send(u) == /\ upload[u].pc \in {"idle", "failed"}
           /\ upload[u].sends < MaxSends
           /\ upload' = [upload EXCEPT ![u] = [@ EXCEPT !.pc = "admit",
                                                        !.sends = upload[u].sends + 1]]
           /\ UNCHANGED <<backend, objects, put, records, conversion, granted, faults>>

\* Regression: the bytes are stored before the policy is asked.
AdmitLate(u) == /\ upload[u].pc = "admit"
                /\ Uploading(u, IF Allowed(u) THEN "put" ELSE "denied")
                /\ PutImmutable(u, SourceKey(Hash(u)), Hash(u))
                /\ UNCHANGED <<records, conversion, granted, faults>>

\* A refused source is answered 422 before anything is stored.
Admit(u) == /\ upload[u].pc = "admit"
            /\ \/ /\ Allowed(u)
                  /\ PutImmutable(u, SourceKey(Hash(u)), Hash(u))
                  /\ Uploading(u, "put")
               \/ /\ ~Allowed(u)
                  /\ Uploading(u, "denied")
                  /\ UNCHANGED objectVars
            /\ UNCHANGED <<records, conversion, granted, faults>>

\* putImmutable threw: 500.
PutFails(u) == /\ upload[u].pc = "put"
               /\ put[u].pc \in {"refused", "failed"}
               /\ Uploading(u, "failed")
               /\ UNCHANGED <<backend, objects, put, records, conversion, granted, faults>>

OwnId(u) == <<u, upload[u].sends>>

Held(u) == records[Hash(u)]

\* The record that a request would have of its own.
OwnRecord(u) == [id |-> OwnId(u), transfer |-> Admission(upload[u].metadata).transfer]

\* Regression: ON CONFLICT (content_hash) DO UPDATE SET id = EXCLUDED.id.
UpsertReplacing(u) == records' = [records EXCEPT ![Hash(u)] = OwnRecord(u)]

\* Regression: ON CONFLICT (content_hash) DO UPDATE SET transfer_permitted.
UpsertRights(u) ==
    records' = [records EXCEPT ![Hash(u)] =
                  IF @ = None THEN OwnRecord(u)
                  ELSE [@ EXCEPT !.transfer = OwnRecord(u).transfer]]

\* INSERT ... ON CONFLICT (content_hash): the record that is there is kept.
Upsert(u) == records' = [records EXCEPT ![Hash(u)] = IF @ = None THEN OwnRecord(u) ELSE @]

\* Regression: ON CONFLICT DO NOTHING returns no row, and persistSource throws.
PersistSourceOnce(u) ==
    /\ upload[u].pc = "put"
    /\ put[u].pc = "stored"
    /\ Upsert(u)
    /\ upload' = [upload EXCEPT ![u] =
                    [@ EXCEPT !.pc = IF Held(u) = None THEN "answered" ELSE "failed",
                              !.id = IF Held(u) = None THEN OwnId(u) ELSE None]]
    /\ UNCHANGED <<backend, objects, put, conversion, granted, faults>>

\* persistSource, and 201 with the id it returned.
PersistSource(u) ==
    /\ upload[u].pc = "put"
    /\ put[u].pc = "stored"
    /\ Upsert(u)
    /\ upload' = [upload EXCEPT ![u] = [@ EXCEPT !.pc = "answered",
                                                 !.id = records'[Hash(u)].id]]
    /\ UNCHANGED <<backend, objects, put, conversion, granted, faults>>

\* persistSource throws, before its commit or after it.
DatabaseThrows(u) == /\ upload[u].pc = "put"
                     /\ put[u].pc = "stored"
                     /\ Fault("database")
                     /\ Upsert(u) \/ UNCHANGED records
                     /\ Uploading(u, "failed")
                     /\ UNCHANGED <<backend, objects, put, conversion, granted>>

\* The API process dies; its client sees the connection close.
ApiStops(u) == /\ upload[u].pc \in {"admit", "put"}
               /\ Fault("api")
               /\ Stop(u)
               /\ Uploading(u, "failed")
               /\ UNCHANGED <<records, conversion, granted>>

-----------------------------------------------------------------------------
\* Egress

\* ContentAwareAllowlistedEgressPolicy.authorize, for a target that is allowlisted,
\* permits a transfer on the word of the record.  (Refusing one changes nothing.)
Authorize(h) == /\ records[h] # None
                /\ records[h].transfer.permitted
                /\ granted' = granted \cup {h}
                /\ UNCHANGED <<backend, objects, put, records, upload, conversion, faults>>

-----------------------------------------------------------------------------
\* The conversion handler

Converting(j, pc) == conversion' = [conversion EXCEPT ![j].pc = pc]

\* The queue delivers the job, again if the handler failed.
Run(j) == /\ conversion[j].pc \in {"idle", "failed"}
          /\ conversion[j].runs < MaxRuns
          /\ conversion' = [conversion EXCEPT ![j] =
                              [@ EXCEPT !.pc = "load", !.runs = conversion[j].runs + 1]]
          /\ UNCHANGED <<backend, objects, put, records, upload, granted, faults>>

\* Regression: get answers a missing key with nothing.
LoadAnything(j) ==
    /\ conversion[j].pc = "load"
    /\ conversion' = [conversion EXCEPT ![j] =
                        [@ EXCEPT !.pc = "convert",
                                  !.loaded = objects[SourceKey(conversion[j].source)]]]
    /\ UNCHANGED <<backend, objects, put, records, upload, granted, faults>>

\* objectStore.get: no such key, or what is there, which may be a part of a file
\* that is being written.
Load(j) ==
    LET found == objects[SourceKey(conversion[j].source)]
    IN  /\ conversion[j].pc = "load"
        /\ \/ /\ found = None
              /\ Converting(j, "failed")
           \/ /\ found # None
              /\ conversion' = [conversion EXCEPT ![j] = [@ EXCEPT !.pc = "convert",
                                                                   !.loaded = found]]
        /\ UNCHANGED <<backend, objects, put, records, upload, granted, faults>>

Artifact(j) == ArtifactKey(conversion[j].source, conversion[j].version)

\* Docling converts what was loaded, or fails.
Convert(j) ==
    /\ conversion[j].pc = "convert"
    /\ \/ \E r \in Release : PutImmutable(j, Artifact(j), <<conversion[j].loaded, r>>)
          /\ Converting(j, "put")
       \/ Converting(j, "failed") /\ UNCHANGED objectVars
    /\ UNCHANGED <<records, upload, granted, faults>>

Finish(j) == /\ conversion[j].pc = "put"
             /\ put[j].pc \in {"stored", "refused", "failed"}
             /\ Converting(j, IF put[j].pc = "stored" THEN "done" ELSE "failed")
             /\ UNCHANGED <<backend, objects, put, records, upload, granted, faults>>

\* The worker dies, perhaps before it could record that the handler returned.
WorkerStops(j) == /\ conversion[j].pc \in {"load", "convert", "put", "done"}
                  /\ Fault("crash")
                  /\ Stop(j)
                  /\ Converting(j, "idle")
                  /\ UNCHANGED <<records, upload, granted>>

-----------------------------------------------------------------------------

\* A call of putImmutable that a request or a handler awaits goes on.
Storing(c) == PutStep(c) /\ UNCHANGED <<records, upload, conversion, granted, faults>>

StoreThrows(c) == /\ Fault("store")
                  /\ Throw(c)
                  /\ UNCHANGED <<records, upload, conversion, granted>>

Serve(u) == Admit(u) \/ Storing(u) \/ PutFails(u) \/ PersistSource(u)

Handle(j) == Load(j) \/ Convert(j) \/ Storing(j) \/ Finish(j)

Next == \/ \E u \in Upload : Send(u) \/ Serve(u) \/ DatabaseThrows(u) \/ ApiStops(u)
        \/ \E j \in Conversion : Run(j) \/ Handle(j) \/ WorkerStops(j)
        \/ \E c \in Caller : StoreThrows(c)
        \/ \E h \in Content : Authorize(h)

Spec == Init /\ [][Next]_vars

(***************************************************************************)
(* Fairness.  What a request awaits is answered, and a client that got no  *)
(* answer sends its upload again.                                          *)
(***************************************************************************)
FairSpec == Spec /\ \A u \in Upload : WF_vars(Serve(u)) /\ WF_vars(Send(u))

-----------------------------------------------------------------------------

\* A record names bytes that are there, all of them, whatever crashed or raced
\* between the two stores.
RecordedIsStored ==
    \A h \in Content : records[h] # None => objects[SourceKey(h)] = h

\* Every client that uploaded a content is told the same source.
OneSource == \A u \in Upload : upload[u].pc = "answered" => upload[u].id = Held(u).id

\* A transfer is authorized on the admission of one upload, the one whose id its
\* record carries, and that admission permitted it: of several admissions of the
\* same bytes no later one lends its rights to the first, or takes them away.
GrantsRestOnOneAdmission ==
    \A h \in granted :
        \E u \in Upload, n \in 1 .. MaxSends :
            LET transfer == Admission(upload[u].metadata).transfer
            IN  /\ Hash(u) = h
                /\ transfer.permitted
                /\ records[h] = [id |-> <<u, n>>, transfer |-> transfer]

\* Bytes are stored on behalf of a request that was admitted.
OnlyAdmitted ==
    [][\A h \in Content : objects[SourceKey(h)] = None /\ objects'[SourceKey(h)] # None
          => \E u \in Upload : Hash(u) = h /\ Allowed(u) /\ upload[u].pc = "put"]_vars

\* ADR-002: "Retry idempotent writes by content hash", and "a filesystem object-store
\* adapter with the same immutable contract".  Of racing uploads of one content none
\* fails, unless something else does.
NoneRefused == \A u \in Upload : upload[u].pc = "failed" => faults > 0

\* On S3, where the loser of a race is told 412, that is so.
RaceIsHarmless == backend = "s3" => NoneRefused

\* A handler returns only when the artifact it would name is stored as it made it.
DoneIsStored == \A j \in Conversion : conversion[j].pc = "done" =>
                    objects[Artifact(j)] = put[j].bytes

\* A client that sends its upload until it has an answer gets one.
UploadsEnd == \A u \in Upload :
                 (backend = "s3" /\ upload[u].pc = "admit")
                 ~> upload[u].pc \in {"answered", "denied"}
=============================================================================
