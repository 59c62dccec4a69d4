---------------------------- MODULE IngestService ----------------------------
(***************************************************************************)
(* ingest-service: the handlers of DocServiceImpl that change a document.  *)
(* Each handler runs in one database transaction of an HTTP request        *)
(* thread.  A handler is split where another thread, the pipeline or a     *)
(* crash can come between its steps: after the row is read, after the      *)
(* Kafka send, after the MinIO call.                                       *)
(***************************************************************************)
EXTENDS KnowledgeTables

CONSTANTS
    Request,     \* request threads
    NoDoc,       \* the document of an idle thread
    SmartParse,  \* documents whose knowledge space has smart_parse_enabled
    Uploads      \* what clients put into MinIO

ASSUME SmartParseAssumption == SmartParse \subseteq Doc
ASSUME NoDocAssumption      == NoDoc \notin Doc
ASSUME UploadsAssumption    == Uploads \subseteq Content \ {"none"}

VARIABLES
    reqPc,    \* what each request thread is about to do
    reqDoc,   \* the document of the request
    reqSeen   \* status of the entity in the request's persistence context

requestVars == <<reqPc, reqDoc, reqSeen>>

ReqPc == {"idle", "commit", "ingest", "sent", "delete", "retry"}

RequestTypeOK ==
    /\ reqPc \in [Request -> ReqPc]
    /\ reqDoc \in [Request -> Doc \union {NoDoc}]
    /\ reqSeen \in [Request -> DocStatus]
    /\ \A r \in Request : reqPc[r] # "idle" => reqDoc[r] \in Doc

RequestInit ==
    /\ reqPc = [r \in Request |-> "idle"]
    /\ reqDoc = [r \in Request |-> NoDoc]
    /\ reqSeen = [r \in Request |-> "ABSENT"]

\* findDocOrThrow: the row must exist; its status enters the persistence context.
FindDoc(r, d, pc) ==
    /\ reqPc[r] = "idle"
    /\ HasRow(d)
    /\ reqPc' = [reqPc EXCEPT ![r] = pc]
    /\ reqDoc' = [reqDoc EXCEPT ![r] = d]
    /\ reqSeen' = [reqSeen EXCEPT ![r] = docStatus[d]]

EndRequest(r) ==
    /\ reqPc' = [reqPc EXCEPT ![r] = "idle"]
    /\ reqDoc' = [reqDoc EXCEPT ![r] = NoDoc]
    /\ reqSeen' = [reqSeen EXCEPT ![r] = "ABSENT"]

-----------------------------------------------------------------------------
(* Upload: init-upload, the PUT to MinIO, verify-upload.                   *)

\* The duplicate check compares create_time with the current time, which no
\* stored row has, so it never refuses; docId is a fresh random one.
InitUpload(d) ==
    /\ docStatus[d] = "ABSENT"
    /\ docStatus' = [docStatus EXCEPT ![d] = "DRAFT"]
    /\ UNCHANGED <<verified, versionStatus, object, results, task, searchIdx,
                   milvus, locks, fileIngest, embedTopic, faults, requestVars>>

\* The presigned URL (or uploadFile) accepts any content, in any status.
PutObject(d, content) ==
    /\ docStatus[d] # "ABSENT"
    /\ object' = [object EXCEPT ![d] = content]
    /\ UNCHANGED <<docStatus, verified, versionStatus, results, task, searchIdx,
                   milvus, locks, fileIngest, embedTopic, faults, requestVars>>

\* verifyObject compares the size only.
SizeMatches(d) == object[d] \in {"declared", "sameSize"}

VerifyUpload(d) ==
    /\ docStatus[d] = "DRAFT"
    /\ SizeMatches(d)
    /\ Free(DocRow(d))
    /\ verified' = verified \union {d}
    /\ UNCHANGED <<docStatus, versionStatus, object, results, task, searchIdx,
                   milvus, locks, fileIngest, embedTopic, faults, requestVars>>

-----------------------------------------------------------------------------
(* commit                                                                  *)

CommitRead(r, d) ==
    /\ docStatus[d] = "DRAFT"
    /\ d \in verified
    /\ FindDoc(r, d, "commit")
    /\ UNCHANGED tables

\* Without the unique index on knowledge_version.
NoUniqueVersion(d) == TRUE

\* knowledge_version has one row per document and version: the insert of a
\* second commit fails and rolls its transaction back.
VersionInsertSucceeds(d) == versionStatus[d] = "ABSENT"

CommitWrite(r) ==
    LET d == reqDoc[r] IN
    /\ reqPc[r] = "commit"
    /\ Free(DocRow(d) \union VersionRow(d))
    /\ IF VersionInsertSucceeds(d)
       THEN /\ versionStatus' = [versionStatus EXCEPT ![d] = "PENDING"]
            /\ SetDoc(d, "PENDING")
       ELSE UNCHANGED <<docStatus, versionStatus>>
    /\ EndRequest(r)
    /\ UNCHANGED <<verified, object, results, task, searchIdx, milvus,
                   locks, fileIngest, embedTopic, faults>>

-----------------------------------------------------------------------------
(* ingest and retry                                                        *)

\* A guard that only refuses what is under way or finished.
AdmitsDraft(status) == status \notin {"PROCESSING", "READY"}

IngestAdmits(status) == status = "PENDING"

IngestRead(r, d) ==
    /\ IngestAdmits(docStatus[d])
    /\ FindDoc(r, d, "ingest")
    /\ UNCHANGED tables

\* The space has no smart parsing: the document is READY at once.
IngestDirectly(r) ==
    LET d == reqDoc[r] IN
    /\ reqPc[r] = "ingest"
    /\ d \notin SmartParse
    /\ Free(DocRow(d))
    /\ SetDoc(d, "READY")
    /\ EndRequest(r)
    /\ UNCHANGED <<verified, versionStatus, object, results, task, searchIdx,
                   milvus, locks, fileIngest, embedTopic, faults>>

\* UPDATE ... PROCESSING and kafkaTemplate.send, whose result is ignored; the
\* row stays locked and the new status invisible until the transaction ends.
IngestSend(r) ==
    LET d == reqDoc[r] IN
    /\ reqPc[r] = "ingest"
    /\ d \in SmartParse
    /\ Free(DocRow(d))
    /\ \/ fileIngest' = Append(fileIngest, d) /\ UNCHANGED faults
       \/ fileIngest' = fileIngest /\ Fault("sendLost")
    /\ Lock(r, IF HasRow(d) THEN DocRow(d) ELSE {})
    /\ reqPc' = [reqPc EXCEPT ![r] = "sent"]
    /\ UNCHANGED <<docStatus, verified, versionStatus, object, results, task,
                   searchIdx, milvus, embedTopic, reqDoc, reqSeen>>

IngestCommit(r) ==
    LET d == reqDoc[r] IN
    /\ reqPc[r] = "sent"
    /\ SetDoc(d, "PROCESSING")
    /\ Unlock(r)
    /\ EndRequest(r)
    /\ UNCHANGED <<verified, versionStatus, object, results, task, searchIdx,
                   milvus, fileIngest, embedTopic, faults>>

\* retryDoc: the guard, then the bulk UPDATE to PENDING, which locks the row
\* and leaves the entity in the persistence context as it was read.
RetryBegin(r, d) ==
    /\ docStatus[d] = "FAILED"
    /\ Free(DocRow(d))
    /\ FindDoc(r, d, "retry")
    /\ Lock(r, DocRow(d))
    /\ UNCHANGED <<docStatus, verified, versionStatus, object, results, task,
                   searchIdx, milvus, fileIngest, embedTopic, faults>>

\* ingest(), called in the same transaction, finds the cached entity, whose
\* status it does not admit: it throws and the transaction rolls back.
RetryRefused(r) ==
    /\ reqPc[r] = "retry"
    /\ ~IngestAdmits(reqSeen[r])
    /\ Unlock(r)
    /\ EndRequest(r)
    /\ UNCHANGED <<docStatus, verified, versionStatus, object, results, task,
                   searchIdx, milvus, fileIngest, embedTopic, faults>>

-----------------------------------------------------------------------------
(* deleteDoc                                                               *)

\* The DELETE waits for the flush at the end of the transaction, so the
\* object goes first; an exception of MinIO is logged and ignored.
DeleteObject(r, d) ==
    /\ FindDoc(r, d, "delete")
    /\ \/ object' = [object EXCEPT ![d] = "none"] /\ UNCHANGED faults
       \/ UNCHANGED object /\ Fault("objectKept")
    /\ UNCHANGED <<docStatus, verified, versionStatus, results, task, searchIdx,
                   milvus, locks, fileIngest, embedTopic>>

\* Only the knowledge_doc row goes.  If it is gone already the flush fails.
DeleteRow(r) ==
    LET d == reqDoc[r] IN
    /\ reqPc[r] = "delete"
    /\ Free(DocRow(d))
    /\ SetDoc(d, "GONE")
    /\ EndRequest(r)
    /\ UNCHANGED <<verified, versionStatus, object, results, task, searchIdx,
                   milvus, locks, fileIngest, embedTopic, faults>>

-----------------------------------------------------------------------------

\* The process or the connection dies: the transaction rolls back.
RequestDies(r) ==
    /\ reqPc[r] # "idle"
    /\ Fault("requestDies")
    /\ Unlock(r)
    /\ EndRequest(r)
    /\ UNCHANGED <<docStatus, verified, versionStatus, object, results, task,
                   searchIdx, milvus, fileIngest, embedTopic>>

UserStep ==
    \/ \E d \in Doc : InitUpload(d) \/ VerifyUpload(d)
    \/ \E d \in Doc : \E content \in Uploads : PutObject(d, content)
    \/ \E r \in Request, d \in Doc :
          \/ CommitRead(r, d)
          \/ IngestRead(r, d)
          \/ RetryBegin(r, d)
          \/ DeleteObject(r, d)

\* What a request thread that has begun goes on to do.
HandlerStep(r) ==
    \/ CommitWrite(r)
    \/ IngestDirectly(r)
    \/ IngestSend(r)
    \/ IngestCommit(r)
    \/ RetryRefused(r)
    \/ DeleteRow(r)

IngestServiceNext ==
    \/ UserStep
    \/ \E r \in Request : HandlerStep(r) \/ RequestDies(r)

=============================================================================
