--------------------------- MODULE KnowledgeTables ---------------------------
(***************************************************************************)
(* The state the services of the ingestion flow share: the rows of the     *)
(* kb_knowledge schema, the MinIO objects, the Milvus rows and the two     *)
(* Kafka topics.  One tenant is modelled: both topics are keyed by tenant, *)
(* so all its messages lie in one partition of each, in order.             *)
(*                                                                         *)
(* Every document here has version 1, the only one the code creates.       *)
(***************************************************************************)
EXTENDS Naturals, Sequences, FiniteSets

CONSTANTS
    Doc,        \* document ids
    MaxChunks,  \* the largest number of chunks of a document
    MaxFault    \* how often each kind of fault may strike in a behaviour

(***************************************************************************)
(* What the environment may do to the services, each a bounded number of   *)
(* times: an HTTP request that dies with its transaction, a Kafka send     *)
(* that is lost or repeated (acks=all, no idempotent producer), an         *)
(* exception in a stage of the document processor, an update of the        *)
(* FAILED mark that fails, a MinIO delete that fails, a process restart,   *)
(* a Milvus upsert that fails, a PostgreSQL error in the batch consumer.   *)
(***************************************************************************)
FaultKind == {"requestDies", "sendLost", "stageError", "markError",
              "publishLost", "publishTwice", "objectKept", "workerCrash",
              "milvusError", "sqlError", "vectorCrash"}

ASSUME ChunksAssumption == MaxChunks \in Nat \ {0}
ASSUME FaultAssumption  == MaxFault \in [FaultKind -> Nat]

Chunk   == 1..MaxChunks
Message == Doc \X Chunk        \* an embed-task message: document and chunk_seq

\* Statuses written to knowledge_doc while the pipeline works on a document.
Stage == {"PARSING", "CHUNKING", "EMBEDDING", "VECTOR_PENDING"}

\* ABSENT: no row yet.  GONE: the row was deleted.
DocStatus     == {"ABSENT", "DRAFT", "PENDING", "PROCESSING", "READY",
                  "FAILED", "GONE"} \union Stage
VersionStatus == {"ABSENT", "PENDING", "PROCESSING", "READY", "FAILED"} \union Stage
TaskStatus    == {"ABSENT", "PENDING", "DONE", "FAILED"}
Row           == {"doc", "version"} \X Doc
Content       == {"none", "declared", "sameSize", "otherSize"}

VARIABLES
    docStatus,      \* knowledge_doc.status
    verified,       \* documents with knowledge_doc.verified
    versionStatus,  \* knowledge_version.status
    object,         \* what MinIO holds at the document's src_path
    results,        \* documents with knowledge_clean and knowledge_structured rows
    task,           \* embed_task.status of each chunk
    searchIdx,      \* chunks with a knowledge_search_idx row
    milvus,         \* number of Milvus rows of each chunk
    locks,          \* <<thread, row>>: the thread's open transaction has written the row
    fileIngest,     \* the topic file-ingest
    embedTopic,     \* the topic embed-task
    faults          \* how often each kind of fault has struck

tables == <<docStatus, verified, versionStatus, object, results, task,
            searchIdx, milvus, locks, fileIngest, embedTopic, faults>>

TablesTypeOK ==
    /\ docStatus \in [Doc -> DocStatus]
    /\ verified \in SUBSET Doc
    /\ versionStatus \in [Doc -> VersionStatus]
    /\ object \in [Doc -> Content]
    /\ results \in SUBSET Doc
    /\ task \in [Message -> TaskStatus]
    /\ searchIdx \in SUBSET Message
    /\ milvus \in [Message -> Nat]
    /\ fileIngest \in Seq(Doc)
    /\ embedTopic \in Seq(Message)
    /\ faults \in [FaultKind -> Nat]

TablesInit ==
    /\ docStatus = [d \in Doc |-> "ABSENT"]
    /\ verified = {}
    /\ versionStatus = [d \in Doc |-> "ABSENT"]
    /\ object = [d \in Doc |-> "none"]
    /\ results = {}
    /\ task = [m \in Message |-> "ABSENT"]
    /\ searchIdx = {}
    /\ milvus = [m \in Message |-> 0]
    /\ locks = {}
    /\ fileIngest = <<>>
    /\ embedTopic = <<>>
    /\ faults = [k \in FaultKind |-> 0]

-----------------------------------------------------------------------------

HasRow(d) == docStatus[d] \notin {"ABSENT", "GONE"}

\* An UPDATE by document key: it changes the row, or no row at all.
SetDoc(d, status) ==
    docStatus' = IF HasRow(d) THEN [docStatus EXCEPT ![d] = status] ELSE docStatus

SetVersion(d, status) ==
    versionStatus' = IF versionStatus[d] = "ABSENT" THEN versionStatus
                     ELSE [versionStatus EXCEPT ![d] = status]

DocRow(d)     == {<<"doc", d>>}
VersionRow(d) == {<<"version", d>>}

\* A statement on rows another transaction has written waits for its end.
Free(rows) == \A l \in locks : l[2] \notin rows

Lock(thread, rows) == locks' = locks \union ({thread} \X rows)
Unlock(thread)     == locks' = {l \in locks : l[1] # thread}

Fault(kind) ==
    /\ faults[kind] < MaxFault[kind]
    /\ faults' = [faults EXCEPT ![kind] = @ + 1]

=============================================================================
