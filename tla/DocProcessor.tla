----------------------------- MODULE DocProcessor -----------------------------
(***************************************************************************)
(* kb-doc-processor: the consumer of file-ingest and the pipeline it runs  *)
(* on a message.  Each stage writes the status of the document in a        *)
(* database transaction of its own; the results are saved in one           *)
(* transaction and then published chunk by chunk on embed-task.  An        *)
(* exception marks the document FAILED.                                    *)
(***************************************************************************)
EXTENDS KnowledgeTables

CONSTANT MinChunks   \* 0 when a document without text may arrive

ASSUME MinChunksAssumption == MinChunks \in 0..MaxChunks

VARIABLES
    wkPc,          \* where the consumer thread is in process_message
    wkOffset,      \* offset of the message in hand, 0 when there is none
    wkChunks,      \* number of chunks the chunker produced
    wkNext,        \* the next chunk to publish
    fiPosition,    \* messages of file-ingest polled since the last start
    fiCommitted    \* committed offset of the consumer group

workerVars == <<wkPc, wkOffset, wkChunks, wkNext, fiPosition, fiCommitted>>

Working == {"polled", "parsing", "chunking", "embedding", "saving", "publishing"}
Failing == {"permanent", "transient"}   \* what _PERMANENT_ERRORS makes of it
WkPc    == Working \union Failing \union {"idle", "done"}

WorkerTypeOK ==
    /\ wkPc \in WkPc
    /\ wkOffset \in Nat
    /\ wkChunks \in 0..MaxChunks
    /\ wkNext \in 1 .. MaxChunks + 1
    /\ fiPosition \in 0..Len(fileIngest)
    /\ fiCommitted \in 0..fiPosition
    /\ wkPc # "idle" => wkOffset \in fiCommitted + 1 .. fiPosition

WorkerInit ==
    /\ wkPc = "idle"
    /\ wkOffset = 0
    /\ wkChunks = 0
    /\ wkNext = 1
    /\ fiPosition = 0
    /\ fiCommitted = 0

wkDoc == fileIngest[wkOffset]   \* the document in hand

BothRows(d) == DocRow(d) \union VersionRow(d)

\* process_message is over; nothing of it stays in memory.
EndMessage ==
    /\ wkPc' = "idle"
    /\ wkOffset' = 0
    /\ wkChunks' = 0
    /\ wkNext' = 1

Poll ==
    /\ wkPc = "idle"
    /\ fiPosition < Len(fileIngest)
    /\ wkPc' = "polled"
    /\ fiPosition' = fiPosition + 1
    /\ wkOffset' = fiPosition'
    /\ UNCHANGED <<tables, wkChunks, wkNext, fiCommitted>>

\* _update_document_stage: both rows, whatever their status is now.
UpdateStage(from, status, to) ==
    /\ wkPc = from
    /\ Free(BothRows(wkDoc))
    /\ SetDoc(wkDoc, status)
    /\ SetVersion(wkDoc, status)
    /\ wkPc' = to
    /\ UNCHANGED <<verified, object, results, task, searchIdx, milvus, locks,
                   fileIngest, embedTopic, faults, wkOffset, wkNext,
                   fiPosition, fiCommitted>>

StartParsing ==
    /\ UpdateStage("polled", "PARSING", "parsing")
    /\ UNCHANGED wkChunks

\* get_object, parse and clean, then the stage CHUNKING.
ParseAndClean ==
    /\ UpdateStage("parsing", "CHUNKING", "chunking")
    /\ object[wkDoc] # "none"
    /\ UNCHANGED wkChunks

\* The chunker and the metadata extractor, then the stage EMBEDDING.
ChunkText ==
    /\ UpdateStage("chunking", "EMBEDDING", "embedding")
    /\ wkChunks' \in MinChunks..MaxChunks

\* The embedding service, then the stage VECTOR_PENDING.
EmbedChunks ==
    /\ UpdateStage("embedding", "VECTOR_PENDING", "saving")
    /\ UNCHANGED wkChunks

\* _save_results: one transaction for the results and all embed_task rows.
SaveResults ==
    /\ wkPc = "saving"
    /\ wkDoc \notin results
    /\ results' = results \union {wkDoc}
    /\ task' = [m \in Message |->
                   IF m[1] = wkDoc /\ m[2] <= wkChunks THEN "PENDING" ELSE task[m]]
    /\ wkPc' = "publishing"
    /\ UNCHANGED <<docStatus, verified, versionStatus, object, searchIdx, milvus,
                   locks, fileIngest, embedTopic, faults, wkOffset, wkChunks,
                   wkNext, fiPosition, fiCommitted>>

\* The exception leaves the stage; wkPc says what the consumer takes it for.
Raise(error) ==
    /\ wkPc' = error
    /\ UNCHANGED <<docStatus, verified, versionStatus, object, results, task,
                   searchIdx, milvus, locks, fileIngest, embedTopic, wkOffset,
                   wkChunks, wkNext, fiPosition, fiCommitted>>

\* The rows of an earlier run are there: UniqueViolation.
SaveRefused ==
    /\ wkPc = "saving"
    /\ wkDoc \in results
    /\ Raise("permanent")
    /\ UNCHANGED faults

\* get_object of an object that is not there: NoSuchKey.
ObjectMissing ==
    /\ wkPc = "parsing"
    /\ object[wkDoc] = "none"
    /\ Raise("permanent")
    /\ UNCHANGED faults

\* Any other exception, of a service, of the database or of produce(); after
\* the last produce() nothing raises any more.
StageFails ==
    /\ wkPc \in Working
    /\ wkPc = "publishing" => wkNext <= wkChunks
    /\ Fault("stageError")
    /\ \E error \in Failing : Raise(error)

\* produce() is asynchronous and its delivery report is only printed: a
\* message is written once, or, if sends fail, never or twice.
PublishChunk ==
    LET m == <<wkDoc, wkNext>> IN
    /\ wkPc = "publishing"
    /\ wkNext <= wkChunks
    /\ \/ embedTopic' = Append(embedTopic, m) /\ UNCHANGED faults
       \/ embedTopic' = Append(Append(embedTopic, m), m) /\ Fault("publishTwice")
       \/ embedTopic' = embedTopic /\ Fault("publishLost")
    /\ wkNext' = wkNext + 1
    /\ UNCHANGED <<docStatus, verified, versionStatus, object, results, task,
                   searchIdx, milvus, locks, fileIngest, wkPc, wkOffset,
                   wkChunks, fiPosition, fiCommitted>>

FinishPublishing ==
    /\ wkPc = "publishing"
    /\ wkNext > wkChunks
    /\ wkPc' = "done"
    /\ UNCHANGED <<tables, wkOffset, wkChunks, wkNext, fiPosition,
                   fiCommitted>>

\* The consumer commits past a permanent error and returns to poll without a
\* commit after a transient one: the position has moved on all the same.
AfterFailure ==
    /\ \/ /\ wkPc = "permanent"
          /\ wkPc' = "done"
          /\ UNCHANGED <<wkOffset, wkChunks, wkNext>>
       \/ wkPc = "transient" /\ EndMessage
    /\ UNCHANGED <<fiPosition, fiCommitted>>

\* Without the clause status != 'DONE'.
MarkAllFailed ==
    /\ wkPc \in Failing
    /\ Free(BothRows(wkDoc))
    /\ SetDoc(wkDoc, "FAILED")
    /\ SetVersion(wkDoc, "FAILED")
    /\ task' = [m \in Message |->
                   IF m[1] = wkDoc /\ task[m] # "ABSENT" THEN "FAILED" ELSE task[m]]
    /\ AfterFailure
    /\ UNCHANGED <<verified, object, results, searchIdx, milvus, locks,
                   fileIngest, embedTopic, faults>>

\* _mark_document_failed: both rows, and every embed_task that is not DONE.
MarkFailed ==
    /\ wkPc \in Failing
    /\ Free(BothRows(wkDoc))
    /\ SetDoc(wkDoc, "FAILED")
    /\ SetVersion(wkDoc, "FAILED")
    /\ task' = [m \in Message |->
                   IF m[1] = wkDoc /\ task[m] # "DONE" /\ task[m] # "ABSENT"
                   THEN "FAILED" ELSE task[m]]
    /\ AfterFailure
    /\ UNCHANGED <<verified, object, results, searchIdx, milvus, locks,
                   fileIngest, embedTopic, faults>>

\* The exception of the marking transaction is logged and dropped.
MarkFails ==
    /\ wkPc \in Failing
    /\ Fault("markError")
    /\ AfterFailure
    /\ UNCHANGED <<docStatus, verified, versionStatus, object, results, task,
                   searchIdx, milvus, locks, fileIngest, embedTopic>>

\* The offset after the next message.
CommitTooFar ==
    /\ wkPc = "done"
    /\ fiCommitted' = wkOffset + 1
    /\ EndMessage
    /\ UNCHANGED <<tables, fiPosition>>

CommitOffset ==
    /\ wkPc = "done"
    /\ fiCommitted' = wkOffset
    /\ EndMessage
    /\ UNCHANGED <<tables, fiPosition>>

\* With enable.auto.commit the position survives a restart.
ResumeAtPosition ==
    /\ Fault("workerCrash")
    /\ fiCommitted' = fiPosition
    /\ EndMessage
    /\ UNCHANGED <<docStatus, verified, versionStatus, object, results, task,
                   searchIdx, milvus, locks, fileIngest, embedTopic, fiPosition>>

\* After a restart or a rebalance the group resumes at the committed offset.
WorkerCrash ==
    /\ Fault("workerCrash")
    /\ fiPosition' = fiCommitted
    /\ EndMessage
    /\ UNCHANGED <<docStatus, verified, versionStatus, object, results, task,
                   searchIdx, milvus, locks, fileIngest, embedTopic, fiCommitted>>

WorkerStep ==
    \/ Poll
    \/ StartParsing \/ ParseAndClean \/ ChunkText \/ EmbedChunks
    \/ SaveResults \/ SaveRefused \/ ObjectMissing
    \/ PublishChunk \/ FinishPublishing
    \/ MarkFailed
    \/ CommitOffset

DocProcessorNext == WorkerStep \/ StageFails \/ MarkFails \/ WorkerCrash

=============================================================================
