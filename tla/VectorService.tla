---------------------------- MODULE VectorService ----------------------------
(***************************************************************************)
(* vector-service: EmbedTaskConsumer.consume, the batch listener of        *)
(* embed-task.  A batch is one database transaction around a Milvus        *)
(* upsert.  The offset is acknowledged inside the transaction, before its  *)
(* commit, and on every path: also after a Milvus failure and after a      *)
(* PostgreSQL error, so that the position and the committed offset agree   *)
(* whenever no batch is in hand.  Null messages, which the record filter   *)
(* drops, are left out.                                                    *)
(***************************************************************************)
EXTENDS KnowledgeTables

CONSTANTS
    BatchSize,   \* max.poll.records
    Listener     \* the listener thread

ASSUME BatchAssumption == BatchSize \in Nat \ {0}

VARIABLES
    vecPc,         \* where the listener thread is in consume
    batchStart,    \* offset of the first message in hand, 0 when there is none
    batchEnd,      \* offset of the last message in hand, 0 when there is none
    etCommitted    \* committed offset of the consumer group

vectorVars == <<vecPc, batchStart, batchEnd, etCommitted>>

\* In "done" and "failed" the statements of that path have run and the offset
\* is acknowledged; the transaction has not committed yet.
VecPc == {"idle", "polled", "upserted", "milvusFailed", "done", "failed"}

VectorTypeOK ==
    /\ vecPc \in VecPc
    /\ batchStart \in 0..Len(embedTopic)
    /\ batchEnd \in 0..Len(embedTopic)
    /\ etCommitted \in 0..Len(embedTopic)
    /\ vecPc # "idle" => batchStart \in 1..batchEnd

VectorInit ==
    /\ vecPc = "idle"
    /\ batchStart = 0
    /\ batchEnd = 0
    /\ etCommitted = 0

Batch    == {embedTopic[i] : i \in batchStart..batchEnd}
firstDoc == embedTopic[batchStart][1]   \* the document of messages.get(0)

EndBatch ==
    /\ vecPc' = "idle"
    /\ batchStart' = 0
    /\ batchEnd' = 0

PollBatch ==
    /\ vecPc = "idle"
    /\ \E n \in 1..BatchSize :
          /\ etCommitted + n <= Len(embedTopic)
          /\ batchEnd' = etCommitted + n
    /\ batchStart' = etCommitted + 1
    /\ vecPc' = "polled"
    /\ UNCHANGED <<tables, etCommitted>>

\* The primary key is the current time, so an "upsert" always adds rows.
MilvusRows == [m \in Message |-> IF m \in Batch THEN milvus[m] + 1 ELSE milvus[m]]

UpsertMilvus ==
    /\ vecPc = "polled"
    /\ milvus' = MilvusRows
    /\ vecPc' = "upserted"
    /\ UNCHANGED <<docStatus, verified, versionStatus, object, results, task,
                   searchIdx, locks, fileIngest, embedTopic, faults,
                   batchStart, batchEnd, etCommitted>>

\* The call raises, whether or not Milvus has written the rows.
MilvusFails ==
    /\ vecPc = "polled"
    /\ Fault("milvusError")
    /\ milvus' \in {milvus, MilvusRows}
    /\ vecPc' = "milvusFailed"
    /\ UNCHANGED <<docStatus, verified, versionStatus, object, results, task,
                   searchIdx, locks, fileIngest, embedTopic,
                   batchStart, batchEnd, etCommitted>>

-----------------------------------------------------------------------------
(* The end of the transaction: the statements and the acknowledgement, then *)
(* the commit, which makes them visible.                                    *)

\* Only the rows of the batch's first document.
MarkFirstDocument(status) ==
    [m \in Message |-> IF m \in Batch /\ m[1] = firstDoc /\ task[m] # "ABSENT"
                        THEN status ELSE task[m]]

\* Only the row of the batch's first message.
MarkFirstMessage(status) ==
    [m \in Message |-> IF m = embedTopic[batchStart] /\ task[m] # "ABSENT"
                        THEN status ELSE task[m]]

\* markDone and markFailed update the rows there are, whatever their status.
MarkTasks(status) ==
    [m \in Message |-> IF m \in Batch /\ task[m] # "ABSENT" THEN status ELSE task[m]]

\* Counting the FAILED rows only.
NoneFailed(d) ==
    \A m \in Message : m[1] = d => m \in Batch \/ task[m] # "FAILED"

\* Counting the PENDING rows only.
NonePending(d) ==
    \A m \in Message : m[1] = d => m \in Batch \/ task[m] # "PENDING"

\* remaining == 0, counted after markDone and for the first document only.
AllDone(d) ==
    \A m \in Message : m[1] = d => m \in Batch \/ task[m] \in {"ABSENT", "DONE"}

\* The rows the path's statements update and keep locked.
Written(path) ==
    IF path = "done" /\ ~AllDone(firstDoc)
    THEN VersionRow(firstDoc)
    ELSE VersionRow(firstDoc) \union DocRow(firstDoc)

Acknowledge(from, path) ==
    /\ vecPc = from
    /\ Free(Written(path))
    /\ Lock(Listener, Written(path))
    /\ etCommitted' = batchEnd
    /\ vecPc' = path
    /\ UNCHANGED <<docStatus, verified, versionStatus, object, results, task,
                   searchIdx, milvus, fileIngest, embedTopic, faults,
                   batchStart, batchEnd>>

\* PostgreSQL before Milvus, as the comment in consume has it.
AckBeforeMilvus == Acknowledge("polled", "done")

AckBatch  == Acknowledge("upserted", "done")
AckFailed == Acknowledge("milvusFailed", "failed")

\* The transaction commits: the search index rows are in it on both paths.
Commit(path) ==
    /\ vecPc = path
    /\ searchIdx' = searchIdx \union Batch
    /\ Unlock(Listener)
    /\ EndBatch
    /\ UNCHANGED <<verified, object, results, milvus, fileIngest, embedTopic,
                   faults, etCommitted>>

\* Without the update of knowledge_version to READY.
CommitDocOnly ==
    /\ Commit("done")
    /\ task' = MarkTasks("DONE")
    /\ UNCHANGED versionStatus
    /\ IF AllDone(firstDoc) THEN SetDoc(firstDoc, "READY") ELSE UNCHANGED docStatus

CommitDone ==
    /\ Commit("done")
    /\ task' = MarkTasks("DONE")
    /\ IF AllDone(firstDoc)
       THEN SetVersion(firstDoc, "READY") /\ SetDoc(firstDoc, "READY")
       ELSE SetVersion(firstDoc, "PROCESSING") /\ UNCHANGED docStatus

CommitFailed ==
    /\ Commit("failed")
    /\ task' = MarkTasks("FAILED")
    /\ SetVersion(firstDoc, "FAILED")
    /\ SetDoc(firstDoc, "FAILED")

-----------------------------------------------------------------------------

\* A PostgreSQL error (a deadlock, a lost connection) rolls everything back;
\* the catch block acknowledges, or the error handler skips the batch.
TxAborts ==
    /\ vecPc # "idle"
    /\ Fault("sqlError")
    /\ Unlock(Listener)
    /\ etCommitted' = batchEnd
    /\ EndBatch
    /\ UNCHANGED <<docStatus, verified, versionStatus, object, results, task,
                   searchIdx, milvus, fileIngest, embedTopic>>

\* The process dies: the batch comes again unless it was acknowledged.
VectorCrash ==
    /\ vecPc # "idle"
    /\ Fault("vectorCrash")
    /\ Unlock(Listener)
    /\ EndBatch
    /\ UNCHANGED <<docStatus, verified, versionStatus, object, results, task,
                   searchIdx, milvus, fileIngest, embedTopic, etCommitted>>

VectorStep ==
    \/ PollBatch
    \/ UpsertMilvus
    \/ AckBatch
    \/ AckFailed
    \/ CommitDone
    \/ CommitFailed

VectorServiceNext == VectorStep \/ MilvusFails \/ TxAborts \/ VectorCrash

=============================================================================
