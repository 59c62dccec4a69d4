----------------------- MODULE IngestionPipelineProofs -----------------------
(***************************************************************************)
(* Theorems about IngestionPipeline, for every set of documents and of     *)
(* request threads, every number of chunks and every batch size.           *)
(***************************************************************************)
EXTENDS IngestionPipeline, TLAPS

-----------------------------------------------------------------------------
(* The values the variables take.                                          *)

LEMMA Statuses ==
    /\ "ABSENT" \in DocStatus /\ "DRAFT" \in DocStatus /\ "PENDING" \in DocStatus
    /\ "PROCESSING" \in DocStatus /\ "READY" \in DocStatus
    /\ "FAILED" \in DocStatus /\ "GONE" \in DocStatus
    /\ "ABSENT" \in VersionStatus /\ "PENDING" \in VersionStatus
    /\ "PROCESSING" \in VersionStatus /\ "READY" \in VersionStatus
    /\ "FAILED" \in VersionStatus
    /\ \A s \in Stage : s \in DocStatus /\ s \in VersionStatus
    /\ "ABSENT" \in TaskStatus /\ "PENDING" \in TaskStatus
    /\ "DONE" \in TaskStatus /\ "FAILED" \in TaskStatus
  BY DEF DocStatus, VersionStatus, TaskStatus, Stage

LEMMA Rows == \A d \in Doc : DocRow(d) \subseteq Row /\ VersionRow(d) \subseteq Row
  BY DEF DocRow, VersionRow, Row

-----------------------------------------------------------------------------
(* The helpers the actions are built from.                                 *)

\* A topic grows at its end only: what is on it stays where it is.
LEMMA AppendFacts ==
    ASSUME NEW S, NEW q \in Seq(S), NEW e \in S
    PROVE  /\ Append(q, e) \in Seq(S)
           /\ Len(Append(q, e)) = Len(q) + 1
           /\ Append(q, e)[Len(q) + 1] = e
           /\ \A i \in 1..Len(q) : Append(q, e)[i] = q[i]
  OBVIOUS

\* The statements that take locks and set statuses keep the types.
LEMMA FaultType ==
    ASSUME faults \in [FaultKind -> Nat], NEW k, Fault(k)
    PROVE  faults' \in [FaultKind -> Nat]
  <1>1. faults' = [i \in FaultKind |-> IF i = k THEN faults[k] + 1 ELSE faults[i]]
    BY DEF Fault
  <1>2. \A i \in FaultKind : (IF i = k THEN faults[k] + 1 ELSE faults[i]) \in Nat
    OBVIOUS
  <1> QED
    BY <1>1, <1>2

LEMMA SetDocType ==
    ASSUME docStatus \in [Doc -> DocStatus], NEW d \in Doc, NEW s \in DocStatus,
           SetDoc(d, s)
    PROVE  docStatus' \in [Doc -> DocStatus]
  BY DEF SetDoc

LEMMA LockType ==
    ASSUME NEW T, locks \subseteq T \X Row, NEW t \in T, NEW rows \in SUBSET Row,
           Lock(t, rows) \/ Unlock(t)
    PROVE  locks' \subseteq T \X Row
  BY DEF Lock, Unlock

LEMMA SetVersionType ==
    ASSUME versionStatus \in [Doc -> VersionStatus], NEW d \in Doc,
           NEW s \in VersionStatus, SetVersion(d, s)
    PROVE  versionStatus' \in [Doc -> VersionStatus]
  BY DEF SetVersion

-----------------------------------------------------------------------------
(* Type correctness.                                                       *)

LEMMA InitType == Init => TypeOK
  <1> SUFFICES ASSUME Init PROVE TypeOK
    OBVIOUS
  <1> USE DEF Init
  <1>1. TablesTypeOK
    BY Statuses DEF TablesInit, TablesTypeOK, Content
  <1>2. RequestTypeOK
    BY Statuses DEF RequestInit, RequestTypeOK, ReqPc
  <1>3. WorkerTypeOK
    <2>1. Len(fileIngest) = 0
      BY DEF TablesInit
    <2> QED
      BY <2>1, ChunksAssumption DEF WorkerInit, WorkerTypeOK, WkPc
  <1>4. VectorTypeOK
    BY DEF VectorInit, VectorTypeOK, TablesInit, VecPc
  <1>5. locks \subseteq (Request \union {Listener}) \X Row
    BY DEF TablesInit
  <1> QED
    BY <1>1, <1>2, <1>3, <1>4, <1>5 DEF TypeOK

\* What TypeOK of the other components' variables rests on.
LEMMA TopicsGrow ==
    ASSUME TypeOK, Len(fileIngest') \in Nat, Len(embedTopic') \in Nat,
           Len(fileIngest') >= Len(fileIngest), Len(embedTopic') >= Len(embedTopic)
    PROVE  /\ UNCHANGED workerVars => WorkerTypeOK'
           /\ UNCHANGED vectorVars => VectorTypeOK'
  <1>1. Len(fileIngest) \in Nat /\ Len(embedTopic) \in Nat
    BY DEF TypeOK, TablesTypeOK
  <1>2. UNCHANGED workerVars => WorkerTypeOK'
    BY <1>1 DEF TypeOK, WorkerTypeOK, workerVars
  <1>3. UNCHANGED vectorVars => VectorTypeOK'
    BY <1>1 DEF TypeOK, VectorTypeOK, vectorVars
  <1> QED
    BY <1>2, <1>3

LEMMA IngestServiceType ==
    ASSUME TypeOK, IngestServiceNext, UNCHANGED <<workerVars, vectorVars>>
    PROVE  TypeOK'
  <1> USE DEF TypeOK
  <1>1. /\ TablesTypeOK' /\ RequestTypeOK'
        /\ locks' \subseteq (Request \union {Listener}) \X Row
        /\ Len(fileIngest') >= Len(fileIngest)
        /\ embedTopic' = embedTopic
    <2> USE Statuses DEF TablesTypeOK, RequestTypeOK, ReqPc, tables, requestVars,
                         EndRequest, FindDoc
    <2>1. CASE \E d \in Doc : InitUpload(d)
      BY <2>1 DEF InitUpload
    <2>2. CASE \E d \in Doc : VerifyUpload(d)
      BY <2>2 DEF VerifyUpload
    <2>3. CASE \E d \in Doc : \E content \in Uploads : PutObject(d, content)
      BY <2>3, UploadsAssumption DEF PutObject
    <2>4. CASE \E r \in Request, d \in Doc : CommitRead(r, d)
      BY <2>4 DEF CommitRead
    <2>5. CASE \E r \in Request, d \in Doc : IngestRead(r, d)
      BY <2>5 DEF IngestRead
    <2>6. CASE \E r \in Request, d \in Doc : RetryBegin(r, d)
      <3> PICK r \in Request, d \in Doc : RetryBegin(r, d)
        BY <2>6
      <3>1. locks' \subseteq (Request \union {Listener}) \X Row
        BY LockType, Rows DEF RetryBegin
      <3> QED
        BY <3>1 DEF RetryBegin
    <2>7. CASE \E r \in Request, d \in Doc : DeleteObject(r, d)
      <3> PICK r \in Request, d \in Doc : DeleteObject(r, d)
        BY <2>7
      <3>1. faults' \in [FaultKind -> Nat]
        BY FaultType DEF DeleteObject
      <3>2. object' \in [Doc -> Content]
        BY DEF DeleteObject, Content
      <3> QED
        BY <3>1, <3>2 DEF DeleteObject
    <2>8. CASE \E r \in Request : CommitWrite(r)
      <3> PICK r \in Request : CommitWrite(r)
        BY <2>8
      <3>1. docStatus' \in [Doc -> DocStatus]
        BY SetDocType DEF CommitWrite
      <3>2. versionStatus' \in [Doc -> VersionStatus]
        BY DEF CommitWrite
      <3> QED
        BY <3>1, <3>2 DEF CommitWrite
    <2>9. CASE \E r \in Request : IngestDirectly(r)
      <3> PICK r \in Request : IngestDirectly(r)
        BY <2>9
      <3>1. docStatus' \in [Doc -> DocStatus]
        BY SetDocType DEF IngestDirectly
      <3> QED
        BY <3>1 DEF IngestDirectly
    <2>10. CASE \E r \in Request : IngestSend(r)
      <3> PICK r \in Request : IngestSend(r)
        BY <2>10
      <3>0. reqDoc[r] \in Doc
        BY DEF IngestSend
      <3>1. faults' \in [FaultKind -> Nat]
        BY FaultType DEF IngestSend
      <3>2. /\ fileIngest' \in Seq(Doc)
            /\ Len(fileIngest') >= Len(fileIngest)
        <4>1. CASE fileIngest' = Append(fileIngest, reqDoc[r])
          BY <3>0, <4>1, AppendFacts
        <4>2. CASE fileIngest' = fileIngest
          BY <4>2
        <4> QED
          BY <4>1, <4>2 DEF IngestSend
      <3>3. locks' \subseteq (Request \union {Listener}) \X Row
        <4>1. (IF HasRow(reqDoc[r]) THEN DocRow(reqDoc[r]) ELSE {}) \in SUBSET Row
          BY <3>0, Rows
        <4> QED
          BY <4>1, LockType DEF IngestSend
      <3> QED
        BY <3>0, <3>1, <3>2, <3>3 DEF IngestSend
    <2>11. CASE \E r \in Request : IngestCommit(r)
      <3> PICK r \in Request : IngestCommit(r)
        BY <2>11
      <3>1. docStatus' \in [Doc -> DocStatus]
        BY SetDocType DEF IngestCommit
      <3>2. locks' \subseteq (Request \union {Listener}) \X Row
        BY DEF IngestCommit, Unlock
      <3> QED
        BY <3>1, <3>2 DEF IngestCommit
    <2>12. CASE \E r \in Request : RetryRefused(r)
      BY <2>12 DEF RetryRefused, Unlock
    <2>13. CASE \E r \in Request : DeleteRow(r)
      <3> PICK r \in Request : DeleteRow(r)
        BY <2>13
      <3>1. docStatus' \in [Doc -> DocStatus]
        BY SetDocType DEF DeleteRow
      <3> QED
        BY <3>1 DEF DeleteRow
    <2>14. CASE \E r \in Request : RequestDies(r)
      BY <2>14, FaultType DEF RequestDies, Unlock
    <2> QED
      BY <2>1, <2>2, <2>3, <2>4, <2>5, <2>6, <2>7, <2>8, <2>9, <2>10, <2>11, <2>12,
         <2>13, <2>14 DEF IngestServiceNext, UserStep, HandlerStep
  <1>2. Len(fileIngest') \in Nat /\ Len(embedTopic') \in Nat
    BY <1>1 DEF TablesTypeOK
  <1>3. WorkerTypeOK' /\ VectorTypeOK'
    BY <1>1, <1>2, TopicsGrow DEF TablesTypeOK
  <1> QED
    BY <1>1, <1>3

LEMMA DocProcessorType ==
    ASSUME TypeOK, DocProcessorNext, UNCHANGED <<requestVars, vectorVars>>
    PROVE  TypeOK'
  <1> USE DEF TypeOK
  <1>0. /\ fiPosition \in Nat /\ fiCommitted \in Nat /\ Len(fileIngest) \in Nat
        /\ MaxChunks \in Nat \ {0}
        /\ RequestTypeOK'
        /\ wkPc # "idle" => wkDoc \in Doc
    BY ChunksAssumption
       DEF TablesTypeOK, WorkerTypeOK, RequestTypeOK, requestVars, wkDoc
  <1>1. /\ TablesTypeOK' /\ WorkerTypeOK'
        /\ locks' = locks
        /\ Len(embedTopic') >= Len(embedTopic)
    <2> USE <1>0, Statuses DEF TablesTypeOK, WorkerTypeOK, WkPc, Working, Failing,
                               tables, EndMessage
    <2>1. CASE Poll
      BY <2>1 DEF Poll
    <2>2. ASSUME NEW from \in Working, NEW status \in Stage, NEW to \in Working,
                 UpdateStage(from, status, to), wkChunks' \in 0..MaxChunks
          PROVE  TablesTypeOK' /\ WorkerTypeOK' /\ locks' = locks
                 /\ Len(embedTopic') >= Len(embedTopic)
      <3>1. docStatus' \in [Doc -> DocStatus]
        BY <2>2, SetDocType DEF UpdateStage
      <3>2. versionStatus' \in [Doc -> VersionStatus]
        BY <2>2, SetVersionType DEF UpdateStage
      <3> QED
        BY <2>2, <3>1, <3>2 DEF UpdateStage
    <2>3. CASE StartParsing
      BY <2>2, <2>3 DEF StartParsing, Stage
    <2>4. CASE ParseAndClean
      BY <2>2, <2>4 DEF ParseAndClean, Stage
    <2>5. CASE ChunkText
      <3>1. UpdateStage("chunking", "EMBEDDING", "embedding") /\ wkChunks' \in MinChunks..MaxChunks
        BY <2>5 DEF ChunkText
      <3>2. MinChunks \in Nat
        BY MinChunksAssumption
      <3>3. wkChunks' \in 0..MaxChunks
        BY <3>1, <3>2
      <3> QED
        BY <2>2, <3>1, <3>3 DEF Stage
    <2>6. CASE EmbedChunks
      BY <2>2, <2>6 DEF EmbedChunks, Stage
    <2>7. CASE SaveResults
      <3>1. task' \in [Message -> TaskStatus]
        BY <2>7 DEF SaveResults
      <3> QED
        BY <2>7, <3>1 DEF SaveResults
    <2>8. CASE SaveRefused
      BY <2>8 DEF SaveRefused, Raise
    <2>9. CASE ObjectMissing
      BY <2>9 DEF ObjectMissing, Raise
    <2>10. CASE StageFails
      <3>1. faults' \in [FaultKind -> Nat]
        BY <2>10, FaultType DEF StageFails
      <3> QED
        BY <2>10, <3>1 DEF StageFails, Raise
    <2>11. CASE PublishChunk
      <3> DEFINE m == <<wkDoc, wkNext>>
      <3>1. m \in Message
        BY <2>11 DEF PublishChunk, Message, Chunk
      <3>2. faults' \in [FaultKind -> Nat]
        BY <2>11, FaultType DEF PublishChunk
      <3>3. embedTopic' \in {embedTopic, Append(embedTopic, m),
                             Append(Append(embedTopic, m), m)}
        BY <2>11 DEF PublishChunk
      <3> HIDE DEF m
      <3>4. embedTopic' \in Seq(Message) /\ Len(embedTopic') >= Len(embedTopic)
        <4>1. Append(embedTopic, m) \in Seq(Message)
              /\ Len(Append(embedTopic, m)) = Len(embedTopic) + 1
          BY <3>1, AppendFacts
        <4>2. Append(Append(embedTopic, m), m) \in Seq(Message)
              /\ Len(Append(Append(embedTopic, m), m)) = Len(Append(embedTopic, m)) + 1
          BY <3>1, <4>1, AppendFacts
        <4> QED
          <5>0. embedTopic \in Seq(Message) /\ Len(embedTopic) \in Nat
            OBVIOUS
          <5>1. CASE embedTopic' = embedTopic
            BY <5>0, <5>1
          <5>2. CASE embedTopic' = Append(embedTopic, m)
            BY <5>0, <5>2, <4>1
          <5>3. CASE embedTopic' = Append(Append(embedTopic, m), m)
            BY <5>0, <5>3, <4>1, <4>2
          <5> QED
            BY <3>3, <5>1, <5>2, <5>3
      <3> QED
        BY <2>11, <3>2, <3>4 DEF PublishChunk
    <2>12. CASE FinishPublishing
      BY <2>12 DEF FinishPublishing
    <2>13. CASE MarkFailed
      <3>1. docStatus' \in [Doc -> DocStatus]
        BY <2>13, SetDocType DEF MarkFailed
      <3>2. versionStatus' \in [Doc -> VersionStatus]
        BY <2>13, SetVersionType DEF MarkFailed
      <3>3. task' \in [Message -> TaskStatus]
        BY <2>13 DEF MarkFailed
      <3>4. TablesTypeOK' /\ locks' = locks /\ Len(embedTopic') >= Len(embedTopic)
        BY <2>13, <3>1, <3>2, <3>3 DEF MarkFailed
      <3>5. WorkerTypeOK'
        BY <2>13 DEF MarkFailed, AfterFailure
      <3> QED
        BY <3>4, <3>5
    <2>14. CASE MarkFails
      BY <2>14, FaultType DEF MarkFails, AfterFailure
    <2>15. CASE CommitOffset
      BY <2>15 DEF CommitOffset
    <2>16. CASE WorkerCrash
      BY <2>16, FaultType DEF WorkerCrash
    <2> QED
      BY <2>1, <2>3, <2>4, <2>5, <2>6, <2>7, <2>8, <2>9, <2>10, <2>11, <2>12, <2>13,
         <2>14, <2>15, <2>16 DEF DocProcessorNext, WorkerStep
  <1>2. VectorTypeOK'
    <2>1. Len(embedTopic') \in Nat /\ Len(embedTopic) \in Nat
      BY <1>1 DEF TablesTypeOK
    <2> QED
      BY <1>1, <2>1 DEF VectorTypeOK, vectorVars
  <1> QED
    BY <1>0, <1>1, <1>2

LEMMA VectorServiceType ==
    ASSUME TypeOK, VectorServiceNext, UNCHANGED <<requestVars, workerVars>>
    PROVE  TypeOK'
  <1> USE DEF TypeOK
  <1>0. /\ Len(embedTopic) \in Nat /\ BatchSize \in Nat \ {0}
        /\ vecPc # "idle" => firstDoc \in Doc /\ Batch \subseteq Message
        /\ RequestTypeOK'
    BY BatchAssumption
       DEF TablesTypeOK, VectorTypeOK, RequestTypeOK, requestVars, Message, firstDoc, Batch
  <1>1. /\ TablesTypeOK' /\ VectorTypeOK'
        /\ locks' \subseteq (Request \union {Listener}) \X Row
        /\ fileIngest' = fileIngest
    <2> USE <1>0, Statuses DEF TablesTypeOK, VectorTypeOK, VecPc, tables, EndBatch
    <2>1. CASE PollBatch
      BY <2>1 DEF PollBatch
    <2>2. MilvusRows \in [Message -> Nat]
      BY DEF MilvusRows
    <2>3. CASE UpsertMilvus
      BY <2>2, <2>3 DEF UpsertMilvus
    <2>4. CASE MilvusFails
      <3>1. faults' \in [FaultKind -> Nat]
        BY <2>4, FaultType DEF MilvusFails
      <3> QED
        BY <2>2, <2>4, <3>1 DEF MilvusFails
    <2>5. ASSUME NEW path \in {"done", "failed"}, NEW from \in VecPc \ {"idle"},
                 Acknowledge(from, path)
          PROVE  TablesTypeOK' /\ VectorTypeOK' /\ fileIngest' = fileIngest
                 /\ locks' \subseteq (Request \union {Listener}) \X Row
      <3>1. Written(path) \in SUBSET Row
        BY <2>5, Rows DEF Written, Acknowledge
      <3>2. locks' \subseteq (Request \union {Listener}) \X Row
        BY <2>5, <3>1, LockType DEF Acknowledge
      <3> QED
        BY <2>5, <3>2 DEF Acknowledge
    <2>6. CASE AckBatch
      BY <2>5, <2>6 DEF AckBatch
    <2>7. CASE AckFailed
      BY <2>5, <2>7 DEF AckFailed
    <2>8. MarkTasks("DONE") \in [Message -> TaskStatus]
          /\ MarkTasks("FAILED") \in [Message -> TaskStatus]
      BY DEF MarkTasks
    <2>9. ASSUME NEW path \in {"done", "failed"}, Commit(path),
                 docStatus' \in [Doc -> DocStatus],
                 versionStatus' \in [Doc -> VersionStatus],
                 task' \in [Message -> TaskStatus]
          PROVE  TablesTypeOK' /\ VectorTypeOK' /\ fileIngest' = fileIngest
                 /\ locks' \subseteq (Request \union {Listener}) \X Row
      BY <2>9 DEF Commit, Unlock
    <2>10. CASE CommitDone
      <3>1. docStatus' \in [Doc -> DocStatus]
        BY <2>10, SetDocType DEF CommitDone, Commit
      <3>2. versionStatus' \in [Doc -> VersionStatus]
        BY <2>10, SetVersionType DEF CommitDone, Commit
      <3> QED
        BY <2>8, <2>9, <2>10, <3>1, <3>2 DEF CommitDone
    <2>11. CASE CommitFailed
      <3>1. docStatus' \in [Doc -> DocStatus]
        BY <2>11, SetDocType DEF CommitFailed, Commit
      <3>2. versionStatus' \in [Doc -> VersionStatus]
        BY <2>11, SetVersionType DEF CommitFailed, Commit
      <3> QED
        BY <2>8, <2>9, <2>11, <3>1, <3>2 DEF CommitFailed
    <2>12. CASE TxAborts
      BY <2>12, FaultType DEF TxAborts, Unlock
    <2>13. CASE VectorCrash
      BY <2>13, FaultType DEF VectorCrash, Unlock
    <2> QED
      BY <2>1, <2>3, <2>4, <2>6, <2>7, <2>10, <2>11, <2>12, <2>13
         DEF VectorServiceNext, VectorStep
  <1>2. WorkerTypeOK'
    BY <1>1 DEF WorkerTypeOK, workerVars
  <1> QED
    BY <1>0, <1>1, <1>2

\* Every variable of the flow keeps its type; the worker's offset in hand lies
\* between its group's committed offset and its position.
THEOREM TypeCorrect == Spec => []TypeOK
  <1>1. ASSUME TypeOK, [Next]_vars PROVE TypeOK'
    <2>1. CASE IngestServiceNext /\ UNCHANGED <<workerVars, vectorVars>>
      BY <1>1, <2>1, IngestServiceType
    <2>2. CASE DocProcessorNext /\ UNCHANGED <<requestVars, vectorVars>>
      BY <1>1, <2>2, DocProcessorType
    <2>3. CASE VectorServiceNext /\ UNCHANGED <<requestVars, workerVars>>
      BY <1>1, <2>3, VectorServiceType
    <2>4. CASE UNCHANGED vars
      BY <1>1, <2>4 DEF vars, tables, requestVars, workerVars, vectorVars, TypeOK,
         TablesTypeOK, RequestTypeOK, WorkerTypeOK, VectorTypeOK
    <2> QED
      BY <1>1, <2>1, <2>2, <2>3, <2>4 DEF Next
  <1> QED
    BY <1>1, InitType, PTL DEF Spec

-----------------------------------------------------------------------------
(* The topics only grow.                                                   *)

LEMMA Growth ==
    ASSUME TypeOK, [Next]_vars
    PROVE  /\ Len(fileIngest) \in Nat /\ Len(fileIngest') \in Nat
           /\ Len(fileIngest') >= Len(fileIngest)
           /\ \A i \in 1..Len(fileIngest) : fileIngest'[i] = fileIngest[i]
           /\ Len(embedTopic) \in Nat /\ Len(embedTopic') \in Nat
           /\ Len(embedTopic') >= Len(embedTopic)
           /\ \A i \in 1..Len(embedTopic) : embedTopic'[i] = embedTopic[i]
  <1>1. fileIngest \in Seq(Doc) /\ embedTopic \in Seq(Message)
    BY DEF TypeOK, TablesTypeOK
  <1>2. CASE \E r \in Request : IngestSend(r) /\ UNCHANGED <<workerVars, vectorVars>>
    <2> PICK r \in Request : IngestSend(r)
      BY <1>2
    <2>1. reqDoc[r] \in Doc /\ embedTopic' = embedTopic
      BY DEF IngestSend, TypeOK, RequestTypeOK
    <2>2. CASE fileIngest' = fileIngest
      BY <1>1, <2>1, <2>2
    <2>3. CASE fileIngest' = Append(fileIngest, reqDoc[r])
      BY <1>1, <2>1, <2>3, AppendFacts
    <2> QED
      BY <2>2, <2>3 DEF IngestSend
  <1>3. CASE PublishChunk
    <2> DEFINE m == <<wkDoc, wkNext>>
    <2>1. m \in Message
      <3>1. wkDoc \in Doc
        BY <1>1, <1>3 DEF PublishChunk, wkDoc, TypeOK, WorkerTypeOK
      <3> QED
        BY <1>3, <3>1, ChunksAssumption
           DEF PublishChunk, Message, Chunk, TypeOK, WorkerTypeOK
    <2>2. fileIngest' = fileIngest
          /\ embedTopic' \in {embedTopic, Append(embedTopic, m),
                              Append(Append(embedTopic, m), m)}
      BY <1>3 DEF PublishChunk
    <2> HIDE DEF m
    <2>3. /\ Append(embedTopic, m) \in Seq(Message)
          /\ Len(Append(embedTopic, m)) = Len(embedTopic) + 1
          /\ \A i \in 1..Len(embedTopic) : Append(embedTopic, m)[i] = embedTopic[i]
      BY <1>1, <2>1, AppendFacts
    <2>4. /\ Append(Append(embedTopic, m), m) \in Seq(Message)
          /\ Len(Append(Append(embedTopic, m), m)) = Len(embedTopic) + 2
          /\ \A i \in 1..Len(embedTopic) :
                Append(Append(embedTopic, m), m)[i] = embedTopic[i]
      <3>1. Len(embedTopic) \in Nat
        BY <1>1
      <3>2. /\ Len(Append(Append(embedTopic, m), m)) = Len(Append(embedTopic, m)) + 1
            /\ Append(Append(embedTopic, m), m) \in Seq(Message)
            /\ \A i \in 1..Len(Append(embedTopic, m)) :
                  Append(Append(embedTopic, m), m)[i] = Append(embedTopic, m)[i]
        BY <2>1, <2>3, AppendFacts
      <3> QED
        BY <2>3, <3>1, <3>2
    <2>5. Len(embedTopic) \in Nat /\ Len(fileIngest) \in Nat
      BY <1>1
    <2>6. CASE embedTopic' = embedTopic
      BY <2>2, <2>5, <2>6
    <2>7. CASE embedTopic' = Append(embedTopic, m)
      BY <2>2, <2>3, <2>5, <2>7
    <2>8. CASE embedTopic' = Append(Append(embedTopic, m), m)
      BY <2>2, <2>4, <2>5, <2>8
    <2> QED
      BY <2>2, <2>6, <2>7, <2>8
  <1>4. CASE UNCHANGED <<fileIngest, embedTopic>>
    BY <1>1, <1>4
  <1>5. \/ \E r \in Request : IngestSend(r) /\ UNCHANGED <<workerVars, vectorVars>>
        \/ PublishChunk
        \/ UNCHANGED <<fileIngest, embedTopic>>
    <2> USE DEF tables
    <2>1. CASE IngestServiceNext /\ UNCHANGED <<workerVars, vectorVars>>
      BY <2>1 DEF IngestServiceNext, UserStep, HandlerStep, InitUpload, VerifyUpload,
         PutObject, CommitRead, IngestRead, RetryBegin, DeleteObject, CommitWrite,
         IngestDirectly, IngestCommit, RetryRefused, DeleteRow, RequestDies
    <2>2. CASE DocProcessorNext
      BY <2>2 DEF DocProcessorNext, WorkerStep, Poll, StartParsing, ParseAndClean,
         ChunkText, EmbedChunks, UpdateStage, SaveResults, SaveRefused, ObjectMissing,
         StageFails, Raise, FinishPublishing, MarkFailed, MarkFails, CommitOffset,
         WorkerCrash
    <2>3. CASE VectorServiceNext
      BY <2>3 DEF VectorServiceNext, VectorStep, PollBatch, UpsertMilvus, AckBatch,
         AckFailed, Acknowledge, CommitDone, CommitFailed, Commit, MilvusFails,
         TxAborts, VectorCrash
    <2>4. CASE UNCHANGED vars
      BY <2>4 DEF vars
    <2> QED
      BY <2>1, <2>2, <2>3, <2>4 DEF Next
  <1> QED
    BY <1>2, <1>3, <1>4, <1>5

-----------------------------------------------------------------------------
(* What is DONE can be found.                                              *)

\* DoneMeansIndexed, and what it rests on while a batch is between the Milvus
\* call and the commit.
IndexInv ==
    /\ DoneMeansIndexed
    /\ vecPc \in {"upserted", "done"} => \A m \in Batch : milvus[m] > 0

LEMMA BatchStays ==
    ASSUME TypeOK, [Next]_vars, UNCHANGED <<batchStart, batchEnd>>, vecPc # "idle"
    PROVE  Batch' = Batch /\ Batch \subseteq Message
  <1>1. batchStart \in 1..batchEnd /\ batchEnd \in 1..Len(embedTopic)
        /\ Len(embedTopic) \in Nat
    BY Growth DEF TypeOK, VectorTypeOK
  <1>2. \A i \in batchStart..batchEnd :
            embedTopic'[i] = embedTopic[i] /\ embedTopic[i] \in Message
    BY <1>1, Growth DEF TypeOK, TablesTypeOK
  <1> QED
    BY <1>2 DEF Batch

\* The steps that mark nothing DONE and take nothing out of an index.
LEMMA IndexFrame ==
    ASSUME TypeOK, IndexInv, [Next]_vars,
           searchIdx' = searchIdx, milvus' = milvus,
           \A m \in Message : task'[m] = "DONE" => task[m] = "DONE",
           vecPc' \in {"upserted", "done"} =>
               vecPc \in {"upserted", "done"} /\ UNCHANGED <<batchStart, batchEnd>>
    PROVE  IndexInv'
  BY BatchStays DEF IndexInv, DoneMeansIndexed

LEMMA IndexStep ==
    ASSUME TypeOK, TypeOK', IndexInv, [Next]_vars
    PROVE  IndexInv'
  <1> USE DEF tables
  <1>1. CASE IngestServiceNext /\ UNCHANGED <<workerVars, vectorVars>>
    <2>1. UNCHANGED <<task, searchIdx, milvus, vecPc, batchStart, batchEnd>>
      BY <1>1 DEF IngestServiceNext, UserStep, HandlerStep, InitUpload, VerifyUpload,
         PutObject, CommitRead, IngestRead, RetryBegin, DeleteObject, CommitWrite,
         IngestDirectly, IngestSend, IngestCommit, RetryRefused, DeleteRow, RequestDies,
         vectorVars
    <2> QED
      BY <2>1, IndexFrame
  <1>2. CASE DocProcessorNext /\ UNCHANGED <<requestVars, vectorVars>>
    <2>1. UNCHANGED <<searchIdx, milvus, vecPc, batchStart, batchEnd>>
      BY <1>2 DEF DocProcessorNext, WorkerStep, Poll, StartParsing, ParseAndClean,
         ChunkText, EmbedChunks, UpdateStage, SaveResults, SaveRefused, ObjectMissing,
         StageFails, Raise, PublishChunk, FinishPublishing, MarkFailed, MarkFails,
         CommitOffset, WorkerCrash, vectorVars
    <2>2. CASE SaveResults
      <3>1. \A m \in Message : task'[m] = "DONE" => task[m] = "DONE"
        BY <2>2 DEF SaveResults
      <3> QED
        BY <2>1, <3>1, IndexFrame
    <2>3. CASE MarkFailed
      <3>1. \A m \in Message : task'[m] = "DONE" => task[m] = "DONE"
        BY <2>3 DEF MarkFailed
      <3> QED
        BY <2>1, <3>1, IndexFrame
    <2>4. CASE UNCHANGED task
      BY <2>1, <2>4, IndexFrame
    <2> QED
      BY <1>2, <2>2, <2>3, <2>4
         DEF DocProcessorNext, WorkerStep, Poll, StartParsing, ParseAndClean,
         ChunkText, EmbedChunks, UpdateStage, SaveRefused, ObjectMissing, StageFails,
         Raise, PublishChunk, FinishPublishing, MarkFails, CommitOffset, WorkerCrash
  <1>3. CASE VectorServiceNext /\ UNCHANGED <<requestVars, workerVars>>
    <2>1. CASE PollBatch
      BY <2>1, IndexFrame DEF PollBatch
    <2>2. CASE UpsertMilvus
      <3>1. vecPc # "idle" /\ UNCHANGED <<batchStart, batchEnd>>
        BY <2>2 DEF UpsertMilvus
      <3>2. Batch' = Batch /\ Batch \subseteq Message
        BY <3>1, BatchStays
      <3>3. milvus \in [Message -> Nat] /\ milvus' = MilvusRows
        BY <2>2 DEF UpsertMilvus, TypeOK, TablesTypeOK
      <3>4. /\ \A m \in Message : milvus[m] > 0 => milvus'[m] > 0
            /\ \A m \in Batch : milvus'[m] > 0
        BY <3>2, <3>3 DEF MilvusRows
      <3> QED
        BY <2>2, <3>2, <3>4 DEF UpsertMilvus, IndexInv, DoneMeansIndexed
    <2>3. CASE MilvusFails
      <3>1. milvus \in [Message -> Nat] /\ milvus' \in {milvus, MilvusRows}
        BY <2>3 DEF MilvusFails, TypeOK, TablesTypeOK
      <3>2. \A m \in Message : milvus[m] > 0 => milvus'[m] > 0
        BY <3>1 DEF MilvusRows
      <3> QED
        BY <2>3, <3>2 DEF MilvusFails, IndexInv, DoneMeansIndexed
    <2>4. CASE AckBatch
      BY <2>4, IndexFrame DEF AckBatch, Acknowledge
    <2>5. CASE AckFailed
      <3>1. vecPc' = "failed" /\ UNCHANGED <<task, searchIdx, milvus>>
        BY <2>5 DEF AckFailed, Acknowledge
      <3> QED
        BY <3>1, IndexFrame
    <2>6. CASE CommitDone
      <3>1. /\ vecPc = "done" /\ vecPc' = "idle"
            /\ task' = MarkTasks("DONE")
            /\ searchIdx' = searchIdx \union Batch
            /\ milvus' = milvus
        BY <2>6 DEF CommitDone, Commit, EndBatch
      <3>2. \A m \in Message : task'[m] = "DONE" => task[m] = "DONE" \/ m \in Batch
        BY <3>1 DEF MarkTasks
      <3> QED
        BY <3>1, <3>2 DEF IndexInv, DoneMeansIndexed
    <2>7. CASE CommitFailed
      <3>1. /\ vecPc' = "idle"
            /\ task' = MarkTasks("FAILED")
            /\ searchIdx' = searchIdx \union Batch
            /\ milvus' = milvus
        BY <2>7 DEF CommitFailed, Commit, EndBatch
      <3>2. \A m \in Message : task'[m] = "DONE" => task[m] = "DONE"
        BY <3>1 DEF MarkTasks
      <3> QED
        BY <3>1, <3>2 DEF IndexInv, DoneMeansIndexed
    <2>8. CASE TxAborts \/ VectorCrash
      <3>1. vecPc' = "idle" /\ UNCHANGED <<task, searchIdx, milvus>>
        BY <2>8 DEF TxAborts, VectorCrash, EndBatch
      <3> QED
        BY <3>1, IndexFrame
    <2> QED
      BY <1>3, <2>1, <2>2, <2>3, <2>4, <2>5, <2>6, <2>7, <2>8
         DEF VectorServiceNext, VectorStep
  <1>4. CASE UNCHANGED vars
    BY <1>4, IndexFrame DEF vars, vectorVars
  <1> QED
    BY <1>1, <1>2, <1>3, <1>4 DEF Next

\* Whatever crashes, fails, is lost, repeated or redelivered: a chunk that is
\* DONE has its full-text row and a Milvus row.
THEOREM DoneIsIndexed == Spec => []DoneMeansIndexed
  <1>1. Init => IndexInv
    <2> SUFFICES ASSUME Init PROVE IndexInv
      OBVIOUS
    <2>1. \A m \in Message : task[m] = "ABSENT"
      BY DEF Init, TablesInit
    <2>2. vecPc = "idle"
      BY DEF Init, VectorInit
    <2> QED
      BY <2>1, <2>2 DEF IndexInv, DoneMeansIndexed
  <1>2. IndexInv => DoneMeansIndexed
    BY DEF IndexInv
  <1>3. TypeOK /\ TypeOK' /\ IndexInv /\ [Next]_vars => IndexInv'
    BY IndexStep
  <1> QED
    BY <1>1, <1>2, <1>3, TypeCorrect, PTL DEF Spec

-----------------------------------------------------------------------------
(* A document in a working status is not forgotten.                        *)

Queued(d) == \E i \in fiPosition + 1 .. Len(fileIngest) : fileIngest[i] = d

\* The worker has the document in hand and has not updated its row since.
Waiting(d) == wkPc \in {"polled"} \union Failing /\ wkDoc = d

\* A request that has sent its message holds the row, so that the worker, whose
\* next statement needs the row, cannot be done with the message before the
\* status PROCESSING is there.
SentIsCarried ==
    \A r \in Request, d \in Doc : reqPc[r] = "sent" /\ reqDoc[r] = d /\ HasRow(d) =>
        /\ <<r, <<"doc", d>>>> \in locks
        /\ Queued(d) \/ Waiting(d)

\* A request works on a document that has been registered.
RequestHasDoc ==
    \A r \in Request, d \in Doc :
        reqPc[r] # "idle" /\ reqDoc[r] = d => docStatus[d] # "ABSENT"

\* After the last stage a working status is that of a second submission.
StagesAreOver ==
    \A d \in Doc : wkPc \in {"saving", "publishing"} /\ wkDoc = d
                     /\ docStatus[d] \in InFlight => Queued(d)

CarriedInv ==
    /\ InFlightIsCarried
    /\ SentIsCarried
    /\ RequestHasDoc
    /\ StagesAreOver

\* No message to the pipeline and no FAILED mark is lost.
NothingLost == MaxFault["sendLost"] = 0 /\ MaxFault["markError"] = 0

LEMMA NoFaults ==
    ASSUME NothingLost, TypeOK
    PROVE  ~Fault("sendLost") /\ ~Fault("markError")
  <1>1. "sendLost" \in FaultKind /\ "markError" \in FaultKind
    BY DEF FaultKind
  <1> QED
    BY <1>1 DEF Fault, NothingLost, TypeOK, TablesTypeOK

\* As long as the worker does nothing, what carries a document goes on doing so.
LEMMA WorkerRests ==
    ASSUME TypeOK, [Next]_vars, UNCHANGED workerVars
    PROVE  \A d \in Doc : /\ Queued(d) => Queued(d)'
                          /\ Waiting(d) => Waiting(d)'
                          /\ Carried(d) => Carried(d)'
  <1>1. fiPosition \in Nat /\ (wkPc # "idle" => wkOffset \in 1..Len(fileIngest))
    BY Growth DEF TypeOK, WorkerTypeOK
  <1>2. wkPc # "idle" => wkDoc' = wkDoc
    BY <1>1, Growth DEF wkDoc, workerVars
  <1>3. \A d \in Doc : Queued(d) => Queued(d)'
    BY <1>1, Growth DEF Queued, workerVars
  <1>4. \A d \in Doc : Waiting(d) => Waiting(d)'
    BY <1>2 DEF Waiting, Failing, workerVars
  <1>5. \A d \in Doc : Carried(d) => Carried(d)'
    BY <1>1, <1>2, Growth DEF Carried, Working, Failing, workerVars
  <1> QED
    BY <1>3, <1>4, <1>5

\* What a step does that takes up no document: no status becomes a working one,
\* no row appears again, no send begins and no lock of a sender goes.
TakesUpNothing ==
    /\ \A d \in Doc :
          /\ docStatus'[d] \in InFlight => docStatus[d] \in InFlight
          /\ docStatus[d] # "ABSENT" => docStatus'[d] # "ABSENT"
          /\ HasRow(d)' => HasRow(d) \/ docStatus[d] = "ABSENT"
    /\ \A r \in Request : reqPc'[r] = "sent" =>
          /\ reqPc[r] = "sent" /\ reqDoc'[r] = reqDoc[r]
          /\ \A l \in locks : l[1] = r => l \in locks'
    /\ \A r \in Request, d \in Doc : reqPc'[r] # "idle" /\ reqDoc'[r] = d =>
          \/ reqPc[r] # "idle" /\ reqDoc[r] = d
          \/ HasRow(d)

LEMMA RestingFrame ==
    ASSUME TypeOK, CarriedInv, [Next]_vars, UNCHANGED workerVars, TakesUpNothing
    PROVE  CarriedInv'
  <1>1. InFlightIsCarried'
    BY WorkerRests DEF CarriedInv, InFlightIsCarried, TakesUpNothing
  <1>2. SentIsCarried'
    <2> SUFFICES ASSUME NEW r \in Request, NEW d \in Doc,
                        reqPc'[r] = "sent", reqDoc'[r] = d, HasRow(d)'
                 PROVE  /\ <<r, <<"doc", d>>>> \in locks'
                        /\ Queued(d)' \/ Waiting(d)'
      BY DEF SentIsCarried
    <2>1. reqPc[r] = "sent" /\ reqDoc[r] = d
      BY DEF TakesUpNothing
    <2>2. HasRow(d)
      BY <2>1 DEF CarriedInv, RequestHasDoc, TakesUpNothing
    <2>3. /\ <<r, <<"doc", d>>>> \in locks
          /\ Queued(d) \/ Waiting(d)
      BY <2>1, <2>2 DEF CarriedInv, SentIsCarried
    <2>4. <<r, <<"doc", d>>>> \in locks'
      BY <2>3 DEF TakesUpNothing
    <2> QED
      BY <2>3, <2>4, WorkerRests
  <1>3. RequestHasDoc'
    BY DEF CarriedInv, RequestHasDoc, HasRow, TakesUpNothing
  <1>4. StagesAreOver'
    <2> SUFFICES ASSUME NEW d \in Doc, wkPc' \in {"saving", "publishing"},
                        wkDoc' = d, docStatus'[d] \in InFlight
                 PROVE  Queued(d)'
      BY DEF StagesAreOver
    <2>1. wkPc = wkPc' /\ wkDoc' = wkDoc
      <3>1. wkPc = wkPc' /\ wkOffset = wkOffset'
        BY DEF workerVars
      <3>2. wkOffset \in 1..Len(fileIngest)
        BY <3>1, Growth DEF TypeOK, WorkerTypeOK
      <3> QED
        BY <3>1, <3>2, Growth DEF wkDoc
    <2>2. Queued(d)
      BY <2>1 DEF CarriedInv, StagesAreOver, TakesUpNothing
    <2> QED
      BY <2>2, WorkerRests
  <1> QED
    BY <1>1, <1>2, <1>3, <1>4 DEF CarriedInv


\* A status that no longer counts as work does not have to be carried.
LEMMA SettingRests ==
    ASSUME TypeOK, NEW d \in Doc, NEW s \in DocStatus \ (InFlight \union {"ABSENT"}),
           SetDoc(d, s)
    PROVE  \A x \in Doc :
              /\ docStatus'[x] \in InFlight => docStatus[x] \in InFlight
              /\ docStatus[x] # "ABSENT" => docStatus'[x] # "ABSENT"
              /\ HasRow(x)' => HasRow(x) \/ docStatus[x] = "ABSENT"
  BY DEF TypeOK, TablesTypeOK, SetDoc, HasRow

LEMMA EndingRests ==
    ASSUME TypeOK, NEW r \in Request, EndRequest(r),
           UNCHANGED locks \/ Unlock(r)
    PROVE  /\ \A q \in Request : reqPc'[q] = "sent" =>
                 /\ reqPc[q] = "sent" /\ reqDoc'[q] = reqDoc[q]
                 /\ \A l \in locks : l[1] = q => l \in locks'
           /\ \A q \in Request, d \in Doc : reqPc'[q] # "idle" /\ reqDoc'[q] = d =>
                 reqPc[q] # "idle" /\ reqDoc[q] = d
  BY DEF TypeOK, RequestTypeOK, EndRequest, Unlock

\* A request that finds its document takes up nothing yet.
LEMMA FindingRests ==
    ASSUME TypeOK, NEW r \in Request, NEW d \in Doc,
           NEW pc \in ReqPc \ {"sent"}, FindDoc(r, d, pc), UNCHANGED docStatus,
           UNCHANGED locks \/ Lock(r, DocRow(d))
    PROVE  TakesUpNothing
  BY DEF TypeOK, RequestTypeOK, FindDoc, Lock, HasRow, TakesUpNothing

LEMMA RequestsRest ==
    ASSUME TypeOK, IngestServiceNext, UNCHANGED <<workerVars, vectorVars>>,
           \A r \in Request : ~IngestSend(r) /\ ~IngestCommit(r)
    PROVE  TakesUpNothing
  <1> USE DEF requestVars, tables
  <1>1. CASE \E d \in Doc : InitUpload(d)
    BY <1>1 DEF InitUpload, TakesUpNothing, InFlight, HasRow, TypeOK, TablesTypeOK
  <1>2. CASE \E d \in Doc : VerifyUpload(d)
    BY <1>2 DEF VerifyUpload, TakesUpNothing, HasRow
  <1>3. CASE \E d \in Doc : \E content \in Uploads : PutObject(d, content)
    BY <1>3 DEF PutObject, TakesUpNothing, HasRow
  <1>4. CASE \E r \in Request, d \in Doc : CommitRead(r, d)
    BY <1>4, FindingRests DEF CommitRead, ReqPc
  <1>5. CASE \E r \in Request, d \in Doc : IngestRead(r, d)
    BY <1>5, FindingRests DEF IngestRead, ReqPc
  <1>6. CASE \E r \in Request, d \in Doc : RetryBegin(r, d)
    BY <1>6, FindingRests DEF RetryBegin, ReqPc
  <1>7. CASE \E r \in Request, d \in Doc : DeleteObject(r, d)
    BY <1>7, FindingRests DEF DeleteObject, ReqPc
  <1>8. CASE \E r \in Request : CommitWrite(r)
    <2> PICK r \in Request : CommitWrite(r)
      BY <1>8
    <2>1. SetDoc(reqDoc[r], "PENDING") \/ UNCHANGED docStatus
      BY DEF CommitWrite
    <2>2. reqDoc[r] \in Doc /\ EndRequest(r) /\ UNCHANGED locks
      BY DEF CommitWrite, TypeOK, RequestTypeOK
    <2>3. "PENDING" \in DocStatus \ (InFlight \union {"ABSENT"})
      BY Statuses DEF InFlight
    <2>4. CASE SetDoc(reqDoc[r], "PENDING")
      BY <2>2, <2>3, <2>4, SettingRests, EndingRests DEF TakesUpNothing
    <2>5. CASE UNCHANGED docStatus
      BY <2>2, <2>5, EndingRests DEF TakesUpNothing, HasRow
    <2> QED
      BY <2>1, <2>4, <2>5
  <1>9. CASE \E r \in Request : IngestDirectly(r)
    <2> PICK r \in Request : IngestDirectly(r)
      BY <1>9
    <2>1. reqDoc[r] \in Doc /\ EndRequest(r) /\ UNCHANGED locks
      BY DEF IngestDirectly, TypeOK, RequestTypeOK
    <2>2. "READY" \in DocStatus \ (InFlight \union {"ABSENT"})
      BY Statuses DEF InFlight
    <2>3. SetDoc(reqDoc[r], "READY")
      BY DEF IngestDirectly
    <2> QED
      BY <2>1, <2>2, <2>3, SettingRests, EndingRests DEF TakesUpNothing
  <1>10. CASE \E r \in Request : RetryRefused(r)
    BY <1>10, EndingRests DEF RetryRefused, TakesUpNothing, HasRow
  <1>11. CASE \E r \in Request : DeleteRow(r)
    <2> PICK r \in Request : DeleteRow(r)
      BY <1>11
    <2>1. reqDoc[r] \in Doc /\ EndRequest(r) /\ UNCHANGED locks
      BY DEF DeleteRow, TypeOK, RequestTypeOK
    <2>2. "GONE" \in DocStatus \ (InFlight \union {"ABSENT"})
      BY Statuses DEF InFlight
    <2>3. SetDoc(reqDoc[r], "GONE")
      BY DEF DeleteRow
    <2> QED
      BY <2>1, <2>2, <2>3, SettingRests, EndingRests DEF TakesUpNothing
  <1>12. CASE \E r \in Request : RequestDies(r)
    BY <1>12, EndingRests DEF RequestDies, TakesUpNothing, HasRow
  <1> QED
    BY <1>1, <1>2, <1>3, <1>4, <1>5, <1>6, <1>7, <1>8, <1>9, <1>10, <1>11, <1>12
    DEF IngestServiceNext, UserStep, HandlerStep

LEMMA ListenerRests ==
    ASSUME TypeOK, VectorServiceNext, UNCHANGED <<requestVars, workerVars>>
    PROVE  TakesUpNothing
  <1>1. /\ \A r \in Request : reqPc'[r] = "sent" =>
              /\ reqPc[r] = "sent" /\ reqDoc'[r] = reqDoc[r]
              /\ \A l \in locks : l[1] = r => l \in locks'
        /\ \A r \in Request, d \in Doc : reqPc'[r] # "idle" /\ reqDoc'[r] = d =>
              reqPc[r] # "idle" /\ reqDoc[r] = d
    BY ListenerAssumption
    DEF requestVars, tables, VectorServiceNext, VectorStep, PollBatch, UpsertMilvus,
        AckBatch, AckFailed, Acknowledge, CommitDone, CommitFailed, Commit,
        MilvusFails, TxAborts, VectorCrash, Lock, Unlock
  <1>2. CASE CommitDone \/ CommitFailed
    <2>1. firstDoc \in Doc
      <3>1. embedTopic \in Seq(Message) /\ batchStart \in 1..Len(embedTopic)
        BY <1>2 DEF CommitDone, CommitFailed, Commit, TypeOK, TablesTypeOK, VectorTypeOK
      <3>2. embedTopic[batchStart] \in Doc \X Chunk
        BY <3>1 DEF Message
      <3> QED
        BY <3>2 DEF firstDoc
    <2>2. /\ "READY" \in DocStatus \ (InFlight \union {"ABSENT"})
          /\ "FAILED" \in DocStatus \ (InFlight \union {"ABSENT"})
      BY Statuses DEF InFlight
    <2>3. \/ SetDoc(firstDoc, "READY")
          \/ SetDoc(firstDoc, "FAILED")
          \/ UNCHANGED docStatus
      BY <1>2 DEF CommitDone, CommitFailed
    <2>4. CASE UNCHANGED docStatus
      BY <1>1, <2>4 DEF TakesUpNothing, HasRow
    <2>5. CASE SetDoc(firstDoc, "READY")
      BY <1>1, <2>1, <2>2, <2>5, SettingRests DEF TakesUpNothing
    <2>6. CASE SetDoc(firstDoc, "FAILED")
      BY <1>1, <2>1, <2>2, <2>6, SettingRests DEF TakesUpNothing
    <2> QED
      BY <2>3, <2>4, <2>5, <2>6
  <1>3. CASE ~CommitDone /\ ~CommitFailed
    <2>1. UNCHANGED docStatus
      BY <1>3
      DEF tables, VectorServiceNext, VectorStep, PollBatch, UpsertMilvus,
          AckBatch, AckFailed, Acknowledge, MilvusFails, TxAborts, VectorCrash
    <2> QED
      BY <1>1, <2>1 DEF TakesUpNothing, HasRow
  <1> QED
    BY <1>2, <1>3


\* The send and the status PROCESSING of an ingest request.
LEMMA SendCarries ==
    ASSUME TypeOK, CarriedInv, NothingLost, [Next]_vars,
           UNCHANGED <<workerVars, vectorVars>>,
           NEW r \in Request, IngestSend(r)
    PROVE  CarriedInv'
  <1>0. PICK x \in Doc : x = reqDoc[r]
    BY DEF IngestSend, TypeOK, RequestTypeOK
  <1>1. fileIngest \in Seq(Doc) /\ fiPosition \in 0..Len(fileIngest)
    BY DEF TypeOK, TablesTypeOK, WorkerTypeOK
  <1>2. fileIngest' = Append(fileIngest, x)
    BY <1>0, NoFaults DEF IngestSend
  <1>3. UNCHANGED workerVars /\ UNCHANGED docStatus /\ reqDoc' = reqDoc
        /\ reqPc' = [reqPc EXCEPT ![r] = "sent"]
    BY DEF IngestSend
  <1>4. Queued(x)'
    <2>1. /\ Len(fileIngest') = Len(fileIngest) + 1
          /\ fileIngest'[Len(fileIngest) + 1] = x
      BY <1>1, <1>2, AppendFacts
    <2>2. fiPosition' = fiPosition /\ Len(fileIngest) \in Nat
      BY <1>1, <1>3 DEF workerVars
    <2> QED
      BY <1>1, <2>1, <2>2 DEF Queued
  <1>5. InFlightIsCarried'
    BY <1>3, WorkerRests DEF CarriedInv, InFlightIsCarried
  <1>6. SentIsCarried'
    <2> SUFFICES ASSUME NEW q \in Request, NEW d \in Doc,
                        reqPc'[q] = "sent", reqDoc'[q] = d, HasRow(d)'
                 PROVE  /\ <<q, <<"doc", d>>>> \in locks'
                        /\ Queued(d)' \/ Waiting(d)'
      BY DEF SentIsCarried
    <2>1. HasRow(d)
      BY <1>3 DEF HasRow
    <2>2. CASE q = r
      <3>1. d = x
        BY <1>0, <1>3, <2>2
      <3>2. <<q, <<"doc", d>>>> \in locks'
        BY <1>0, <2>1, <2>2, <3>1 DEF IngestSend, Lock, DocRow
      <3> QED
        BY <1>4, <3>1, <3>2
    <2>3. CASE q # r
      <3>1. reqPc[q] = "sent" /\ reqDoc[q] = d
        BY <1>3, <2>3 DEF TypeOK, RequestTypeOK
      <3>2. /\ <<q, <<"doc", d>>>> \in locks
            /\ Queued(d) \/ Waiting(d)
        BY <2>1, <3>1 DEF CarriedInv, SentIsCarried
      <3>3. <<q, <<"doc", d>>>> \in locks'
        BY <3>2 DEF IngestSend, Lock
      <3> QED
        BY <1>3, <3>2, <3>3, WorkerRests
    <2> QED
      BY <2>2, <2>3
  <1>7. RequestHasDoc'
    BY <1>3 DEF CarriedInv, RequestHasDoc, IngestSend, TypeOK, RequestTypeOK
  <1>8. StagesAreOver'
    <2> SUFFICES ASSUME NEW d \in Doc, wkPc' \in {"saving", "publishing"},
                        wkDoc' = d, docStatus'[d] \in InFlight
                 PROVE  Queued(d)'
      BY DEF StagesAreOver
    <2>1. wkPc = wkPc' /\ wkOffset = wkOffset'
      BY <1>3 DEF workerVars
    <2>2. wkOffset \in 1..Len(fileIngest)
      BY <2>1, Growth DEF TypeOK, WorkerTypeOK
    <2>3. wkDoc' = wkDoc
      BY <2>1, <2>2, Growth DEF wkDoc
    <2>4. Queued(d)
      BY <1>3, <2>1, <2>3 DEF CarriedInv, StagesAreOver
    <2> QED
      BY <1>3, <2>4, WorkerRests
  <1> QED
    BY <1>5, <1>6, <1>7, <1>8 DEF CarriedInv

LEMMA CommitCarries ==
    ASSUME TypeOK, CarriedInv, [Next]_vars, UNCHANGED <<workerVars, vectorVars>>,
           NEW r \in Request, IngestCommit(r)
    PROVE  CarriedInv'
  <1> DEFINE x == reqDoc[r]
  <1>1. x \in Doc /\ reqPc[r] = "sent" /\ SetDoc(x, "PROCESSING") /\ Unlock(r)
        /\ EndRequest(r) /\ UNCHANGED <<workerVars, fileIngest>>
    BY DEF IngestCommit, TypeOK, RequestTypeOK
  <1>2. HasRow(x) => Queued(x) \/ Waiting(x)
    BY <1>1 DEF CarriedInv, SentIsCarried
  <1>3. Queued(x) \/ Waiting(x) => Carried(x)
    BY DEF Queued, Waiting, Carried, Working
  <1>4. \A d \in Doc : /\ Queued(d)' <=> Queued(d)
                       /\ Waiting(d)' <=> Waiting(d)
                       /\ Carried(d)' <=> Carried(d)
    BY <1>1 DEF Queued, Waiting, Carried, wkDoc, workerVars
  <1>5. \A d \in Doc : docStatus'[d] # docStatus[d] =>
            d = x /\ HasRow(x) /\ docStatus'[x] = "PROCESSING"
    BY <1>1 DEF SetDoc, TypeOK, TablesTypeOK
  <1>6. \A d \in Doc : /\ HasRow(d)' => HasRow(d)
                       /\ docStatus[d] # "ABSENT" => docStatus'[d] # "ABSENT"
    BY <1>1 DEF SetDoc, HasRow, TypeOK, TablesTypeOK
  <1>7. InFlightIsCarried'
    BY <1>2, <1>3, <1>4, <1>5 DEF CarriedInv, InFlightIsCarried
  <1>8. SentIsCarried'
    BY <1>1, <1>4, <1>6
    DEF CarriedInv, SentIsCarried, EndRequest, Unlock, TypeOK, RequestTypeOK
  <1>9. RequestHasDoc'
    BY <1>1, <1>6
    DEF CarriedInv, RequestHasDoc, EndRequest, TypeOK, RequestTypeOK
  <1>10. StagesAreOver'
    <2> SUFFICES ASSUME NEW d \in Doc, wkPc' \in {"saving", "publishing"},
                        wkDoc' = d, docStatus'[d] \in InFlight
                 PROVE  Queued(d)'
      BY DEF StagesAreOver
    <2>1. wkPc \in {"saving", "publishing"} /\ wkDoc = d
      BY <1>1 DEF wkDoc, workerVars
    <2>2. CASE docStatus'[d] = docStatus[d]
      BY <1>4, <2>1, <2>2 DEF CarriedInv, StagesAreOver
    <2>3. CASE docStatus'[d] # docStatus[d]
      <3>1. ~Waiting(x)
        BY <2>1 DEF Waiting, Failing
      <3> QED
        BY <1>2, <1>4, <1>5, <2>3, <3>1
    <2> QED
      BY <2>2, <2>3
  <1> QED
    BY <1>7, <1>8, <1>9, <1>10 DEF CarriedInv


\* What every step of the worker leaves alone.
LEMMA WorkerFrame ==
    ASSUME TypeOK, DocProcessorNext, UNCHANGED <<requestVars, vectorVars>>
    PROVE  /\ UNCHANGED <<fileIngest, locks, reqPc, reqDoc>>
           /\ \A d \in Doc : /\ HasRow(d)' => HasRow(d)
                             /\ docStatus[d] # "ABSENT" => docStatus'[d] # "ABSENT"
                             /\ d # wkDoc => docStatus'[d] = docStatus[d]
  <1>1. UNCHANGED <<fileIngest, locks, reqPc, reqDoc>>
    BY DEF requestVars, tables, DocProcessorNext, WorkerStep, Poll, UpdateStage,
           StartParsing, ParseAndClean, ChunkText, EmbedChunks, SaveResults, Raise,
           SaveRefused, ObjectMissing, StageFails, PublishChunk, FinishPublishing,
           MarkFailed, MarkFails, CommitOffset, WorkerCrash
  <1>2. \/ UNCHANGED docStatus
        \/ \E s \in Stage \union {"FAILED"} : SetDoc(wkDoc, s)
    BY DEF tables, DocProcessorNext, WorkerStep, Poll, UpdateStage,
           StartParsing, ParseAndClean, ChunkText, EmbedChunks, SaveResults, Raise,
           SaveRefused, ObjectMissing, StageFails, PublishChunk, FinishPublishing,
           MarkFailed, MarkFails, CommitOffset, WorkerCrash, Stage
  <1>3. \A d \in Doc : /\ HasRow(d)' => HasRow(d)
                       /\ docStatus[d] # "ABSENT" => docStatus'[d] # "ABSENT"
                       /\ d # wkDoc => docStatus'[d] = docStatus[d]
    BY <1>2 DEF SetDoc, HasRow, Stage, TypeOK, TablesTypeOK
  <1> QED
    BY <1>1, <1>3

\* What a document in hand needs of a step of the worker.
WorkerKeeps ==
    /\ \A d \in Doc : Carried(d) =>
          \/ Carried(d)'
          \/ docStatus'[d] \notin InFlight
    /\ \A d \in Doc : docStatus'[d] \in InFlight =>
          docStatus[d] \in InFlight \/ Carried(d)'
    /\ \A r \in Request, d \in Doc :
          <<r, <<"doc", d>>>> \in locks /\ (Queued(d) \/ Waiting(d))
              => Queued(d)' \/ Waiting(d)'
    /\ StagesAreOver'

LEMMA KeepingCarries ==
    ASSUME TypeOK, CarriedInv, DocProcessorNext,
           UNCHANGED <<requestVars, vectorVars>>, WorkerKeeps
    PROVE  CarriedInv'
  <1>1. InFlightIsCarried'
    BY DEF CarriedInv, InFlightIsCarried, InFlight, WorkerKeeps
  <1>2. SentIsCarried'
    BY WorkerFrame DEF CarriedInv, SentIsCarried, WorkerKeeps
  <1>3. RequestHasDoc'
    BY WorkerFrame DEF CarriedInv, RequestHasDoc
  <1> QED
    BY <1>1, <1>2, <1>3 DEF CarriedInv, WorkerKeeps

LEMMA WorkerCarries ==
    ASSUME TypeOK, CarriedInv, NothingLost, DocProcessorNext,
           UNCHANGED <<requestVars, vectorVars>>
    PROVE  CarriedInv'
  <1> USE DEF tables
  <1>1. /\ fileIngest \in Seq(Doc) /\ fileIngest' = fileIngest
        /\ fiPosition \in 0..Len(fileIngest) /\ fiCommitted \in 0..fiPosition
        /\ wkPc # "idle" => wkOffset \in fiCommitted + 1 .. fiPosition
    BY WorkerFrame DEF TypeOK, TablesTypeOK, WorkerTypeOK
  <1>2. \A d \in Doc : d # wkDoc => docStatus'[d] = docStatus[d]
    BY WorkerFrame
  <1>3. ASSUME UNCHANGED fiPosition
        PROVE  \A d \in Doc : Queued(d)' <=> Queued(d)
    BY <1>1, <1>3 DEF Queued
  <1>4. ASSUME UNCHANGED wkOffset
        PROVE  wkDoc' = wkDoc
    BY <1>1, <1>4 DEF wkDoc
  <1>5. CASE Poll
    <2>1. \A d \in Doc : Queued(d) => Queued(d)' \/ Waiting(d)'
      BY <1>1, <1>5 DEF Poll, Queued, Waiting, wkDoc
    <2>2. \A d \in Doc : (Carried(d) => Queued(d)) /\ ~Waiting(d)
      BY <1>5 DEF Poll, Carried, Queued, Waiting, Working, Failing
    <2>3. \A d \in Doc : Queued(d)' \/ Waiting(d)' => Carried(d)'
      BY DEF Carried, Queued, Waiting, Working
    <2>4. WorkerKeeps
      BY <1>5, <2>1, <2>2, <2>3 DEF Poll, WorkerKeeps, StagesAreOver
    <2> QED
      BY <2>4, KeepingCarries
  <1>6. CASE \/ StartParsing \/ ParseAndClean \/ ChunkText \/ EmbedChunks
    <2>1. /\ Free(BothRows(wkDoc)) /\ UNCHANGED <<fiPosition, wkOffset>>
          /\ wkPc' \in {"parsing", "chunking", "embedding", "saving"}
          /\ wkPc' = "saving" => SetDoc(wkDoc, "VECTOR_PENDING")
      BY <1>6 DEF StartParsing, ParseAndClean, ChunkText, EmbedChunks, UpdateStage
    <2>2. \A d \in Doc : Carried(d) => Carried(d)'
      BY <1>1, <1>4, <1>6, <2>1
      DEF Carried, Working, StartParsing, ParseAndClean, ChunkText, EmbedChunks,
          UpdateStage
    <2>3. Carried(wkDoc)'
      BY <1>4, <2>1 DEF Carried, Working, wkDoc
    <2>4. \A d \in Doc : docStatus'[d] \in InFlight =>
              docStatus[d] \in InFlight \/ Carried(d)'
      BY <1>2, <1>4, <2>1 DEF Carried, Working
    <2>5. \A r \in Request, d \in Doc : <<r, <<"doc", d>>>> \in locks => d # wkDoc
      BY <2>1 DEF Free, BothRows, DocRow
    <2>6. StagesAreOver'
      <3> SUFFICES ASSUME NEW d \in Doc, wkPc' \in {"saving", "publishing"},
                          wkDoc' = d, docStatus'[d] \in InFlight
                   PROVE  FALSE
        BY DEF StagesAreOver
      <3>1. d = wkDoc /\ SetDoc(d, "VECTOR_PENDING")
        BY <1>4, <2>1
      <3> QED
        BY <3>1 DEF SetDoc, HasRow, InFlight, TypeOK, TablesTypeOK
    <2>7. WorkerKeeps
      BY <1>3, <2>1, <2>2, <2>4, <2>5, <2>6 DEF WorkerKeeps, Waiting
    <2> QED
      BY <2>7, KeepingCarries
  <1>7. CASE SaveResults \/ PublishChunk
    <2>1. UNCHANGED <<docStatus, fiPosition, wkOffset>>
          /\ wkPc \in {"saving", "publishing"} /\ wkPc' = "publishing"
      BY <1>7 DEF SaveResults, PublishChunk
    <2>2. WorkerKeeps
      BY <1>1, <1>3, <1>4, <2>1
      DEF WorkerKeeps, CarriedInv, StagesAreOver, Carried, Waiting, Working, Failing
    <2> QED
      BY <2>2, KeepingCarries
  <1>8. CASE SaveRefused \/ ObjectMissing \/ StageFails
    <2>1. UNCHANGED <<docStatus, fiPosition, wkOffset>>
          /\ wkPc \in Working /\ wkPc' \in Failing
      BY <1>8 DEF SaveRefused, ObjectMissing, StageFails, Raise, Failing, Working
    <2>2. WorkerKeeps
      BY <1>1, <1>3, <1>4, <2>1
      DEF WorkerKeeps, StagesAreOver, Carried, Waiting, Working, Failing
    <2> QED
      BY <2>2, KeepingCarries
  <1>9. CASE FinishPublishing
    <2>1. UNCHANGED <<docStatus, fiPosition, wkOffset>>
          /\ wkPc = "publishing" /\ wkPc' = "done"
      BY <1>9 DEF FinishPublishing
    <2>2. \A d \in Doc : Carried(d) /\ docStatus[d] \in InFlight => Queued(d)
      BY <2>1 DEF CarriedInv, StagesAreOver, Carried, Queued
    <2>3. \A d \in Doc : Queued(d)' => Carried(d)'
      BY DEF Queued, Carried
    <2>4. WorkerKeeps
      BY <1>3, <2>1, <2>2, <2>3 DEF WorkerKeeps, StagesAreOver, Waiting, Failing, InFlight
    <2> QED
      BY <2>4, KeepingCarries
  <1>10. CASE CommitOffset
    <2>1. UNCHANGED <<docStatus, fiPosition>> /\ wkPc = "done" /\ wkPc' = "idle"
      BY <1>10 DEF CommitOffset, EndMessage
    <2>2. \A d \in Doc : (Carried(d) => Queued(d)) /\ (Queued(d)' => Carried(d)')
      BY <2>1 DEF Queued, Carried, Working, Failing
    <2>3. WorkerKeeps
      BY <1>3, <2>1, <2>2 DEF WorkerKeeps, StagesAreOver, Waiting, Failing, InFlight
    <2> QED
      BY <2>3, KeepingCarries
  <1>11. CASE MarkFailed
    <2>1. /\ UNCHANGED fiPosition /\ Free(BothRows(wkDoc)) /\ SetDoc(wkDoc, "FAILED")
          /\ wkPc' \in {"done", "idle"}
      BY <1>11 DEF MarkFailed, AfterFailure, EndMessage
    <2>2. docStatus'[wkDoc] \notin InFlight \/ wkDoc \notin Doc
      BY <2>1 DEF SetDoc, HasRow, InFlight, TypeOK, TablesTypeOK
    <2>3. \A d \in Doc : d # wkDoc => (Carried(d) => Queued(d)) /\ ~Waiting(d)
      BY DEF Queued, Carried, Waiting
    <2>4. \A d \in Doc : Queued(d)' => Carried(d)'
      BY DEF Queued, Carried
    <2>5. \A r \in Request, d \in Doc : <<r, <<"doc", d>>>> \in locks => d # wkDoc
      BY <2>1 DEF Free, BothRows, DocRow
    <2>6. WorkerKeeps
      BY <1>2, <1>3, <2>1, <2>2, <2>3, <2>4, <2>5
      DEF WorkerKeeps, StagesAreOver, InFlight
    <2> QED
      BY <2>6, KeepingCarries
  <1>12. CASE WorkerCrash
    <2>1. UNCHANGED docStatus /\ fiPosition' = fiCommitted /\ wkPc' = "idle"
      BY <1>12 DEF WorkerCrash, EndMessage
    <2>2. \A d \in Doc : Queued(d) => Queued(d)'
      BY <1>1, <2>1 DEF Queued
    <2>3. \A d \in Doc : wkPc # "idle" /\ wkDoc = d => Queued(d)'
      BY <1>1, <2>1 DEF Queued, wkDoc
    <2>4. \A d \in Doc : /\ Queued(d)' => Carried(d)'
                         /\ Carried(d) \/ Waiting(d) =>
                               Queued(d) \/ (wkPc # "idle" /\ wkDoc = d)
      BY DEF Queued, Carried, Waiting, Working, Failing
    <2>5. WorkerKeeps
      BY <2>1, <2>2, <2>3, <2>4 DEF WorkerKeeps, StagesAreOver, InFlight
    <2> QED
      BY <2>5, KeepingCarries
  <1>13. ~MarkFails
    BY NoFaults DEF MarkFails
  <1> QED
    BY <1>5, <1>6, <1>7, <1>8, <1>9, <1>10, <1>11, <1>12, <1>13
    DEF DocProcessorNext, WorkerStep

LEMMA CarriedStep == NothingLost /\ TypeOK /\ CarriedInv /\ [Next]_vars => CarriedInv'
  <1> SUFFICES ASSUME NothingLost, TypeOK, CarriedInv, [Next]_vars
               PROVE  CarriedInv'
    OBVIOUS
  <1>1. CASE IngestServiceNext /\ UNCHANGED <<workerVars, vectorVars>>
    <2>1. CASE \E r \in Request : IngestSend(r)
      BY <1>1, <2>1, SendCarries
    <2>2. CASE \E r \in Request : IngestCommit(r)
      BY <1>1, <2>2, CommitCarries
    <2>3. CASE \A r \in Request : ~IngestSend(r) /\ ~IngestCommit(r)
      <3>1. TakesUpNothing
        BY <1>1, <2>3, RequestsRest
      <3> QED
        BY <1>1, <3>1, RestingFrame
    <2> QED
      BY <2>1, <2>2, <2>3
  <1>2. CASE DocProcessorNext /\ UNCHANGED <<requestVars, vectorVars>>
    BY <1>2, WorkerCarries
  <1>3. CASE VectorServiceNext /\ UNCHANGED <<requestVars, workerVars>>
    BY <1>3, ListenerRests, RestingFrame
  <1>4. CASE UNCHANGED vars
    BY <1>4
    DEF vars, tables, requestVars, workerVars, CarriedInv, InFlightIsCarried,
        SentIsCarried, RequestHasDoc, StagesAreOver, Carried, Queued, Waiting, wkDoc,
        HasRow
  <1> QED
    BY <1>1, <1>2, <1>3, <1>4 DEF Next

\* If no send to file-ingest and no FAILED mark is lost, a document in a working
\* status always has a message, or the worker, to carry it on: through crashes
\* and redeliveries of the document processor, requests that die between the send
\* and the commit, double submissions and deletions.
THEOREM NothingForgotten ==
    ASSUME NothingLost
    PROVE  Spec => []InFlightIsCarried
  <1>1. Init => CarriedInv
    BY DEF Init, TablesInit, RequestInit, WorkerInit, CarriedInv, InFlightIsCarried,
           SentIsCarried, RequestHasDoc, StagesAreOver, InFlight
  <1>2. CarriedInv => InFlightIsCarried
    BY DEF CarriedInv
  <1>3. TypeOK /\ CarriedInv /\ [Next]_vars => CarriedInv'
    BY CarriedStep
  <1> QED
    BY <1>1, <1>2, <1>3, TypeCorrect, PTL DEF Spec

=============================================================================
