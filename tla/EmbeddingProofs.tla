--------------------------- MODULE EmbeddingProofs ---------------------------
(***************************************************************************)
(* Theorems about IngestionPipeline that go beyond one service: what is    *)
(* queued is stored, a document is committed once, what is embedded stays  *)
(* embedded, READY means embedded, and an acknowledged message is settled. *)
(***************************************************************************)
EXTENDS IngestionPipelineProofs

-----------------------------------------------------------------------------
(* The rows come before the messages.                                      *)

Untouched == {"ABSENT", "DRAFT", "GONE"}   \* statuses of no committed document

\* A document has a version row from its commit on: whoever is about to queue
\* it, and each message that names it, comes later.
VersionInv ==
    /\ \A d \in Doc : docStatus[d] \notin Untouched => versionStatus[d] # "ABSENT"
    /\ \A r \in Request :
          reqPc[r] \in {"ingest", "sent"} => versionStatus[reqDoc[r]] # "ABSENT"
    /\ \A i \in 1..Len(fileIngest) : versionStatus[fileIngest[i]] # "ABSENT"
    /\ \A i \in 1..Len(embedTopic) : versionStatus[embedTopic[i][1]] # "ABSENT"

\* The documents the two consumers have in hand.
LEMMA InHand ==
    ASSUME TypeOK
    PROVE  /\ wkPc # "idle" => wkOffset \in 1..Len(fileIngest) /\ wkDoc \in Doc
           /\ vecPc # "idle" => /\ batchStart \in 1..Len(embedTopic)
                                /\ embedTopic[batchStart] \in Message
                                /\ firstDoc \in Doc
           /\ \A i \in 1..Len(fileIngest) : fileIngest[i] \in Doc
           /\ \A i \in 1..Len(embedTopic) :
                 embedTopic[i] \in Message /\ embedTopic[i][1] \in Doc
           /\ Len(fileIngest) \in Nat /\ Len(embedTopic) \in Nat
  <1>1. /\ fileIngest \in Seq(Doc) /\ embedTopic \in Seq(Message)
        /\ Len(fileIngest) \in Nat /\ Len(embedTopic) \in Nat
    BY DEF TypeOK, TablesTypeOK
  <1>2. \A i \in 1..Len(fileIngest) : fileIngest[i] \in Doc
    BY <1>1
  <1>3. \A i \in 1..Len(embedTopic) :
            embedTopic[i] \in Message /\ embedTopic[i][1] \in Doc
    <2> SUFFICES ASSUME NEW i \in 1..Len(embedTopic)
                 PROVE  embedTopic[i] \in Message /\ embedTopic[i][1] \in Doc
      OBVIOUS
    <2>1. embedTopic[i] \in Message
      BY <1>1
    <2> QED
      BY <2>1 DEF Message
  <1>4. wkPc # "idle" => wkOffset \in 1..Len(fileIngest)
    BY <1>1 DEF TypeOK, WorkerTypeOK
  <1>5. vecPc # "idle" => batchStart \in 1..Len(embedTopic)
    BY <1>1 DEF TypeOK, VectorTypeOK
  <1> QED
    BY <1>1, <1>2, <1>3, <1>4, <1>5 DEF wkDoc, firstDoc

\* What a step must leave of the versions.
VersionsStay ==
    \A d \in Doc :
        /\ versionStatus[d] # "ABSENT" => versionStatus'[d] # "ABSENT"
        /\ docStatus'[d] \notin Untouched =>
              docStatus[d] \notin Untouched \/ versionStatus'[d] # "ABSENT"

\* The steps that put nothing on a topic and begin no ingest.
LEMMA VersionFrame ==
    ASSUME TypeOK, VersionInv, [Next]_vars, VersionsStay,
           \A r \in Request : reqPc'[r] \in {"ingest", "sent"} =>
               versionStatus'[reqDoc'[r]] # "ABSENT",
           \A i \in 1..Len(fileIngest') :
               i \in 1..Len(fileIngest) \/ versionStatus'[fileIngest'[i]] # "ABSENT",
           \A i \in 1..Len(embedTopic') :
               i \in 1..Len(embedTopic) \/ versionStatus'[embedTopic'[i][1]] # "ABSENT"
    PROVE  VersionInv'
  <1>1. \A i \in 1..Len(fileIngest') : versionStatus'[fileIngest'[i]] # "ABSENT"
    BY Growth, InHand DEF VersionInv, VersionsStay
  <1>2. \A i \in 1..Len(embedTopic') : versionStatus'[embedTopic'[i][1]] # "ABSENT"
    BY Growth, InHand DEF VersionInv, VersionsStay
  <1>3. \A d \in Doc : docStatus'[d] \notin Untouched => versionStatus'[d] # "ABSENT"
    BY DEF VersionInv, VersionsStay
  <1> QED
    BY <1>1, <1>2, <1>3 DEF VersionInv

\* An UPDATE of a document that has a version.
LEMMA SetDocStays ==
    ASSUME TypeOK, NEW d \in Doc, NEW s \in DocStatus, SetDoc(d, s),
           versionStatus'[d] # "ABSENT" \/ s \in Untouched
    PROVE  \A x \in Doc : docStatus'[x] \notin Untouched =>
               docStatus[x] \notin Untouched \/ versionStatus'[x] # "ABSENT"
  BY DEF SetDoc, HasRow, TypeOK, TablesTypeOK

LEMMA SetVersionStays ==
    ASSUME TypeOK, NEW d \in Doc, NEW s \in VersionStatus \ {"ABSENT"},
           SetVersion(d, s)
    PROVE  \A x \in Doc : versionStatus'[x] = "ABSENT" <=> versionStatus[x] = "ABSENT"
  BY DEF SetVersion, TypeOK, TablesTypeOK

LEMMA IngestServiceVersions ==
    ASSUME TypeOK, VersionInv, IngestServiceNext, UNCHANGED <<workerVars, vectorVars>>
    PROVE  VersionInv'
  <1> USE DEF tables, requestVars
  <1>0. [Next]_vars
    BY DEF Next
  <1>1. reqPc \in [Request -> ReqPc] /\ reqDoc \in [Request -> Doc \union {NoDoc}]
        /\ \A r \in Request : reqPc[r] # "idle" => reqDoc[r] \in Doc
    BY DEF TypeOK, RequestTypeOK
  <1>2. ASSUME VersionsStay, UNCHANGED <<fileIngest, embedTopic>>,
               \A r \in Request : reqPc'[r] \in {"ingest", "sent"} =>
                   versionStatus[reqDoc'[r]] # "ABSENT" /\ reqDoc'[r] \in Doc
        PROVE  VersionInv'
    BY <1>0, <1>2, VersionFrame DEF VersionsStay
  <1>3. ASSUME NEW r \in Request, EndRequest(r)
        PROVE  \A q \in Request : reqPc'[q] \in {"ingest", "sent"} =>
                   versionStatus[reqDoc'[q]] # "ABSENT" /\ reqDoc'[q] \in Doc
    BY <1>1, <1>3 DEF EndRequest, VersionInv
  <1>4. ASSUME UNCHANGED <<docStatus, versionStatus>>
        PROVE  VersionsStay
    BY <1>4 DEF VersionsStay
  <1>5. \A r \in Request : reqPc[r] \in {"ingest", "sent"} =>
            versionStatus[reqDoc[r]] # "ABSENT" /\ reqDoc[r] \in Doc
    BY <1>1 DEF VersionInv
  <1>6. CASE \E d \in Doc : InitUpload(d)
    <2>1. VersionsStay
      BY <1>6 DEF InitUpload, VersionsStay, Untouched, TypeOK, TablesTypeOK
    <2> QED
      BY <1>2, <1>5, <1>6, <2>1 DEF InitUpload
  <1>7. CASE \/ \E d \in Doc : VerifyUpload(d)
             \/ \E d \in Doc : \E content \in Uploads : PutObject(d, content)
    BY <1>2, <1>4, <1>5, <1>7 DEF VerifyUpload, PutObject
  <1>8. CASE \E r \in Request, d \in Doc :
                 CommitRead(r, d) \/ IngestRead(r, d) \/ RetryBegin(r, d) \/ DeleteObject(r, d)
    <2> PICK r \in Request, d \in Doc :
                 CommitRead(r, d) \/ IngestRead(r, d) \/ RetryBegin(r, d) \/ DeleteObject(r, d)
      BY <1>8
    <2>1. /\ UNCHANGED <<docStatus, versionStatus, fileIngest, embedTopic>>
          /\ \E pc \in {"commit", "ingest", "retry", "delete"} :
                FindDoc(r, d, pc) /\ (pc = "ingest" => docStatus[d] = "PENDING")
      BY DEF CommitRead, IngestRead, RetryBegin, DeleteObject, IngestAdmits
    <2>2. docStatus[d] = "PENDING" => versionStatus[d] # "ABSENT"
      BY DEF VersionInv, Untouched
    <2>3. \A q \in Request : reqPc'[q] \in {"ingest", "sent"} =>
              versionStatus[reqDoc'[q]] # "ABSENT" /\ reqDoc'[q] \in Doc
      BY <1>1, <1>5, <2>1, <2>2 DEF FindDoc
    <2> QED
      BY <1>2, <1>4, <2>1, <2>3
  <1>9. CASE \E r \in Request : CommitWrite(r)
    <2> PICK r \in Request : CommitWrite(r)
      BY <1>9
    <2>1. reqDoc[r] \in Doc /\ EndRequest(r) /\ UNCHANGED <<fileIngest, embedTopic>>
      BY <1>1 DEF CommitWrite
    <2>2. VersionsStay
      <3>1. CASE VersionInsertSucceeds(reqDoc[r])
        BY <2>1, <3>1
        DEF CommitWrite, VersionsStay, SetDoc, HasRow, TypeOK, TablesTypeOK
      <3>2. CASE ~VersionInsertSucceeds(reqDoc[r])
        BY <1>4, <3>2 DEF CommitWrite
      <3> QED
        BY <3>1, <3>2
    <2> QED
      BY <1>2, <1>3, <2>1, <2>2
  <1>10. CASE \E r \in Request : IngestDirectly(r) \/ IngestCommit(r) \/ DeleteRow(r)
    <2> PICK r \in Request : IngestDirectly(r) \/ IngestCommit(r) \/ DeleteRow(r)
      BY <1>10
    <2>1. /\ reqDoc[r] \in Doc /\ EndRequest(r)
          /\ UNCHANGED <<versionStatus, fileIngest, embedTopic>>
      BY <1>1 DEF IngestDirectly, IngestCommit, DeleteRow
    <2>2. \E s \in {"READY", "PROCESSING", "GONE"} :
              SetDoc(reqDoc[r], s) /\ (s # "GONE" => versionStatus[reqDoc[r]] # "ABSENT")
      BY <1>5 DEF IngestDirectly, IngestCommit, DeleteRow
    <2>3. VersionsStay
      BY <2>1, <2>2, SetDocStays, Statuses DEF VersionsStay, Untouched
    <2> QED
      BY <1>2, <1>3, <2>1, <2>3
  <1>11. CASE \E r \in Request : IngestSend(r)
    <2> PICK r \in Request : IngestSend(r)
      BY <1>11
    <2>1. /\ reqDoc[r] \in Doc /\ versionStatus[reqDoc[r]] # "ABSENT"
          /\ UNCHANGED <<docStatus, versionStatus, embedTopic, reqDoc>>
          /\ fileIngest' \in {fileIngest, Append(fileIngest, reqDoc[r])}
      BY <1>1, <1>5 DEF IngestSend
    <2>2. \A q \in Request : reqPc'[q] \in {"ingest", "sent"} =>
              versionStatus'[reqDoc'[q]] # "ABSENT"
      BY <1>5, <2>1 DEF IngestSend
    <2>3. \A i \in 1..Len(fileIngest') :
              i \in 1..Len(fileIngest) \/ versionStatus'[fileIngest'[i]] # "ABSENT"
      <3>1. CASE fileIngest' = Append(fileIngest, reqDoc[r])
        <4>1. fileIngest \in Seq(Doc)
          BY DEF TypeOK, TablesTypeOK
        <4> QED
          BY <2>1, <3>1, <4>1
      <3> QED
        BY <2>1, <3>1
    <2> QED
      BY <1>0, <1>4, <2>1, <2>2, <2>3, VersionFrame
  <1>12. CASE \E r \in Request : RetryRefused(r) \/ RequestDies(r)
    <2> PICK r \in Request : RetryRefused(r) \/ RequestDies(r)
      BY <1>12
    <2>1. EndRequest(r) /\ UNCHANGED <<docStatus, versionStatus, fileIngest, embedTopic>>
      BY DEF RetryRefused, RequestDies
    <2> QED
      BY <1>2, <1>3, <1>4, <2>1
  <1> QED
    BY <1>6, <1>7, <1>8, <1>9, <1>10, <1>11, <1>12
    DEF IngestServiceNext, UserStep, HandlerStep

\* What is put on embed-task comes from the document in hand.
LEMMA Published ==
    ASSUME TypeOK, PublishChunk
    PROVE  /\ <<wkDoc, wkNext>> \in Message
           /\ Len(embedTopic') \in Nat
           /\ \A i \in 1..Len(embedTopic') :
                 /\ i \notin 1..Len(embedTopic) => embedTopic'[i] = <<wkDoc, wkNext>>
                 /\ i \in 1..Len(embedTopic) => embedTopic'[i] = embedTopic[i]
  <1> DEFINE m == <<wkDoc, wkNext>>
  <1>1. m \in Message /\ wkPc = "publishing"
    <2>1. wkDoc \in Doc
      BY InHand DEF PublishChunk
    <2> QED
      BY <2>1, ChunksAssumption DEF PublishChunk, Message, Chunk, TypeOK, WorkerTypeOK
  <1>2. embedTopic \in Seq(Message)
    BY DEF TypeOK, TablesTypeOK
  <1>3. embedTopic' \in {embedTopic, Append(embedTopic, m),
                         Append(Append(embedTopic, m), m)}
    BY DEF PublishChunk
  <1> HIDE DEF m
  <1>4. CASE embedTopic' \in {embedTopic, Append(embedTopic, m)}
    <2>1. \/ Len(embedTopic') = Len(embedTopic)
          \/ Len(embedTopic') = Len(embedTopic) + 1
             /\ embedTopic'[Len(embedTopic) + 1] = m
      BY <1>1, <1>2, <1>4, AppendFacts
    <2>2. \A i \in 1..Len(embedTopic) : embedTopic'[i] = embedTopic[i]
      BY <1>1, <1>2, <1>4, AppendFacts
    <2> QED
      BY <1>1, <1>2, <2>1, <2>2 DEF m
  <1>5. CASE embedTopic' = Append(Append(embedTopic, m), m)
    <2> DEFINE q == Append(embedTopic, m)
    <2>1. /\ q \in Seq(Message) /\ Len(q) = Len(embedTopic) + 1
          /\ q[Len(embedTopic) + 1] = m
          /\ \A i \in 1..Len(embedTopic) : q[i] = embedTopic[i]
      BY <1>1, <1>2, AppendFacts
    <2> HIDE DEF q
    <2>2. /\ Len(Append(q, m)) = Len(q) + 1 /\ Append(q, m)[Len(q) + 1] = m
          /\ \A i \in 1..Len(q) : Append(q, m)[i] = q[i]
      BY <1>1, <2>1, AppendFacts
    <2>3. embedTopic' = Append(q, m)
      BY <1>5 DEF q
    <2>4. Len(embedTopic) \in Nat
      BY <1>2
    <2> QED
      BY <1>1, <2>1, <2>2, <2>3, <2>4 DEF m
  <1> QED
    BY <1>3, <1>4, <1>5

LEMMA DocProcessorVersions ==
    ASSUME TypeOK, VersionInv, DocProcessorNext, UNCHANGED <<requestVars, vectorVars>>
    PROVE  VersionInv'
  <1> USE DEF tables
  <1>0. [Next]_vars
    BY DEF Next
  <1>1. UNCHANGED <<fileIngest, reqPc, reqDoc>>
    BY WorkerFrame
  <1>2. ASSUME VersionsStay
        PROVE  \A r \in Request : reqPc'[r] \in {"ingest", "sent"} =>
                   versionStatus'[reqDoc'[r]] # "ABSENT"
    BY <1>1, <1>2 DEF VersionInv, VersionsStay, TypeOK, RequestTypeOK
  <1>3. ASSUME VersionsStay, UNCHANGED embedTopic
        PROVE  VersionInv'
    BY <1>0, <1>1, <1>2, <1>3, VersionFrame
  <1>4. wkPc # "idle" => wkDoc \in Doc /\ versionStatus[wkDoc] # "ABSENT"
    BY InHand DEF VersionInv, wkDoc
  <1>5. ASSUME NEW s \in Stage \union {"FAILED"}, wkPc # "idle",
               SetDoc(wkDoc, s), SetVersion(wkDoc, s)
        PROVE  VersionsStay
    <2>1. s \in DocStatus /\ s \in VersionStatus \ {"ABSENT"}
      BY Statuses DEF Stage
    <2>2. \A x \in Doc : versionStatus'[x] = "ABSENT" <=> versionStatus[x] = "ABSENT"
      BY <1>4, <1>5, <2>1, SetVersionStays
    <2>3. versionStatus'[wkDoc] # "ABSENT"
      BY <1>4, <1>5, <2>2
    <2> QED
      BY <1>4, <1>5, <2>1, <2>2, <2>3, SetDocStays DEF VersionsStay
  <1>6. CASE StartParsing \/ ParseAndClean \/ ChunkText \/ EmbedChunks
    <2>1. /\ wkPc # "idle" /\ UNCHANGED embedTopic
          /\ \E s \in Stage : SetDoc(wkDoc, s) /\ SetVersion(wkDoc, s)
      BY <1>6
      DEF StartParsing, ParseAndClean, ChunkText, EmbedChunks, UpdateStage, Stage
    <2> QED
      BY <1>3, <1>5, <2>1
  <1>7. CASE MarkFailed
    <2>1. /\ wkPc # "idle" /\ UNCHANGED embedTopic
          /\ SetDoc(wkDoc, "FAILED") /\ SetVersion(wkDoc, "FAILED")
      BY <1>7 DEF MarkFailed, Failing
    <2> QED
      BY <1>3, <1>5, <2>1
  <1>8. CASE PublishChunk
    <2>1. wkPc # "idle" /\ UNCHANGED <<docStatus, versionStatus>>
      BY <1>8 DEF PublishChunk
    <2>2. VersionsStay
      BY <2>1 DEF VersionsStay
    <2>3. \A i \in 1..Len(embedTopic') :
              i \in 1..Len(embedTopic) \/ versionStatus'[embedTopic'[i][1]] # "ABSENT"
      BY <1>4, <1>8, <2>1, Published
    <2> QED
      BY <1>0, <1>1, <1>2, <2>2, <2>3, VersionFrame
  <1>9. CASE UNCHANGED <<docStatus, versionStatus, embedTopic>>
    BY <1>3, <1>9 DEF VersionsStay
  <1> QED
    BY <1>6, <1>7, <1>8, <1>9
    DEF DocProcessorNext, WorkerStep, Poll, SaveResults, SaveRefused, ObjectMissing,
        StageFails, Raise, FinishPublishing, MarkFails, CommitOffset, WorkerCrash

LEMMA VectorServiceVersions ==
    ASSUME TypeOK, VersionInv, VectorServiceNext, UNCHANGED <<requestVars, workerVars>>
    PROVE  VersionInv'
  <1> USE DEF tables, requestVars
  <1>0. [Next]_vars
    BY DEF Next
  <1>1. UNCHANGED <<fileIngest, embedTopic>>
    BY DEF VectorServiceNext, VectorStep, PollBatch, UpsertMilvus, AckBatch, AckFailed,
           Acknowledge, CommitDone, CommitFailed, Commit, MilvusFails, TxAborts,
           VectorCrash
  <1>2. ASSUME VersionsStay
        PROVE  VersionInv'
    <2>1. \A r \in Request : reqPc'[r] \in {"ingest", "sent"} =>
              versionStatus'[reqDoc'[r]] # "ABSENT"
      BY <1>2 DEF VersionInv, VersionsStay, TypeOK, RequestTypeOK
    <2> QED
      BY <1>0, <1>1, <1>2, <2>1, VersionFrame
  <1>3. CASE CommitDone \/ CommitFailed
    <2>1. firstDoc \in Doc /\ versionStatus[firstDoc] # "ABSENT"
      BY <1>3, InHand DEF CommitDone, CommitFailed, Commit, VersionInv, firstDoc
    <2>2. \E s \in VersionStatus \ {"ABSENT"} : SetVersion(firstDoc, s)
      BY <1>3, Statuses DEF CommitDone, CommitFailed
    <2>3. UNCHANGED docStatus \/ SetDoc(firstDoc, "READY") \/ SetDoc(firstDoc, "FAILED")
      BY <1>3 DEF CommitDone, CommitFailed
    <2>4. \A x \in Doc : versionStatus'[x] = "ABSENT" <=> versionStatus[x] = "ABSENT"
      BY <2>1, <2>2, SetVersionStays
    <2>5. VersionsStay
      BY <2>1, <2>3, <2>4, SetDocStays, Statuses DEF VersionsStay
    <2> QED
      BY <1>2, <2>5
  <1>4. CASE UNCHANGED <<docStatus, versionStatus>>
    BY <1>2, <1>4 DEF VersionsStay
  <1> QED
    BY <1>3, <1>4
    DEF VectorServiceNext, VectorStep, PollBatch, UpsertMilvus, AckBatch, AckFailed,
        Acknowledge, MilvusFails, TxAborts, VectorCrash

LEMMA VersionStep == TypeOK /\ VersionInv /\ [Next]_vars => VersionInv'
  <1> SUFFICES ASSUME TypeOK, VersionInv, [Next]_vars PROVE VersionInv'
    OBVIOUS
  <1>1. CASE UNCHANGED vars
    BY <1>1 DEF vars, tables, requestVars, VersionInv
  <1> QED
    BY <1>1, IngestServiceVersions, DocProcessorVersions, VectorServiceVersions
    DEF Next

LEMMA VersionInit == Init => VersionInv
  BY DEF Init, TablesInit, RequestInit, VersionInv, Untouched

-----------------------------------------------------------------------------
(* A document is committed once.                                           *)

\* Whatever requests are interleaved, repeated or die: a document becomes
\* PENDING from DRAFT only, because every later status has a version row and
\* the second insert of one fails.
THEOREM CommitsHappenOnce == Spec => CommittedOnce
  <1>1. ASSUME TypeOK, VersionInv, [Next]_vars, NEW d \in Doc,
               docStatus[d] # "PENDING", docStatus'[d] = "PENDING"
        PROVE  docStatus[d] = "DRAFT"
    <2> USE DEF tables
    <2>1. PICK r \in Request : CommitWrite(r)
      <3>1. CASE IngestServiceNext
        <4>1. \/ UNCHANGED docStatus
              \/ \E x \in Doc : InitUpload(x)
              \/ \E r \in Request, s \in {"READY", "PROCESSING", "GONE"} : SetDoc(reqDoc[r], s)
              \/ \E r \in Request : CommitWrite(r)
          BY <3>1
          DEF IngestServiceNext, UserStep, HandlerStep, VerifyUpload, PutObject,
              CommitRead, IngestRead, RetryBegin, DeleteObject, IngestDirectly,
              IngestSend, IngestCommit, RetryRefused, DeleteRow, RequestDies
        <4> QED
          BY <1>1, <4>1 DEF TypeOK, TablesTypeOK, InitUpload, SetDoc
      <3>2. CASE DocProcessorNext
        BY <1>1, <3>2
        DEF TypeOK, TablesTypeOK, SetDoc, DocProcessorNext, WorkerStep, Poll,
            StartParsing, ParseAndClean, ChunkText, EmbedChunks, UpdateStage,
            SaveResults, SaveRefused, ObjectMissing, StageFails, Raise, PublishChunk,
            FinishPublishing, MarkFailed, MarkFails, CommitOffset, WorkerCrash
      <3>3. CASE VectorServiceNext
        BY <1>1, <3>3
        DEF TypeOK, TablesTypeOK, SetDoc, VectorServiceNext, VectorStep, PollBatch,
            UpsertMilvus, AckBatch, AckFailed, Acknowledge, CommitDone, CommitFailed,
            Commit, MilvusFails, TxAborts, VectorCrash
      <3> QED
        BY <1>1, <3>1, <3>2, <3>3 DEF Next, vars
    <2>2. d = reqDoc[r] /\ VersionInsertSucceeds(d) /\ HasRow(d)
      BY <1>1, <2>1 DEF CommitWrite, SetDoc, TypeOK, TablesTypeOK
    <2> QED
      BY <1>1, <2>2 DEF VersionInsertSucceeds, VersionInv, Untouched, HasRow
  <1>2. TypeOK /\ VersionInv /\ [Next]_vars
            => [\A d \in Doc : docStatus[d] # "PENDING" /\ docStatus'[d] = "PENDING"
                                  => docStatus[d] = "DRAFT"]_vars
    BY <1>1
  <1> QED
    BY <1>2, VersionInit, VersionStep, TypeCorrect, PTL DEF Spec, CommittedOnce

-----------------------------------------------------------------------------
(* What is queued is stored.                                               *)

\* embed_task rows are saved in one transaction with the results, once, and
\* before the first message of the document is produced.
TaskInv ==
    /\ \A i \in 1..Len(embedTopic) : task[embedTopic[i]] # "ABSENT"
    /\ \A m \in Message : task[m] # "ABSENT" => m[1] \in results
    /\ wkPc = "publishing" =>
          /\ wkDoc \in results
          /\ \A m \in Message : m[1] = wkDoc /\ m[2] <= wkChunks => task[m] # "ABSENT"

\* The steps that neither plan chunks nor publish them.
LEMMA TaskFrame ==
    ASSUME TypeOK, TaskInv, UNCHANGED <<embedTopic, results>>,
           \A m \in Message : task'[m] = "ABSENT" <=> task[m] = "ABSENT",
           wkPc' = "publishing" =>
               wkPc = "publishing" /\ wkDoc' = wkDoc /\ wkChunks' = wkChunks
    PROVE  TaskInv'
  BY InHand DEF TaskInv

LEMMA TaskStep == TypeOK /\ TypeOK' /\ TaskInv /\ [Next]_vars => TaskInv'
  <1> SUFFICES ASSUME TypeOK, TypeOK', TaskInv, [Next]_vars PROVE TaskInv'
    OBVIOUS
  <1> USE DEF tables
  <1>1. UNCHANGED wkOffset /\ wkPc # "idle" => wkDoc' = wkDoc
    BY InHand, Growth DEF wkDoc
  <1>2. CASE IngestServiceNext /\ UNCHANGED <<workerVars, vectorVars>>
    <2>1. UNCHANGED <<embedTopic, results, task>>
      BY <1>2
      DEF IngestServiceNext, UserStep, HandlerStep, InitUpload, VerifyUpload, PutObject,
          CommitRead, IngestRead, RetryBegin, DeleteObject, CommitWrite, IngestDirectly,
          IngestSend, IngestCommit, RetryRefused, DeleteRow, RequestDies
    <2> QED
      BY <1>1, <1>2, <2>1, TaskFrame DEF workerVars
  <1>3. CASE DocProcessorNext /\ UNCHANGED <<requestVars, vectorVars>>
    <2>1. CASE SaveResults
      <3>1. /\ results' = results \union {wkDoc} /\ wkDoc' = wkDoc
            /\ embedTopic' = embedTopic /\ wkChunks' = wkChunks
            /\ task' = [m \in Message |-> IF m[1] = wkDoc /\ m[2] <= wkChunks
                                           THEN "PENDING" ELSE task[m]]
        BY <1>1, <2>1 DEF SaveResults
      <3> QED
        BY <3>1, InHand DEF TaskInv
    <2>2. CASE PublishChunk
      <3>1. /\ wkPc = "publishing" /\ wkPc' = "publishing" /\ wkDoc' = wkDoc
            /\ UNCHANGED <<results, task, wkChunks>> /\ wkNext <= wkChunks
        BY <1>1, <2>2 DEF PublishChunk
      <3>2. <<wkDoc, wkNext>> \in Message /\ task[<<wkDoc, wkNext>>] # "ABSENT"
        BY <2>2, <3>1, Published DEF TaskInv
      <3>3. \A i \in 1..Len(embedTopic') : task[embedTopic'[i]] # "ABSENT"
        BY <2>2, <3>2, Published DEF TaskInv
      <3> QED
        BY <3>1, <3>3 DEF TaskInv
    <2>3. CASE MarkFailed
      <3>1. /\ UNCHANGED <<embedTopic, results>> /\ wkPc' # "publishing"
            /\ task' = [m \in Message |->
                           IF m[1] = wkDoc /\ task[m] # "DONE" /\ task[m] # "ABSENT"
                           THEN "FAILED" ELSE task[m]]
        BY <2>3 DEF MarkFailed, AfterFailure, EndMessage
      <3> QED
        BY <3>1, TaskFrame
    <2>4. CASE ~SaveResults /\ ~PublishChunk /\ ~MarkFailed
      <3>1. UNCHANGED <<embedTopic, results, task>> /\ wkPc' # "publishing"
        BY <1>3, <2>4
        DEF DocProcessorNext, WorkerStep, Poll, StartParsing, ParseAndClean,
            ChunkText, EmbedChunks, UpdateStage, SaveRefused, ObjectMissing,
            StageFails, Raise, Failing, FinishPublishing, MarkFails, AfterFailure,
            CommitOffset, WorkerCrash, EndMessage
      <3> QED
        BY <3>1, TaskFrame
    <2> QED
      BY <2>1, <2>2, <2>3, <2>4
  <1>4. CASE VectorServiceNext /\ UNCHANGED <<requestVars, workerVars>>
    <2>1. UNCHANGED <<embedTopic, results>> /\
          (UNCHANGED task \/ task' = MarkTasks("DONE") \/ task' = MarkTasks("FAILED"))
      BY <1>4
      DEF VectorServiceNext, VectorStep, PollBatch, UpsertMilvus, AckBatch, AckFailed,
          Acknowledge, CommitDone, CommitFailed, Commit, MilvusFails, TxAborts,
          VectorCrash
    <2>2. \A m \in Message : task'[m] = "ABSENT" <=> task[m] = "ABSENT"
      BY <2>1 DEF MarkTasks
    <2> QED
      BY <1>1, <1>4, <2>1, <2>2, TaskFrame DEF workerVars
  <1>5. CASE UNCHANGED vars
    BY <1>1, <1>5, TaskFrame DEF vars, workerVars
  <1> QED
    BY <1>2, <1>3, <1>4, <1>5 DEF Next

LEMMA TaskInit == Init => TaskInv
  BY DEF Init, TablesInit, WorkerInit, TaskInv

\* Each message of either topic has the row its consumers update, whatever is
\* lost, repeated, redelivered, crashes or is deleted.
THEOREM QueuedRowsExist == Spec => []QueuedIsStored
  <1>1. TypeOK /\ VersionInv /\ TaskInv => QueuedIsStored
    <2> SUFFICES ASSUME TypeOK, VersionInv, TaskInv PROVE QueuedIsStored
      OBVIOUS
    <2>1. DOMAIN fileIngest = 1..Len(fileIngest) /\ DOMAIN embedTopic = 1..Len(embedTopic)
      BY DEF TypeOK, TablesTypeOK
    <2> QED
      BY <2>1 DEF QueuedIsStored, VersionInv, TaskInv
  <1> QED
    BY <1>1, VersionInit, VersionStep, TaskInit, TaskStep, TypeCorrect, PTL DEF Spec

-----------------------------------------------------------------------------
(* The listener's offset.                                                  *)

\* The batch in hand begins after the acknowledged offset; when its statements
\* have run the offset is at its end.
OffsetInv ==
    /\ vecPc \in {"polled", "upserted", "milvusFailed"} => batchStart = etCommitted + 1
    /\ vecPc \in {"done", "failed"} => batchEnd = etCommitted

LEMMA OffsetStep == TypeOK /\ OffsetInv /\ [Next]_vars => OffsetInv'
  <1> SUFFICES ASSUME TypeOK, OffsetInv, [Next]_vars PROVE OffsetInv'
    OBVIOUS
  <1>1. CASE UNCHANGED vectorVars
    BY <1>1 DEF vectorVars, OffsetInv
  <1>2. CASE VectorServiceNext
    BY <1>2
    DEF OffsetInv, TypeOK, VectorTypeOK, VecPc, VectorServiceNext, VectorStep,
        PollBatch, UpsertMilvus, AckBatch, AckFailed, Acknowledge, CommitDone,
        CommitFailed, Commit, MilvusFails, TxAborts, VectorCrash, EndBatch
  <1> QED
    BY <1>1, <1>2 DEF Next, vars

LEMMA OffsetInit == Init => OffsetInv
  BY DEF Init, VectorInit, OffsetInv

\* The messages whose transaction is over.
Behind(i) == i \in 1..etCommitted /\ (vecPc # "idle" => i < batchStart)

\* Faults that let the listener acknowledge what it has not done.
ListenerCommits == MaxFault["sqlError"] = 0 /\ MaxFault["vectorCrash"] = 0

\* What a step of the listener passes, it has marked.
LEMMA BehindGrows ==
    ASSUME TypeOK, TypeOK', OffsetInv, [Next]_vars, NEW i \in Nat, Behind(i)', ~Behind(i)
    PROVE  CommitDone \/ CommitFailed \/ TxAborts \/ VectorCrash
  <1>1. CASE UNCHANGED vectorVars
    BY <1>1 DEF vectorVars, Behind
  <1>2. CASE VectorServiceNext
    BY <1>2
    DEF Behind, OffsetInv, TypeOK, VectorTypeOK, VecPc, VectorServiceNext, VectorStep,
        PollBatch, UpsertMilvus, AckBatch, AckFailed, Acknowledge, MilvusFails
  <1> QED
    BY <1>1, <1>2 DEF Next, vars

\* Which steps change a task row, and how.
LEMMA TaskMoves ==
    ASSUME TypeOK, TaskInv, [Next]_vars, NEW m \in Message
    PROVE  /\ task[m] \in {"DONE", "FAILED"} => task'[m] \in {"DONE", "FAILED"}
           /\ task[m] = "DONE" /\ task'[m] # "DONE" => CommitFailed /\ m \in Batch
           /\ task[m] # "DONE" /\ task'[m] = "DONE" => CommitDone /\ m \in Batch
           /\ task[m] = "ABSENT" /\ task'[m] # "ABSENT" => m[1] \notin results
  <1> USE DEF tables
  <1>1. CASE SaveResults
    <2>1. task' = [x \in Message |-> IF x[1] = wkDoc /\ x[2] <= wkChunks
                                      THEN "PENDING" ELSE task[x]]
          /\ wkDoc \notin results
      BY <1>1 DEF SaveResults
    <2> QED
      BY <2>1 DEF TaskInv
  <1>2. CASE MarkFailed
    <2>1. task' = [x \in Message |->
                      IF x[1] = wkDoc /\ task[x] # "DONE" /\ task[x] # "ABSENT"
                      THEN "FAILED" ELSE task[x]]
      BY <1>2 DEF MarkFailed
    <2> QED
      BY <2>1
  <1>3. CASE CommitDone
    BY <1>3 DEF CommitDone, MarkTasks
  <1>4. CASE CommitFailed
    BY <1>4 DEF CommitFailed, MarkTasks
  <1>5. CASE UNCHANGED task
    BY <1>5
  <1>6. SaveResults \/ MarkFailed \/ CommitDone \/ CommitFailed \/ UNCHANGED task
    <2>1. CASE IngestServiceNext
      BY <2>1
      DEF IngestServiceNext, UserStep, HandlerStep, InitUpload, VerifyUpload, PutObject,
          CommitRead, IngestRead, RetryBegin, DeleteObject, CommitWrite, IngestDirectly,
          IngestSend, IngestCommit, RetryRefused, DeleteRow, RequestDies
    <2>2. CASE DocProcessorNext
      BY <2>2
      DEF DocProcessorNext, WorkerStep, Poll, StartParsing, ParseAndClean,
          ChunkText, EmbedChunks, UpdateStage, SaveRefused, ObjectMissing, StageFails,
          Raise, PublishChunk, FinishPublishing, MarkFails, CommitOffset, WorkerCrash
    <2>3. CASE VectorServiceNext
      BY <2>3
      DEF VectorServiceNext, VectorStep, PollBatch, UpsertMilvus, AckBatch, AckFailed,
          Acknowledge, MilvusFails, TxAborts, VectorCrash
    <2> QED
      BY <2>1, <2>2, <2>3 DEF Next, vars
  <1> QED
    BY <1>1, <1>2, <1>3, <1>4, <1>5, <1>6

LEMMA NoBudget ==
    ASSUME TypeOK, NEW k \in FaultKind, MaxFault[k] = 0
    PROVE  ~Fault(k)
  BY DEF Fault, TypeOK, TablesTypeOK

-----------------------------------------------------------------------------
(* What is acknowledged is settled.                                        *)

AckedInv ==
    \A i \in 1..Len(embedTopic) :
        Behind(i) => task[embedTopic[i]] \in {"DONE", "FAILED"}

LEMMA AckedStep ==
    ListenerCommits /\ TypeOK /\ TypeOK' /\ TaskInv /\ OffsetInv /\ AckedInv
        /\ [Next]_vars => AckedInv'
  <1> SUFFICES ASSUME ListenerCommits, TypeOK, TypeOK', TaskInv, OffsetInv, AckedInv,
                      [Next]_vars, NEW i \in 1..Len(embedTopic'), Behind(i)'
               PROVE  task'[embedTopic'[i]] \in {"DONE", "FAILED"}
    BY DEF AckedInv
  <1>1. ~TxAborts /\ ~VectorCrash
    BY NoBudget DEF TxAborts, VectorCrash, ListenerCommits, FaultKind
  <1>2. CASE Behind(i)
    <2>1. i \in 1..Len(embedTopic)
      BY <1>2, InHand DEF Behind, TypeOK, VectorTypeOK
    <2> QED
      BY <1>2, <2>1, InHand, Growth, TaskMoves DEF AckedInv
  <1>3. CASE ~Behind(i)
    <2>1. i \in Nat
      BY Growth
    <2>2. CommitDone \/ CommitFailed
      BY <1>1, <1>3, <2>1, BehindGrows
    <2>3. i \in batchStart..batchEnd /\ i \in 1..Len(embedTopic)
          /\ embedTopic' = embedTopic
      BY <1>3, <2>1, <2>2, InHand
      DEF Behind, CommitDone, CommitFailed, Commit, EndBatch, OffsetInv, TypeOK,
          VectorTypeOK
    <2>4. embedTopic[i] \in Batch /\ embedTopic[i] \in Message
          /\ task[embedTopic[i]] # "ABSENT"
      BY <2>3, InHand DEF Batch, TaskInv
    <2> QED
      BY <2>2, <2>3, <2>4 DEF CommitDone, CommitFailed, MarkTasks
  <1> QED
    BY <1>2, <1>3

\* If no transaction of the listener is rolled back and the listener does not
\* die, a message it has acknowledged has a task that is DONE or FAILED: also
\* after Milvus failures, repeated messages and restarts of the worker.
THEOREM AcknowledgedIsSettled ==
    ASSUME ListenerCommits
    PROVE  Spec => []AckedIsSettled
  <1>1. Init => AckedInv
    BY DEF Init, TablesInit, VectorInit, AckedInv, Behind
  <1>2. TypeOK /\ AckedInv => AckedIsSettled
    BY InHand DEF AckedInv, AckedIsSettled, Behind, TypeOK, VectorTypeOK
  <1>3. TypeOK /\ TypeOK' /\ TaskInv /\ OffsetInv /\ AckedInv /\ [Next]_vars => AckedInv'
    BY AckedStep
  <1> QED
    BY <1>1, <1>2, <1>3, TaskInit, TaskStep, OffsetInit, OffsetStep, TypeCorrect, PTL
    DEF Spec

-----------------------------------------------------------------------------
(* What is embedded stays embedded.                                        *)

\* No message of embed-task is produced twice by one call.
SentOnce == MaxFault["publishTwice"] = 0

\* Each chunk has at most one message, because the results of a document are
\* saved once: a redelivered document is refused before it publishes.
OnceInv ==
    /\ \A i, j \in 1..Len(embedTopic) : embedTopic[i] = embedTopic[j] => i = j
    /\ wkPc = "publishing" => \A i \in 1..Len(embedTopic) :
          embedTopic[i][1] = wkDoc => embedTopic[i][2] < wkNext

\* The steps that publish, or have published, a document.
LEMMA PublishingMoves ==
    ASSUME [Next]_vars
    PROVE  \/ PublishChunk \/ SaveResults
           \/ /\ UNCHANGED embedTopic
              /\ wkPc' = "publishing" =>
                    wkPc = "publishing" /\ UNCHANGED <<wkOffset, wkNext>>
  <1> USE DEF tables
  <1>1. CASE IngestServiceNext /\ UNCHANGED <<workerVars, vectorVars>>
    BY <1>1
    DEF IngestServiceNext, UserStep, HandlerStep, InitUpload, VerifyUpload, PutObject,
        CommitRead, IngestRead, RetryBegin, DeleteObject, CommitWrite, IngestDirectly,
        IngestSend, IngestCommit, RetryRefused, DeleteRow, RequestDies, workerVars
  <1>2. CASE DocProcessorNext
    BY <1>2
    DEF DocProcessorNext, WorkerStep, Poll, StartParsing, ParseAndClean,
        ChunkText, EmbedChunks, UpdateStage, SaveRefused, ObjectMissing, StageFails,
        Raise, Failing, FinishPublishing, MarkFailed, MarkFails, AfterFailure,
        CommitOffset, WorkerCrash, EndMessage
  <1>3. CASE VectorServiceNext /\ UNCHANGED <<requestVars, workerVars>>
    BY <1>3
    DEF VectorServiceNext, VectorStep, PollBatch, UpsertMilvus, AckBatch, AckFailed,
        Acknowledge, CommitDone, CommitFailed, Commit, MilvusFails, TxAborts,
        VectorCrash, workerVars
  <1> QED
    BY <1>1, <1>2, <1>3 DEF Next, vars, workerVars

LEMMA OnceStep ==
    SentOnce /\ TypeOK /\ TaskInv /\ OnceInv /\ [Next]_vars => OnceInv'
  <1> SUFFICES ASSUME SentOnce, TypeOK, TaskInv, OnceInv, [Next]_vars PROVE OnceInv'
    OBVIOUS
  <1> USE DEF tables
  <1>1. UNCHANGED wkOffset /\ wkPc # "idle" => wkDoc' = wkDoc
    BY InHand, Growth DEF wkDoc
  <1>2. CASE PublishChunk
    <2> DEFINE m == <<wkDoc, wkNext>>
    <2>1. /\ wkPc = "publishing" /\ wkDoc' = wkDoc /\ wkNext' = wkNext + 1
          /\ wkNext \in Nat
      BY <1>1, <1>2 DEF PublishChunk, TypeOK, WorkerTypeOK
    <2>2. embedTopic' \in {embedTopic, Append(embedTopic, m)}
      BY <1>2, NoBudget DEF PublishChunk, SentOnce, FaultKind
    <2>3. Len(embedTopic') \in {Len(embedTopic), Len(embedTopic) + 1}
      <3>1. embedTopic \in Seq(Message) /\ m \in Message
        BY <1>2, Published DEF TypeOK, TablesTypeOK
      <3> HIDE DEF m
      <3> QED
        BY <2>2, <3>1, AppendFacts
    <2>4. \A i \in 1..Len(embedTopic') :
              /\ i \notin 1..Len(embedTopic) => embedTopic'[i] = m
              /\ i \in 1..Len(embedTopic) => embedTopic'[i] = embedTopic[i]
      BY <1>2, Published
    <2>5. \A i \in 1..Len(embedTopic) : /\ embedTopic[i] # m
                                        /\ embedTopic[i][2] \in Nat
      <3>1. \A i \in 1..Len(embedTopic) : embedTopic[i][2] \in Nat
        BY InHand, ChunksAssumption DEF Message, Chunk
      <3> QED
        BY <2>1, <3>1 DEF OnceInv
    <2>6. \A i, j \in 1..Len(embedTopic') : embedTopic'[i] = embedTopic'[j] => i = j
      BY <2>3, <2>4, <2>5, InHand DEF OnceInv
    <2>7. \A i \in 1..Len(embedTopic') :
              embedTopic'[i][1] = wkDoc => embedTopic'[i][2] < wkNext + 1
      BY <2>1, <2>4, <2>5 DEF OnceInv
    <2> QED
      BY <2>1, <2>6, <2>7 DEF OnceInv
  <1>3. CASE SaveResults
    <2>1. /\ wkDoc' = wkDoc /\ embedTopic' = embedTopic /\ wkDoc \notin results
      BY <1>1, <1>3 DEF SaveResults
    <2>2. \A i \in 1..Len(embedTopic) : embedTopic[i][1] # wkDoc
      BY <2>1, InHand DEF TaskInv
    <2> QED
      BY <2>1, <2>2 DEF OnceInv
  <1>4. CASE /\ UNCHANGED embedTopic
             /\ wkPc' = "publishing" =>
                   wkPc = "publishing" /\ UNCHANGED <<wkOffset, wkNext>>
    BY <1>1, <1>4 DEF OnceInv
  <1> QED
    BY <1>2, <1>3, <1>4, PublishingMoves

LEMMA BehindStays ==
    ASSUME TypeOK, OffsetInv, [Next]_vars, NEW i \in Nat, Behind(i)
    PROVE  Behind(i)'
  <1>1. CASE UNCHANGED vectorVars
    BY <1>1 DEF vectorVars, Behind
  <1>2. CASE VectorServiceNext
    BY <1>2
    DEF Behind, OffsetInv, TypeOK, VectorTypeOK, VectorServiceNext, VectorStep,
        PollBatch, UpsertMilvus, AckBatch, AckFailed, Acknowledge, CommitDone,
        CommitFailed, Commit, MilvusFails, TxAborts, VectorCrash, EndBatch
  <1> QED
    BY <1>1, <1>2 DEF Next, vars

\* The message of a DONE chunk lies behind the batch in hand.
DoneInv ==
    \A m \in Message : task[m] = "DONE" =>
        \E i \in 1..Len(embedTopic) : embedTopic[i] = m /\ Behind(i)

LEMMA DoneStep ==
    TypeOK /\ TypeOK' /\ TaskInv /\ OffsetInv /\ DoneInv /\ [Next]_vars => DoneInv'
  <1> SUFFICES ASSUME TypeOK, TypeOK', TaskInv, OffsetInv, DoneInv, [Next]_vars,
                      NEW m \in Message, task'[m] = "DONE"
               PROVE  \E i \in 1..Len(embedTopic') : embedTopic'[i] = m /\ Behind(i)'
    BY DEF DoneInv
  <1>1. CASE task[m] = "DONE"
    <2> PICK i \in 1..Len(embedTopic) : embedTopic[i] = m /\ Behind(i)
      BY <1>1 DEF DoneInv
    <2> QED
      BY Growth, BehindStays
  <1>2. CASE task[m] # "DONE"
    <2>1. CommitDone /\ m \in Batch
      BY <1>2, TaskMoves
    <2>2. PICK i \in batchStart..batchEnd : embedTopic[i] = m
      BY <2>1 DEF Batch
    <2>3. Behind(i)' /\ i \in 1..Len(embedTopic) /\ embedTopic' = embedTopic
      BY <2>1, InHand
      DEF Behind, CommitDone, Commit, EndBatch, OffsetInv, TypeOK, VectorTypeOK
    <2> QED
      BY <2>2, <2>3
  <1> QED
    BY <1>1, <1>2

LEMMA DoneStays ==
    ASSUME TypeOK, TaskInv, OffsetInv, OnceInv, DoneInv, [Next]_vars,
           NEW m \in Message, task[m] = "DONE"
    PROVE  task'[m] = "DONE"
  <1> SUFFICES ASSUME task'[m] # "DONE" PROVE FALSE
    OBVIOUS
  <1>1. CommitFailed /\ m \in Batch
    BY TaskMoves
  <1>2. PICK j \in batchStart..batchEnd : embedTopic[j] = m
    BY <1>1 DEF Batch
  <1>3. PICK i \in 1..Len(embedTopic) : embedTopic[i] = m /\ Behind(i)
    BY DEF DoneInv
  <1>4. i < batchStart /\ j \in 1..Len(embedTopic)
    BY <1>1, <1>3, InHand DEF CommitFailed, Commit, Behind, TypeOK, VectorTypeOK
  <1>5. i = j
    BY <1>2, <1>3, <1>4 DEF OnceInv
  <1> QED
    BY <1>1, <1>4, <1>5, InHand DEF CommitFailed, Commit, TypeOK, VectorTypeOK

EmbeddingInv == VersionInv /\ TaskInv /\ OffsetInv /\ OnceInv /\ DoneInv

LEMMA EmbeddingInit == Init => EmbeddingInv
  <1>1. Init => OnceInv /\ DoneInv
    BY DEF Init, TablesInit, WorkerInit, OnceInv, DoneInv
  <1> QED
    BY <1>1, VersionInit, TaskInit, OffsetInit DEF EmbeddingInv

LEMMA EmbeddingStep ==
    SentOnce /\ TypeOK /\ TypeOK' /\ EmbeddingInv /\ [Next]_vars => EmbeddingInv'
  BY VersionStep, TaskStep, OffsetStep, OnceStep, DoneStep DEF EmbeddingInv

\* If produce() does not write a message twice, no retry, failure mark, crash or
\* redelivery takes a chunk back from DONE.
THEOREM DoneStaysDone ==
    ASSUME SentOnce
    PROVE  Spec => DoneIsStable
  <1>1. TypeOK /\ EmbeddingInv /\ [Next]_vars =>
            [\A m \in Message : task[m] = "DONE" => task'[m] = "DONE"]_vars
    BY DoneStays DEF EmbeddingInv
  <1>2. TypeOK /\ TypeOK' /\ EmbeddingInv /\ [Next]_vars => EmbeddingInv'
    BY EmbeddingStep
  <1> QED
    BY <1>1, <1>2, EmbeddingInit, TypeCorrect, PTL DEF Spec, DoneIsStable

-----------------------------------------------------------------------------
(* READY means embedded.                                                   *)

ReadyInv == ReadyMeansEmbedded /\ ReadyAgrees

\* A document is READY because it was before, its version untouched, or because
\* the listener has just found all its tasks done.
LEMMA ReadyMoves ==
    ASSUME TypeOK, VersionInv, ReadyInv, [Next]_vars,
           NEW d \in SmartParse, docStatus'[d] = "READY"
    PROVE  \/ docStatus[d] = "READY" /\ versionStatus'[d] = versionStatus[d]
           \/ CommitDone /\ d = firstDoc /\ AllDone(d)
  <1> USE DEF tables
  <1>0. d \in Doc /\ docStatus \in [Doc -> DocStatus]
        /\ versionStatus \in [Doc -> VersionStatus]
    BY SmartParseAssumption DEF TypeOK, TablesTypeOK
  <1>1. CASE IngestServiceNext
    <2>1. \/ UNCHANGED <<docStatus, versionStatus>>
          \/ UNCHANGED versionStatus /\ \E x \in Doc : InitUpload(x)
          \/ UNCHANGED versionStatus /\ \E r \in Request, s \in {"PROCESSING", "GONE"} :
                SetDoc(reqDoc[r], s)
          \/ UNCHANGED versionStatus /\ \E r \in Request :
                reqDoc[r] \notin SmartParse /\ SetDoc(reqDoc[r], "READY")
          \/ \E r \in Request : /\ SetDoc(reqDoc[r], "PENDING")
                                /\ versionStatus[reqDoc[r]] = "ABSENT"
                                /\ versionStatus' = [versionStatus EXCEPT
                                                        ![reqDoc[r]] = "PENDING"]
      BY <1>1
      DEF IngestServiceNext, UserStep, HandlerStep, VerifyUpload, PutObject, InitUpload,
          CommitRead, IngestRead, RetryBegin, DeleteObject, CommitWrite, IngestDirectly,
          IngestSend, IngestCommit, RetryRefused, DeleteRow, RequestDies,
          VersionInsertSucceeds
    <2>2. docStatus[d] = "READY" => versionStatus[d] # "ABSENT"
      BY <1>0 DEF VersionInv, Untouched
    <2> QED
      BY <1>0, <2>1, <2>2 DEF InitUpload, SetDoc
  <1>2. CASE DocProcessorNext
    <2>1. \/ UNCHANGED <<docStatus, versionStatus>>
          \/ \E s \in Stage \union {"FAILED"} :
                SetDoc(wkDoc, s) /\ SetVersion(wkDoc, s)
      BY <1>2
      DEF DocProcessorNext, WorkerStep, Poll, StartParsing, ParseAndClean, ChunkText,
          EmbedChunks, UpdateStage, SaveResults, SaveRefused, ObjectMissing, StageFails,
          Raise, PublishChunk, FinishPublishing, MarkFailed, MarkFails, CommitOffset,
          WorkerCrash, Stage
    <2> QED
      BY <1>0, <2>1 DEF SetDoc, SetVersion, HasRow, Stage
  <1>3. CASE VectorServiceNext
    <2>1. CASE CommitDone
      <3>1. docStatus[d] = "READY" => AllDone(d)
        BY DEF ReadyInv, ReadyMeansEmbedded, Planned, AllDone
      <3> QED
        BY <1>0, <2>1, <3>1 DEF CommitDone, SetDoc, SetVersion
    <2>2. CASE CommitFailed
      BY <1>0, <2>2 DEF CommitFailed, SetDoc, SetVersion, HasRow
    <2>3. CASE UNCHANGED <<docStatus, versionStatus>>
      BY <2>3
    <2> QED
      BY <1>3, <2>1, <2>2, <2>3
      DEF VectorServiceNext, VectorStep, PollBatch, UpsertMilvus, AckBatch, AckFailed,
          Acknowledge, MilvusFails, TxAborts, VectorCrash
  <1>4. CASE UNCHANGED vars
    BY <1>4 DEF vars
  <1> QED
    BY <1>1, <1>2, <1>3, <1>4 DEF Next

LEMMA ReadyStep ==
    TypeOK /\ EmbeddingInv /\ ReadyInv /\ [Next]_vars => ReadyInv'
  <1> SUFFICES ASSUME TypeOK, EmbeddingInv, ReadyInv, [Next]_vars,
                      NEW d \in SmartParse, docStatus'[d] = "READY"
               PROVE  /\ \E m \in Message : m[1] = d /\ task'[m] # "ABSENT"
                      /\ \A m \in Message :
                            m[1] = d /\ task'[m] # "ABSENT" => task'[m] = "DONE"
                      /\ versionStatus'[d] = "READY"
    BY DEF ReadyInv, ReadyMeansEmbedded, ReadyAgrees, Planned
  <1>0. d \in Doc
    BY SmartParseAssumption
  <1>1. CASE docStatus[d] = "READY" /\ versionStatus'[d] = versionStatus[d]
    <2>1. PICK p \in Message : p[1] = d /\ task[p] = "DONE"
      BY <1>1 DEF ReadyInv, ReadyMeansEmbedded, Planned
    <2>2. d \in results
      BY <2>1 DEF EmbeddingInv, TaskInv
    <2>3. \A m \in Message : m[1] = d /\ task'[m] # "ABSENT" => task[m] = "DONE"
      BY <1>1, <2>2, TaskMoves DEF EmbeddingInv, ReadyInv, ReadyMeansEmbedded, Planned
    <2>4. \A m \in Message : task[m] = "DONE" => task'[m] = "DONE"
      BY DoneStays DEF EmbeddingInv
    <2> QED
      BY <1>1, <2>1, <2>3, <2>4 DEF ReadyInv, ReadyAgrees
  <1>2. CASE CommitDone /\ d = firstDoc /\ AllDone(d)
    <2>1. /\ vecPc # "idle" /\ task' = MarkTasks("DONE") /\ SetVersion(d, "READY")
      BY <1>2 DEF CommitDone, Commit
    <2>2. /\ embedTopic[batchStart] \in Message /\ embedTopic[batchStart] \in Batch
          /\ embedTopic[batchStart][1] = d
          /\ task[embedTopic[batchStart]] # "ABSENT"
          /\ versionStatus[d] # "ABSENT"
      BY <1>2, <2>1, InHand
      DEF firstDoc, Batch, EmbeddingInv, TaskInv, VersionInv, TypeOK, VectorTypeOK
    <2>3. versionStatus'[d] = "READY"
      BY <1>0, <2>1, <2>2 DEF SetVersion, TypeOK, TablesTypeOK
    <2>4. \A m \in Message : m[1] = d /\ task'[m] # "ABSENT" => task'[m] = "DONE"
      BY <1>2, <2>1 DEF AllDone, MarkTasks
    <2>5. task'[embedTopic[batchStart]] = "DONE"
      BY <2>1, <2>2 DEF MarkTasks
    <2> QED
      BY <2>2, <2>3, <2>4, <2>5
  <1> QED
    BY <1>1, <1>2, ReadyMoves DEF EmbeddingInv

\* If produce() does not write a message twice: a READY document that went
\* through the pipeline has chunks, all of them DONE, whatever crashes, fails,
\* is lost or redelivered, and however batches mix documents.
THEOREM ReadyIsEmbedded ==
    ASSUME SentOnce
    PROVE  Spec => []ReadyMeansEmbedded
  <1>1. Init => ReadyInv
    BY SmartParseAssumption
    DEF Init, TablesInit, ReadyInv, ReadyMeansEmbedded, ReadyAgrees
  <1>2. ReadyInv => ReadyMeansEmbedded
    BY DEF ReadyInv
  <1>3. TypeOK /\ TypeOK' /\ EmbeddingInv /\ [Next]_vars => EmbeddingInv'
    BY EmbeddingStep
  <1>4. TypeOK /\ EmbeddingInv /\ ReadyInv /\ [Next]_vars => ReadyInv'
    BY ReadyStep
  <1> QED
    BY <1>1, <1>2, <1>3, <1>4, EmbeddingInit, TypeCorrect, PTL DEF Spec

\* Under the same condition its version is READY, too, although three services
\* write the two rows in statements of their own.
THEOREM ReadyInBothTables ==
    ASSUME SentOnce
    PROVE  Spec => []ReadyAgrees
  <1>1. Init => ReadyInv
    BY SmartParseAssumption
    DEF Init, TablesInit, ReadyInv, ReadyMeansEmbedded, ReadyAgrees
  <1>2. ReadyInv => ReadyAgrees
    BY DEF ReadyInv
  <1>3. TypeOK /\ TypeOK' /\ EmbeddingInv /\ [Next]_vars => EmbeddingInv'
    BY EmbeddingStep
  <1>4. TypeOK /\ EmbeddingInv /\ ReadyInv /\ [Next]_vars => ReadyInv'
    BY ReadyStep
  <1> QED
    BY <1>1, <1>2, <1>3, <1>4, EmbeddingInit, TypeCorrect, PTL DEF Spec

=============================================================================
