---------------------------- MODULE LedgerProofs ----------------------------
(***************************************************************************)
(* The ingestion flow implements DocLedger, for every set of documents and *)
(* every number of chunks, where a document cannot be taken back: with one *)
(* request thread, and without the faults that repeat a message.           *)
(***************************************************************************)
EXTENDS PipelineLedger, EmbeddingProofs

\* Requests come one after the other and end; the document processor keeps
\* running; produce() writes a message at most once.
MovesForward ==
    /\ \A r, s \in Request : r = s
    /\ MaxFault["requestDies"] = 0
    /\ MaxFault["workerCrash"] = 0
    /\ SentOnce

-----------------------------------------------------------------------------
(* The invariant: who may change the status of a document, and from what.  *)

\* A document is queued once, and only if it goes through the pipeline.
QueueInv ==
    /\ \A i, j \in 1..Len(fileIngest) : fileIngest[i] = fileIngest[j] => i = j
    /\ \A i \in 1..Len(fileIngest) : fileIngest[i] \in SmartParse
    /\ results \subseteq SmartParse

\* A document has no version before its commit.
FreshInv ==
    \A d \in Doc : docStatus[d] \in {"ABSENT", "DRAFT"} => versionStatus[d] = "ABSENT"

\* A request finds at its end what it has read at its beginning.
RequestInv ==
    \A r \in Request :
        /\ reqPc[r] = "commit" => docStatus[reqDoc[r]] = "DRAFT"
        /\ reqPc[r] \in {"ingest", "sent"} => docStatus[reqDoc[r]] = "PENDING"
        /\ reqPc[r] = "sent" => /\ reqDoc[r] \in SmartParse
                                /\ <<r, <<"doc", reqDoc[r]>>>> \in locks

\* A queued document is PENDING only until the transaction that has sent its
\* message ends.
SentInv ==
    \A i \in 1..Len(fileIngest) : docStatus[fileIngest[i]] = "PENDING" =>
        \E r \in Request : reqPc[r] = "sent" /\ reqDoc[r] = fileIngest[i]

Awaited == {"PENDING", "PROCESSING", "GONE"}   \* nobody has begun to work on it

\* What the consumer has not polled is untouched.
WaitingInv ==
    \A i \in 1..Len(fileIngest) : i > fiPosition =>
        docStatus[fileIngest[i]] \in Awaited /\ fileIngest[i] \notin results

\* The status of the document in hand, in each stage.
StageStatus == [polled    |-> Awaited,
                parsing   |-> {"PARSING", "GONE"},
                chunking  |-> {"CHUNKING", "GONE"},
                embedding |-> {"EMBEDDING", "GONE"},
                saving    |-> {"VECTOR_PENDING", "GONE"}]

\* The document in hand has the status of its stage and no results until they
\* are saved; one that failed while it was published has a chunk without message.
HandInv ==
    /\ wkPc \in DOMAIN StageStatus =>
          docStatus[wkDoc] \in StageStatus[wkPc] /\ wkDoc \notin results
    /\ wkPc \in Failing =>
          \/ wkDoc \notin results /\ docStatus[wkDoc] \in Awaited \union Stage
          \/ /\ wkDoc \in results /\ wkNext <= wkChunks
             /\ task[<<wkDoc, wkNext>>] # "ABSENT"
             /\ \A i \in 1..Len(embedTopic) : embedTopic[i] # <<wkDoc, wkNext>>

\* With its results saved a document waits for the listener or is finished.
SavedInv ==
    \A d \in results : docStatus[d] \in {"VECTOR_PENDING", "FAILED", "READY", "GONE"}

\* No message of m will come to the listener again.
Lost(m) ==
    \/ \E i \in 1..Len(embedTopic) : embedTopic[i] = m /\ Behind(i)
    \/ /\ \A i \in 1..Len(embedTopic) : embedTopic[i] # m
       /\ wkPc = "publishing" => wkDoc # m[1]

\* A FAILED document with results has a chunk that is never embedded: it cannot
\* become READY.
FailedInv ==
    \A d \in results : docStatus[d] = "FAILED" =>
        \E m \in Message : m[1] = d /\ task[m] = "FAILED" /\ Lost(m)

LedgerInv ==
    /\ QueueInv /\ FreshInv /\ RequestInv /\ SentInv
    /\ WaitingInv /\ HandInv /\ SavedInv /\ FailedInv


-----------------------------------------------------------------------------
(* What the invariant says of the documents in hand.                       *)

LEMMA InHandFacts ==
    ASSUME TypeOK, EmbeddingInv, ReadyInv, LedgerInv
    PROVE  /\ \A i \in 1..Len(fileIngest) :
                 /\ fileIngest[i] \in Doc
                 /\ docStatus[fileIngest[i]] \notin {"ABSENT", "DRAFT"}
           /\ wkPc # "idle" =>
                 /\ wkDoc \in SmartParse /\ wkDoc \in Doc
                 /\ docStatus[wkDoc] \notin {"ABSENT", "DRAFT"}
                 /\ \A i \in 1..Len(fileIngest) : i > fiPosition => fileIngest[i] # wkDoc
                 /\ Free(BothRows(wkDoc)) => docStatus[wkDoc] # "PENDING"
           /\ wkPc \in Failing => docStatus[wkDoc] # "READY"
           /\ vecPc # "idle" => firstDoc \in results /\ firstDoc \in Doc
  <1>1. \A i \in 1..Len(fileIngest) :
            fileIngest[i] \in Doc /\ docStatus[fileIngest[i]] \notin {"ABSENT", "DRAFT"}
    BY InHand DEF EmbeddingInv, VersionInv, LedgerInv, FreshInv
  <1>2. ASSUME wkPc # "idle"
        PROVE  /\ wkOffset \in 1..Len(fileIngest) /\ wkOffset <= fiPosition
               /\ wkDoc = fileIngest[wkOffset] /\ fiPosition \in Nat
    BY <1>2, InHand DEF TypeOK, WorkerTypeOK, wkDoc
  <1>3. ASSUME wkPc # "idle"
        PROVE  /\ wkDoc \in SmartParse /\ wkDoc \in Doc
               /\ docStatus[wkDoc] \notin {"ABSENT", "DRAFT"}
               /\ \A i \in 1..Len(fileIngest) : i > fiPosition => fileIngest[i] # wkDoc
    BY <1>1, <1>2, <1>3 DEF LedgerInv, QueueInv
  <1>4. ASSUME wkPc # "idle", Free(BothRows(wkDoc)), docStatus[wkDoc] = "PENDING"
        PROVE  FALSE
    <2>1. PICK r \in Request : reqPc[r] = "sent" /\ reqDoc[r] = wkDoc
      BY <1>2, <1>4 DEF LedgerInv, SentInv
    <2>2. <<r, <<"doc", wkDoc>>>> \in locks
      BY <2>1 DEF LedgerInv, RequestInv
    <2> QED
      BY <1>4, <2>2 DEF Free, BothRows, DocRow
  <1>5. ASSUME wkPc \in Failing, docStatus[wkDoc] = "READY"
        PROVE  FALSE
    <2> DEFINE m == <<wkDoc, wkNext>>
    <2>1. wkDoc \in SmartParse /\ wkDoc \in Doc
      BY <1>3, <1>5 DEF Failing
    <2>2. /\ wkDoc \in results /\ wkNext <= wkChunks /\ task[m] # "ABSENT"
          /\ \A i \in 1..Len(embedTopic) : embedTopic[i] # m
      BY <1>5 DEF LedgerInv, HandInv, Awaited, Stage
    <2>3. m \in Message
      BY <2>1, <2>2, ChunksAssumption DEF Message, Chunk, TypeOK, WorkerTypeOK
    <2>4. m \in Planned(wkDoc)
      BY <2>2, <2>3 DEF Planned
    <2>5. task[m] = "DONE"
      BY <1>5, <2>1, <2>4 DEF ReadyInv, ReadyMeansEmbedded
    <2> QED
      BY <2>2, <2>3, <2>5 DEF EmbeddingInv, DoneInv
  <1>6. ASSUME vecPc # "idle"
        PROVE  firstDoc \in results /\ firstDoc \in Doc
    BY <1>6, InHand DEF EmbeddingInv, TaskInv, firstDoc
  <1> QED
    BY <1>1, <1>3, <1>4, <1>5, <1>6

\* A lost message is in no batch, and stays lost; its chunk stays FAILED.
LEMMA LostIsNotInHand ==
    ASSUME TypeOK, EmbeddingInv, NEW m \in Message, Lost(m), vecPc # "idle"
    PROVE  m \notin Batch
  <1> SUFFICES ASSUME m \in Batch PROVE FALSE
    OBVIOUS
  <1>1. PICK j \in batchStart..batchEnd : embedTopic[j] = m
    BY DEF Batch
  <1>2. j \in 1..Len(embedTopic) /\ batchStart \in Nat
    BY InHand DEF TypeOK, VectorTypeOK
  <1>3. PICK i \in 1..Len(embedTopic) : embedTopic[i] = m /\ Behind(i)
    BY <1>1, <1>2 DEF Lost
  <1>4. i = j
    BY <1>1, <1>2, <1>3 DEF EmbeddingInv, OnceInv
  <1> QED
    BY <1>2, <1>3, <1>4 DEF Behind

LEMMA LostStays ==
    ASSUME SentOnce, TypeOK, TypeOK', EmbeddingInv, [Next]_vars,
           NEW m \in Message, task[m] = "FAILED", Lost(m)
    PROVE  task'[m] = "FAILED" /\ Lost(m)'
  <1> USE DEF tables
  <1>1. m[1] \in results
    BY DEF EmbeddingInv, TaskInv
  <1>2. task'[m] = "FAILED"
    <2> SUFFICES ASSUME task'[m] # "FAILED" PROVE FALSE
      OBVIOUS
    <2>1. CommitDone /\ m \in Batch
      BY TaskMoves DEF EmbeddingInv
    <2> QED
      BY <2>1, LostIsNotInHand DEF CommitDone, Commit
  <1>3. CASE \E i \in 1..Len(embedTopic) : embedTopic[i] = m /\ Behind(i)
    <2> PICK i \in 1..Len(embedTopic) : embedTopic[i] = m /\ Behind(i)
      BY <1>3
    <2>1. Behind(i)' /\ i \in 1..Len(embedTopic') /\ embedTopic'[i] = m
      BY Growth, BehindStays DEF EmbeddingInv
    <2> QED
      BY <1>2, <2>1 DEF Lost
  <1>4. CASE /\ \A i \in 1..Len(embedTopic) : embedTopic[i] # m
             /\ wkPc = "publishing" => wkDoc # m[1]
    <2>1. UNCHANGED wkOffset /\ wkPc # "idle" => wkDoc' = wkDoc
      BY InHand, Growth DEF wkDoc
    <2>2. CASE PublishChunk
      <3>1. wkPc = "publishing" /\ wkDoc' = wkDoc /\ wkPc' = "publishing"
        BY <2>1, <2>2 DEF PublishChunk
      <3>2. \A i \in 1..Len(embedTopic') : embedTopic'[i] # m
        BY <1>4, <2>2, <3>1, Published
      <3> QED
        BY <1>2, <1>4, <3>1, <3>2 DEF Lost
    <2>3. CASE SaveResults
      <3>1. wkDoc' = wkDoc /\ wkDoc # m[1] /\ UNCHANGED embedTopic
        BY <1>1, <2>1, <2>3 DEF SaveResults
      <3> QED
        BY <1>2, <1>4, <3>1 DEF Lost
    <2>4. CASE /\ UNCHANGED embedTopic
               /\ wkPc' = "publishing" => wkPc = "publishing" /\ UNCHANGED wkOffset
      BY <1>2, <1>4, <2>1, <2>4 DEF Lost
    <2> QED
      BY <2>2, <2>3, <2>4, PublishingMoves
  <1> QED
    BY <1>3, <1>4 DEF Lost

-----------------------------------------------------------------------------
(* The requests keep the invariant.                                        *)

\* A request that puts nothing on the topic: a status changes to GONE, on a
\* commit, or of a document no consumer knows.
LEMMA RequestFrame ==
    ASSUME TypeOK, LedgerInv, UNCHANGED <<workerVars, vectorVars>>,
           UNCHANGED <<fileIngest, results, task, embedTopic>>,
           \A d \in Doc : docStatus'[d] # docStatus[d] =>
               \/ docStatus'[d] = "GONE"
               \/ docStatus[d] = "PENDING" /\ docStatus'[d] = "PROCESSING"
               \/ /\ \A i \in 1..Len(fileIngest) : fileIngest[i] # d
                  /\ d \notin results
    PROVE  QueueInv' /\ WaitingInv' /\ HandInv' /\ SavedInv' /\ FailedInv'
  <1> USE DEF workerVars, vectorVars
  <1>0. /\ \A i \in 1..Len(fileIngest) : fileIngest[i] \in Doc
        /\ wkPc # "idle" => /\ wkOffset \in 1..Len(fileIngest) /\ wkDoc \in Doc
                            /\ wkDoc = fileIngest[wkOffset]
        /\ results \subseteq Doc /\ wkDoc' = wkDoc
    BY InHand DEF TypeOK, TablesTypeOK, wkDoc
  <1>1. QueueInv'
    BY DEF LedgerInv, QueueInv
  <1>2. WaitingInv'
    BY <1>0 DEF LedgerInv, WaitingInv, Awaited
  <1>3. HandInv'
    <2>1. ASSUME wkPc \in DOMAIN StageStatus
          PROVE  docStatus'[wkDoc] \in StageStatus[wkPc]
      <3>1. docStatus[wkDoc] \in StageStatus[wkPc] /\ wkPc # "idle"
        BY <2>1 DEF LedgerInv, HandInv, StageStatus
      <3>2. \/ docStatus'[wkDoc] \in {docStatus[wkDoc], "GONE"}
            \/ docStatus[wkDoc] = "PENDING" /\ docStatus'[wkDoc] = "PROCESSING"
        BY <1>0, <3>1
      <3>3. /\ "GONE" \in StageStatus[wkPc]
            /\ "PENDING" \in StageStatus[wkPc] => "PROCESSING" \in StageStatus[wkPc]
        BY <2>1 DEF StageStatus, Awaited
      <3> QED
        BY <3>1, <3>2, <3>3
    <2>2. ASSUME wkPc \in Failing, docStatus[wkDoc] \in Awaited \union Stage
          PROVE  docStatus'[wkDoc] \in Awaited \union Stage
      BY <1>0, <2>2 DEF Failing, Awaited
    <2> QED
      BY <1>0, <2>1, <2>2 DEF LedgerInv, HandInv
  <1>4. SavedInv'
    BY <1>0 DEF LedgerInv, SavedInv
  <1>5. FailedInv'
    BY <1>0 DEF LedgerInv, FailedInv, Lost, Behind
  <1> QED
    BY <1>1, <1>2, <1>3, <1>4, <1>5

\* A message is sent, or lost; the row is locked until the transaction ends.
LEMMA SendKeeps ==
    ASSUME MovesForward, TypeOK, EmbeddingInv, ReadyInv, LedgerInv,
           UNCHANGED <<workerVars, vectorVars>>, NEW r \in Request, IngestSend(r)
    PROVE  LedgerInv'
  <1> USE DEF workerVars, vectorVars
  <1> DEFINE d == reqDoc[r]
  <1>1. /\ reqPc[r] = "ingest" /\ d \in Doc /\ d \in SmartParse
        /\ docStatus[d] = "PENDING" /\ d \notin results
        /\ reqPc' = [reqPc EXCEPT ![r] = "sent"] /\ r \in DOMAIN reqPc
        /\ UNCHANGED <<docStatus, versionStatus, results, task, embedTopic, reqDoc>>
        /\ fileIngest' \in {fileIngest, Append(fileIngest, d)}
        /\ <<r, <<"doc", d>>>> \in locks'
        /\ \A q \in Request : q = r
    BY DEF IngestSend, Lock, DocRow, HasRow, TypeOK, RequestTypeOK, LedgerInv, RequestInv,
           SavedInv, MovesForward
  <1>2. \A i \in 1..Len(fileIngest) : fileIngest[i] # d
    BY <1>1 DEF LedgerInv, SentInv
  <1> HIDE DEF d
  <1>3. /\ fileIngest \in Seq(Doc) /\ Len(fileIngest) \in Nat
        /\ \A i \in 1..Len(fileIngest) :
              i \in 1..Len(fileIngest') /\ fileIngest'[i] = fileIngest[i]
        /\ \A i \in 1..Len(fileIngest') :
              \/ i \in 1..Len(fileIngest)
              \/ fileIngest'[i] = d /\ i = Len(fileIngest) + 1
    <2>1. fileIngest \in Seq(Doc)
      BY DEF TypeOK, TablesTypeOK
    <2>2. CASE fileIngest' = Append(fileIngest, d)
      <3>1. d \in Doc
        BY <1>1
      <3>2. /\ Len(fileIngest') = Len(fileIngest) + 1
            /\ fileIngest'[Len(fileIngest) + 1] = d
            /\ \A i \in 1..Len(fileIngest) : fileIngest'[i] = fileIngest[i]
        BY <2>1, <2>2, <3>1, AppendFacts
      <3>3. Len(fileIngest) \in Nat
        BY <2>1
      <3> QED
        BY <2>1, <3>2, <3>3
    <2>3. CASE fileIngest' = fileIngest
      BY <2>1, <2>3
    <2> QED
      BY <1>1, <2>2, <2>3
  <1>4. wkPc # "idle" => wkDoc' = wkDoc /\ wkOffset \in 1..Len(fileIngest)
    BY <1>3, InHand DEF wkDoc
  <1>5. QueueInv'
    BY <1>1, <1>2, <1>3 DEF LedgerInv, QueueInv
  <1>6. FreshInv' /\ SavedInv'
    BY <1>1 DEF LedgerInv, FreshInv, SavedInv
  <1>7. RequestInv'
    BY <1>1 DEF LedgerInv, RequestInv, d
  <1>8. SentInv'
    BY <1>1, <1>3 DEF LedgerInv, SentInv, d
  <1>9. WaitingInv'
    BY <1>1, <1>3 DEF LedgerInv, WaitingInv, Awaited
  <1>10. HandInv'
    BY <1>1, <1>4 DEF LedgerInv, HandInv, StageStatus, Failing
  <1>11. FailedInv'
    BY <1>1, <1>4 DEF LedgerInv, FailedInv, Lost, Behind
  <1> QED
    BY <1>5, <1>6, <1>7, <1>8, <1>9, <1>10, <1>11 DEF LedgerInv

LEMMA RequestsKeep ==
    ASSUME MovesForward, TypeOK, EmbeddingInv, ReadyInv, LedgerInv,
           IngestServiceNext, UNCHANGED <<workerVars, vectorVars>>
    PROVE  LedgerInv'
  <1> USE DEF tables, requestVars
  <1>0. /\ reqPc \in [Request -> ReqPc] /\ reqDoc \in [Request -> Doc \union {NoDoc}]
        /\ \A r \in Request : reqPc[r] # "idle" => reqDoc[r] \in Doc
        /\ docStatus \in [Doc -> DocStatus]
        /\ versionStatus \in [Doc -> VersionStatus]
        /\ \A r, s \in Request : r = s
    BY DEF TypeOK, RequestTypeOK, TablesTypeOK, MovesForward
  <1>1. \A i \in 1..Len(fileIngest) :
            fileIngest[i] \in Doc /\ docStatus[fileIngest[i]] \notin {"ABSENT", "DRAFT"}
    BY InHandFacts
  <1>2. \A d \in results : d \in Doc /\ docStatus[d] \notin {"ABSENT", "DRAFT", "PENDING"}
    BY DEF LedgerInv, SavedInv, TypeOK, TablesTypeOK
  <1>3. \A d \in Doc : docStatus[d] \in {"ABSENT", "DRAFT", "PENDING"} =>
            \/ /\ \A i \in 1..Len(fileIngest) : fileIngest[i] # d
               /\ d \notin results
            \/ \E r \in Request : reqPc[r] = "sent" /\ reqDoc[r] = d
    BY <1>1, <1>2 DEF LedgerInv, SentInv
  <1>4. ASSUME NEW r \in Request, EndRequest(r)
        PROVE  /\ \A q \in Request : reqPc'[q] = "idle"
               /\ RequestInv'
    BY <1>0, <1>4 DEF EndRequest, RequestInv
  <1>5. CASE \E d \in Doc : InitUpload(d)
    <2> PICK d \in Doc : InitUpload(d)
      BY <1>5
    <2>1. /\ docStatus[d] = "ABSENT" /\ docStatus' = [docStatus EXCEPT ![d] = "DRAFT"]
          /\ UNCHANGED <<versionStatus, fileIngest, results, task, embedTopic, locks,
                         reqPc, reqDoc>>
      BY DEF InitUpload
    <2>2. QueueInv' /\ WaitingInv' /\ HandInv' /\ SavedInv' /\ FailedInv'
      BY <1>0, <1>1, <1>2, <2>1, RequestFrame
    <2>3. FreshInv'
      BY <1>0, <2>1 DEF LedgerInv, FreshInv
    <2>4. RequestInv'
      BY <1>0, <2>1 DEF LedgerInv, RequestInv
    <2>5. SentInv'
      BY <1>0, <1>1, <2>1 DEF LedgerInv, SentInv
    <2> QED
      BY <2>2, <2>3, <2>4, <2>5 DEF LedgerInv
  <1>6. ASSUME UNCHANGED <<docStatus, versionStatus, fileIngest, results, task, embedTopic>>,
               RequestInv', SentInv'
        PROVE  LedgerInv'
    <2>1. QueueInv' /\ WaitingInv' /\ HandInv' /\ SavedInv' /\ FailedInv'
      BY <1>6, RequestFrame
    <2> QED
      BY <1>6, <2>1 DEF LedgerInv, FreshInv
  <1>7. CASE \/ \E d \in Doc : VerifyUpload(d)
             \/ \E d \in Doc : \E content \in Uploads : PutObject(d, content)
    <2>1. UNCHANGED <<docStatus, versionStatus, fileIngest, results, task, embedTopic,
                      locks, reqPc, reqDoc>>
      BY <1>7 DEF VerifyUpload, PutObject
    <2> QED
      BY <1>6, <2>1 DEF LedgerInv, RequestInv, SentInv
  <1>8. CASE \E r \in Request, d \in Doc :
                 CommitRead(r, d) \/ IngestRead(r, d) \/ RetryBegin(r, d) \/ DeleteObject(r, d)
    <2> PICK r \in Request, d \in Doc :
                 CommitRead(r, d) \/ IngestRead(r, d) \/ RetryBegin(r, d) \/ DeleteObject(r, d)
      BY <1>8
    <2>1. /\ UNCHANGED <<docStatus, versionStatus, fileIngest, results, task, embedTopic>>
          /\ \E pc \in {"commit", "ingest", "retry", "delete"} :
                /\ FindDoc(r, d, pc)
                /\ pc = "ingest" => docStatus[d] = "PENDING"
                /\ pc = "commit" => docStatus[d] = "DRAFT"
      BY DEF CommitRead, IngestRead, RetryBegin, DeleteObject, IngestAdmits
    <2>2. RequestInv'
      BY <1>0, <2>1 DEF FindDoc, LedgerInv, RequestInv
    <2>3. SentInv'
      BY <1>0, <2>1 DEF FindDoc, LedgerInv, SentInv
    <2> QED
      BY <1>6, <2>1, <2>2, <2>3
  <1>9. CASE \E r \in Request : CommitWrite(r)
    <2> PICK r \in Request : CommitWrite(r)
      BY <1>9
    <2> DEFINE d == reqDoc[r]
    <2>1. /\ d \in Doc /\ docStatus[d] = "DRAFT" /\ versionStatus[d] = "ABSENT"
          /\ EndRequest(r) /\ reqPc[r] = "commit"
          /\ UNCHANGED <<fileIngest, results, task, embedTopic>>
      BY <1>0 DEF CommitWrite, LedgerInv, RequestInv, FreshInv
    <2>2. /\ docStatus' = [docStatus EXCEPT ![d] = "PENDING"]
          /\ versionStatus' = [versionStatus EXCEPT ![d] = "PENDING"]
      BY <2>1 DEF CommitWrite, VersionInsertSucceeds, SetDoc, HasRow
    <2> HIDE DEF d
    <2>3. QueueInv' /\ WaitingInv' /\ HandInv' /\ SavedInv' /\ FailedInv'
      BY <1>0, <1>1, <1>2, <2>1, <2>2, RequestFrame
    <2>4. FreshInv'
      BY <1>0, <2>1, <2>2 DEF LedgerInv, FreshInv
    <2>5. SentInv'
      BY <1>0, <1>1, <2>1, <2>2 DEF LedgerInv, SentInv
    <2> QED
      BY <1>4, <2>1, <2>3, <2>4, <2>5 DEF LedgerInv
  <1>10. CASE \E r \in Request : IngestDirectly(r) \/ IngestCommit(r) \/ DeleteRow(r)
    <2> PICK r \in Request : IngestDirectly(r) \/ IngestCommit(r) \/ DeleteRow(r)
      BY <1>10
    <2> DEFINE d == reqDoc[r]
    <2>1. /\ d \in Doc /\ EndRequest(r) /\ reqPc[r] \in {"ingest", "sent", "delete"}
          /\ UNCHANGED <<versionStatus, fileIngest, results, task, embedTopic>>
      BY <1>0 DEF IngestDirectly, IngestCommit, DeleteRow
    <2>2. \E s \in {"READY", "PROCESSING", "GONE"} :
              /\ SetDoc(d, s)
              /\ s # "GONE" => docStatus[d] = "PENDING"
              /\ s = "READY" => reqPc[r] = "ingest"
      BY DEF IngestDirectly, IngestCommit, DeleteRow, LedgerInv, RequestInv
    <2>3. /\ \A x \in Doc : x # d => docStatus'[x] = docStatus[x]
          /\ docStatus'[d] \notin {"DRAFT", "PENDING"} \/ docStatus'[d] = docStatus[d]
          /\ docStatus'[d] # "ABSENT" \/ docStatus[d] = "ABSENT"
          /\ docStatus'[d] # docStatus[d] =>
                \/ docStatus'[d] = "GONE"
                \/ docStatus[d] = "PENDING" /\ docStatus'[d] = "PROCESSING"
                \/ docStatus[d] = "PENDING" /\ reqPc[r] = "ingest"
      BY <1>0, <2>1, <2>2 DEF SetDoc, HasRow
    <2>4. /\ docStatus[d] = "PENDING" /\ reqPc[r] = "ingest" =>
                /\ \A i \in 1..Len(fileIngest) : fileIngest[i] # d
                /\ d \notin results
          /\ reqPc[r] # "sent" \/ docStatus'[d] # "PENDING"
      <3>1. docStatus[d] = "PENDING" /\ reqPc[r] = "ingest" =>
                /\ \A i \in 1..Len(fileIngest) : fileIngest[i] # d
                /\ d \notin results
        BY <1>0, <1>3, <2>1
      <3>2. reqPc[r] = "sent" => SetDoc(d, "PROCESSING") /\ docStatus[d] = "PENDING"
        BY DEF IngestDirectly, IngestCommit, DeleteRow, LedgerInv, RequestInv
      <3> QED
        BY <1>0, <2>1, <3>1, <3>2 DEF SetDoc, HasRow
    <2> HIDE DEF d
    <2>5. QueueInv' /\ WaitingInv' /\ HandInv' /\ SavedInv' /\ FailedInv'
      BY <1>0, <1>1, <1>2, <2>1, <2>3, <2>4, RequestFrame
    <2>6. FreshInv'
      BY <1>0, <2>1, <2>3 DEF LedgerInv, FreshInv
    <2>7. SentInv'
      <3>1. \A q \in Request : reqPc[q] = "sent" => reqDoc[q] = d /\ docStatus'[d] # "PENDING"
        BY <1>0, <2>4 DEF d
      <3> QED
        BY <1>0, <1>1, <2>1, <2>3, <3>1 DEF LedgerInv, SentInv
    <2> QED
      BY <1>4, <2>1, <2>5, <2>6, <2>7 DEF LedgerInv
  <1>11. CASE \E r \in Request : RetryRefused(r)
    <2> PICK r \in Request : RetryRefused(r)
      BY <1>11
    <2>1. /\ UNCHANGED <<docStatus, versionStatus, fileIngest, results, task, embedTopic>>
          /\ EndRequest(r) /\ reqPc[r] = "retry"
      BY DEF RetryRefused
    <2>2. SentInv'
      BY <1>0, <2>1 DEF LedgerInv, SentInv
    <2> QED
      BY <1>4, <1>6, <2>1, <2>2
  <1>12. CASE \E r \in Request : IngestSend(r)
    BY <1>12, SendKeeps
  <1>13. \A r \in Request : ~RequestDies(r)
    BY NoBudget DEF RequestDies, MovesForward, FaultKind
  <1> QED
    BY <1>5, <1>7, <1>8, <1>9, <1>10, <1>11, <1>12, <1>13
    DEF IngestServiceNext, UserStep, HandlerStep

-----------------------------------------------------------------------------
(* The document processor keeps the invariant.                             *)

\* It changes the status of the document in hand only, and only on the way.
LEMMA ProcessorMoves ==
    ASSUME TypeOK, EmbeddingInv, ReadyInv, LedgerInv, DocProcessorNext,
           UNCHANGED <<requestVars, vectorVars>>,
           NEW d \in Doc, docStatus'[d] # docStatus[d]
    PROVE  /\ d = wkDoc /\ docStatus[d] \in {"PROCESSING"} \union Stage
           /\ \/ docStatus'[d] \in Stage /\ wkPc \in DOMAIN StageStatus
              \/ docStatus'[d] = "FAILED" /\ MarkFailed
  <1> USE DEF tables
  <1>1. docStatus \in [Doc -> DocStatus] /\ d = wkDoc
    BY WorkerFrame DEF TypeOK, TablesTypeOK
  <1>2. CASE StartParsing \/ ParseAndClean \/ ChunkText \/ EmbedChunks
    <2>1. /\ wkPc \in {"polled", "parsing", "chunking", "embedding"}
          /\ Free(BothRows(wkDoc)) /\ \E s \in Stage : SetDoc(wkDoc, s)
      BY <1>2
      DEF StartParsing, ParseAndClean, ChunkText, EmbedChunks, UpdateStage, Stage
    <2>2. wkPc \in DOMAIN StageStatus /\ docStatus[d] # "PENDING"
      BY <1>1, <2>1, InHandFacts DEF StageStatus
    <2>3. docStatus[d] \in Awaited \union Stage
      BY <1>1, <2>1, <2>2 DEF LedgerInv, HandInv, StageStatus, Stage, Awaited
    <2>4. HasRow(d) /\ docStatus'[d] \in Stage
      BY <1>1, <2>1 DEF SetDoc
    <2> QED
      BY <1>1, <2>2, <2>3, <2>4 DEF HasRow, Awaited
  <1>3. CASE MarkFailed
    <2>1. wkPc \in Failing /\ Free(BothRows(wkDoc)) /\ SetDoc(wkDoc, "FAILED")
      BY <1>3 DEF MarkFailed
    <2>2. docStatus[d] \notin {"PENDING", "READY"}
      BY <1>1, <2>1, InHandFacts DEF Failing
    <2>3. docStatus[d] \in Awaited \union Stage \union {"FAILED", "READY"}
      BY <1>1, <2>1 DEF LedgerInv, HandInv, SavedInv, Stage, Awaited
    <2>4. HasRow(d) /\ docStatus'[d] = "FAILED"
      BY <1>1, <2>1 DEF SetDoc
    <2> QED
      BY <1>1, <1>3, <2>2, <2>3, <2>4 DEF HasRow, Awaited
  <1>4. CASE UNCHANGED docStatus
    BY <1>4
  <1> QED
    BY <1>2, <1>3, <1>4
    DEF DocProcessorNext, WorkerStep, Poll, SaveResults, SaveRefused, ObjectMissing,
        StageFails, Raise, PublishChunk, FinishPublishing, MarkFails, CommitOffset,
        WorkerCrash

LEMMA ProcessorHand ==
    ASSUME MovesForward, TypeOK, EmbeddingInv, ReadyInv, LedgerInv, DocProcessorNext,
           UNCHANGED <<requestVars, vectorVars>>
    PROVE  HandInv' /\ SavedInv'
  <1> USE DEF tables
  <1>1. /\ docStatus \in [Doc -> DocStatus] /\ results \subseteq Doc
        /\ UNCHANGED fileIngest
        /\ UNCHANGED wkOffset => wkDoc' = wkDoc
    BY WorkerFrame DEF TypeOK, TablesTypeOK, wkDoc
  <1>2. \A d \in Doc : /\ docStatus[d] = "GONE" => docStatus'[d] = "GONE"
                       /\ d # wkDoc => docStatus'[d] = docStatus[d]
    BY ProcessorMoves, WorkerFrame DEF Stage
  <1>3. CASE StartParsing \/ ParseAndClean \/ ChunkText \/ EmbedChunks
    <2>1. \E s \in Stage, to \in {"parsing", "chunking", "embedding", "saving"} :
              /\ SetDoc(wkDoc, s) /\ wkPc' = to /\ to \in DOMAIN StageStatus
              /\ StageStatus[to] = {s, "GONE"}
      BY <1>3
      DEF StartParsing, ParseAndClean, ChunkText, EmbedChunks, UpdateStage, Stage,
          StageStatus
    <2>2. /\ wkPc \in DOMAIN StageStatus /\ wkPc # "idle" /\ wkDoc' = wkDoc
          /\ UNCHANGED results
      BY <1>1, <1>3
      DEF StartParsing, ParseAndClean, ChunkText, EmbedChunks, UpdateStage, StageStatus
    <2>3. wkDoc \in Doc /\ wkDoc \notin results /\ docStatus[wkDoc] # "ABSENT"
      BY <2>2, InHandFacts DEF LedgerInv, HandInv
    <2>4. docStatus'[wkDoc] \in StageStatus[wkPc'] /\ wkPc' \notin Failing
      BY <1>1, <2>1, <2>3 DEF SetDoc, HasRow, Failing
    <2>5. SavedInv'
      BY <1>1, <1>2, <2>2, <2>3 DEF LedgerInv, SavedInv
    <2> QED
      BY <2>2, <2>3, <2>4, <2>5 DEF HandInv
  <1>4. ASSUME UNCHANGED <<docStatus, results>>
        PROVE  SavedInv'
    BY <1>4 DEF LedgerInv, SavedInv
  <1>5. CASE Poll
    <2>1. /\ UNCHANGED <<docStatus, results>> /\ wkPc' = "polled"
          /\ wkOffset' = fiPosition + 1 /\ fiPosition < Len(fileIngest)
      BY <1>5 DEF Poll
    <2>2. wkOffset' \in 1..Len(fileIngest) /\ wkOffset' > fiPosition
      BY <2>1, InHand DEF TypeOK, WorkerTypeOK
    <2>3. wkDoc' = fileIngest[wkOffset']
      BY <1>1 DEF wkDoc
    <2>4. docStatus[wkDoc'] \in Awaited /\ wkDoc' \notin results
      BY <2>2, <2>3 DEF LedgerInv, WaitingInv
    <2>5. HandInv'
      BY <2>1, <2>4 DEF HandInv, StageStatus, Failing
    <2> QED
      BY <1>4, <2>1, <2>5
  <1>6. CASE SaveResults
    <2>1. /\ UNCHANGED docStatus /\ wkPc = "saving" /\ wkPc' = "publishing"
          /\ results' = results \union {wkDoc}
      BY <1>6 DEF SaveResults
    <2>2. docStatus[wkDoc] \in {"VECTOR_PENDING", "GONE"}
      BY <2>1 DEF LedgerInv, HandInv, StageStatus
    <2> QED
      BY <2>1, <2>2 DEF LedgerInv, HandInv, SavedInv, StageStatus, Failing
  <1>7. CASE SaveRefused
    BY <1>7 DEF SaveRefused, LedgerInv, HandInv, StageStatus
  <1>8. CASE ObjectMissing
    <2>1. /\ UNCHANGED <<docStatus, results>> /\ wkPc = "parsing"
          /\ wkPc' = "permanent" /\ wkDoc' = wkDoc
      BY <1>1, <1>8 DEF ObjectMissing, Raise
    <2>2. wkDoc \notin results /\ docStatus[wkDoc] \in {"PARSING", "GONE"}
      BY <2>1 DEF LedgerInv, HandInv, StageStatus
    <2> QED
      BY <1>4, <2>1, <2>2 DEF HandInv, StageStatus, Awaited, Stage, Failing
  <1>9. CASE StageFails
    <2>1. /\ UNCHANGED <<docStatus, results, task, embedTopic, wkNext, wkChunks>>
          /\ wkPc \in Working /\ wkPc' \in Failing /\ wkDoc' = wkDoc
          /\ wkPc = "publishing" => wkNext <= wkChunks
      BY <1>1, <1>9 DEF StageFails, Raise
    <2>2. CASE wkPc \in DOMAIN StageStatus
      <3>1. wkDoc \notin results /\ docStatus[wkDoc] \in Awaited \union Stage
        BY <2>2 DEF LedgerInv, HandInv, StageStatus, Awaited, Stage
      <3> QED
        BY <1>4, <2>1, <3>1 DEF HandInv, StageStatus, Failing
    <2>3. CASE wkPc = "publishing"
      <3>1. /\ wkDoc \in results
            /\ \A m \in Message : m[1] = wkDoc /\ m[2] <= wkChunks => task[m] # "ABSENT"
            /\ \A i \in 1..Len(embedTopic) : embedTopic[i][1] = wkDoc =>
                  embedTopic[i][2] < wkNext
        BY <2>3 DEF EmbeddingInv, TaskInv, OnceInv
      <3>2. wkDoc \in Doc /\ wkNext \in Nat /\ <<wkDoc, wkNext>> \in Message
        BY <2>1, <2>3, InHandFacts, ChunksAssumption
        DEF Message, Chunk, TypeOK, WorkerTypeOK
      <3>3. task[<<wkDoc, wkNext>>] # "ABSENT"
        BY <2>1, <2>3, <3>1, <3>2
      <3>4. \A i \in 1..Len(embedTopic) : embedTopic[i] # <<wkDoc, wkNext>>
        BY <3>1, <3>2
      <3> QED
        BY <1>4, <2>1, <2>3, <3>1, <3>3, <3>4 DEF HandInv, StageStatus, Failing
    <2> QED
      BY <2>1, <2>2, <2>3 DEF Working, StageStatus
  <1>10. CASE PublishChunk \/ FinishPublishing \/ CommitOffset \/ MarkFails
    <2>1. UNCHANGED <<docStatus, results>> /\ wkPc' \in {"publishing", "done", "idle"}
      BY <1>10 DEF PublishChunk, FinishPublishing, CommitOffset, EndMessage, MarkFails,
                   AfterFailure
    <2> QED
      BY <1>4, <2>1 DEF HandInv, StageStatus, Failing
  <1>11. CASE MarkFailed
    <2>1. UNCHANGED results /\ wkPc' \in {"done", "idle"} /\ SetDoc(wkDoc, "FAILED")
      BY <1>11 DEF MarkFailed, AfterFailure, EndMessage
    <2>2. HandInv'
      BY <2>1 DEF HandInv, StageStatus, Failing
    <2>3. SavedInv'
      BY <1>1, <2>1 DEF LedgerInv, SavedInv, SetDoc, HasRow
    <2> QED
      BY <2>2, <2>3
  <1>12. ~WorkerCrash
    BY NoBudget DEF WorkerCrash, MovesForward, FaultKind
  <1> QED
    BY <1>3, <1>5, <1>6, <1>7, <1>8, <1>9, <1>10, <1>11, <1>12
    DEF DocProcessorNext, WorkerStep

LEMMA ProcessorKeeps ==
    ASSUME MovesForward, TypeOK, TypeOK', EmbeddingInv, ReadyInv, LedgerInv,
           DocProcessorNext, UNCHANGED <<requestVars, vectorVars>>
    PROVE  LedgerInv'
  <1> USE DEF tables
  <1>0. [Next]_vars /\ SentOnce
    BY DEF Next, MovesForward
  <1>1. /\ UNCHANGED <<fileIngest, locks, reqPc, reqDoc>>
        /\ \A r \in Request : reqPc[r] # "idle" => reqDoc[r] \in Doc
        /\ docStatus \in [Doc -> DocStatus]
        /\ \A i \in 1..Len(fileIngest) : fileIngest[i] \in Doc
    BY WorkerFrame, InHand DEF TypeOK, RequestTypeOK, TablesTypeOK
  <1>2. ~WorkerCrash
    BY NoBudget DEF WorkerCrash, MovesForward, FaultKind
  <1>3. \A d \in Doc : docStatus'[d] # docStatus[d] =>
            /\ d = wkDoc /\ docStatus[d] \notin {"ABSENT", "DRAFT", "PENDING"}
            /\ docStatus'[d] \notin {"ABSENT", "DRAFT", "PENDING"}
    BY ProcessorMoves DEF Stage
  <1>4. \/ UNCHANGED results
        \/ SaveResults /\ results' = results \union {wkDoc}
    BY DEF DocProcessorNext, WorkerStep, Poll, StartParsing, ParseAndClean, ChunkText,
           EmbedChunks, UpdateStage, SaveResults, SaveRefused, ObjectMissing, StageFails,
           Raise, PublishChunk, FinishPublishing, MarkFailed, MarkFails, CommitOffset,
           WorkerCrash
  <1>5. SaveResults => wkPc = "saving" /\ wkPc # "idle"
    BY DEF SaveResults
  <1>6. QueueInv'
    BY <1>1, <1>4, <1>5, InHandFacts DEF LedgerInv, QueueInv
  <1>7. FreshInv'
    <2>1. \A d \in Doc : versionStatus[d] = "ABSENT" => versionStatus'[d] = "ABSENT"
      <3>1. \/ UNCHANGED versionStatus
            \/ \E s \in Stage \union {"FAILED"} : SetVersion(wkDoc, s)
        BY DEF DocProcessorNext, WorkerStep, Poll, StartParsing, ParseAndClean, ChunkText,
               EmbedChunks, UpdateStage, SaveResults, SaveRefused, ObjectMissing,
               StageFails, Raise, PublishChunk, FinishPublishing, MarkFailed, MarkFails,
               CommitOffset, WorkerCrash, Stage
      <3> QED
        BY <3>1 DEF SetVersion, TypeOK, TablesTypeOK
    <2> QED
      BY <1>3, <2>1 DEF LedgerInv, FreshInv
  <1>8. RequestInv'
    BY <1>1, <1>3 DEF LedgerInv, RequestInv
  <1>9. SentInv'
    BY <1>1, <1>3 DEF LedgerInv, SentInv
  <1>10. WaitingInv'
    <2>1. fiPosition' \in {fiPosition, fiPosition + 1} /\ fiPosition \in Nat
      BY <1>2
      DEF DocProcessorNext, WorkerStep, Poll, StartParsing, ParseAndClean, ChunkText,
          EmbedChunks, UpdateStage, SaveResults, SaveRefused, ObjectMissing, StageFails,
          Raise, PublishChunk, FinishPublishing, MarkFailed, MarkFails, AfterFailure,
          CommitOffset, TypeOK, WorkerTypeOK
    <2> SUFFICES ASSUME NEW i \in 1..Len(fileIngest), i > fiPosition'
                 PROVE  docStatus'[fileIngest[i]] \in Awaited /\ fileIngest[i] \notin results'
      BY <1>1 DEF WaitingInv
    <2>2. i > fiPosition
      BY <2>1
    <2>3. docStatus[fileIngest[i]] \in Awaited /\ fileIngest[i] \notin results
      BY <2>2 DEF LedgerInv, WaitingInv
    <2>4. docStatus'[fileIngest[i]] = docStatus[fileIngest[i]]
      <3>1. CASE wkPc = "idle"
        BY <3>1
        DEF DocProcessorNext, WorkerStep, Poll, StartParsing, ParseAndClean, ChunkText,
            EmbedChunks, UpdateStage, SaveResults, SaveRefused, ObjectMissing, StageFails,
            Raise, PublishChunk, FinishPublishing, MarkFailed, MarkFails, CommitOffset,
            WorkerCrash, Working, Failing
      <3>2. CASE wkPc # "idle"
        BY <1>1, <1>3, <2>2, <3>2, InHandFacts
      <3> QED
        BY <3>1, <3>2
    <2>5. fileIngest[i] \notin results'
      BY <1>4, <1>5, <2>2, <2>3, InHandFacts
    <2> QED
      BY <2>3, <2>4, <2>5
  <1>11. HandInv' /\ SavedInv'
    BY ProcessorHand
  <1>12. FailedInv'
    <2> SUFFICES ASSUME NEW d \in results', docStatus'[d] = "FAILED"
                 PROVE  \E m \in Message : m[1] = d /\ task'[m] = "FAILED" /\ Lost(m)'
      BY DEF FailedInv
    <2>0. d \in Doc
      BY DEF TypeOK, TablesTypeOK
    <2>1. CASE d \in results /\ docStatus[d] = "FAILED"
      <3>1. PICK m \in Message : m[1] = d /\ task[m] = "FAILED" /\ Lost(m)
        BY <2>1 DEF LedgerInv, FailedInv
      <3> QED
        BY <1>0, <3>1, LostStays DEF MovesForward
    <2>2. CASE d \notin results
      <3>1. SaveResults /\ d = wkDoc /\ UNCHANGED docStatus
        BY <1>4, <2>2 DEF SaveResults
      <3> QED
        BY <1>5, <3>1 DEF LedgerInv, HandInv, StageStatus
    <2>3. CASE d \in results /\ docStatus[d] # "FAILED"
      <3> DEFINE m == <<wkDoc, wkNext>>
      <3>1. MarkFailed /\ d = wkDoc /\ wkPc \in Failing
        BY <2>0, <2>3, ProcessorMoves DEF MarkFailed, Stage
      <3>2. /\ wkNext <= wkChunks /\ task[m] # "ABSENT"
            /\ \A i \in 1..Len(embedTopic) : embedTopic[i] # m
        BY <2>3, <3>1 DEF LedgerInv, HandInv
      <3>3. m \in Message
        <4>1. wkDoc \in Doc
          BY <2>0, <3>1
        <4>2. wkNext \in Nat \ {0} /\ wkChunks \in 0 .. MaxChunks /\ MaxChunks \in Nat
          BY ChunksAssumption DEF TypeOK, WorkerTypeOK
        <4>3. wkNext \in 1 .. MaxChunks
          BY <3>2, <4>2
        <4> QED BY <4>1, <4>3 DEF Message, Chunk
      <3>4. task[m] # "DONE"
        BY <3>2, <3>3 DEF EmbeddingInv, DoneInv
      <3>5. /\ task'[m] = "FAILED" /\ UNCHANGED embedTopic /\ wkPc' # "publishing"
        BY <3>1, <3>2, <3>3, <3>4 DEF MarkFailed, AfterFailure, EndMessage
      <3> QED
        BY <3>1, <3>2, <3>3, <3>5 DEF Lost
    <2> QED
      BY <2>1, <2>2, <2>3
  <1> QED
    BY <1>6, <1>7, <1>8, <1>9, <1>10, <1>11, <1>12 DEF LedgerInv

-----------------------------------------------------------------------------
(* The listener keeps the invariant.                                       *)

\* It changes the status of a document that waits for it only: the chunks of a
\* FAILED one are never all DONE, and those of a READY one are never marked again.
LEMMA ListenerMoves ==
    ASSUME TypeOK, EmbeddingInv, ReadyInv, LedgerInv, VectorServiceNext,
           NEW d \in Doc, docStatus'[d] # docStatus[d]
    PROVE  /\ d = firstDoc /\ d \in results /\ docStatus[d] = "VECTOR_PENDING"
           /\ \/ CommitDone /\ AllDone(d) /\ docStatus'[d] = "READY"
              \/ CommitFailed /\ docStatus'[d] = "FAILED"
  <1> USE DEF tables
  <1>1. docStatus \in [Doc -> DocStatus]
    BY DEF TypeOK, TablesTypeOK
  <1>2. CASE CommitDone
    <2>1. /\ vecPc # "idle" /\ AllDone(firstDoc) /\ SetDoc(firstDoc, "READY")
      BY <1>2 DEF CommitDone, Commit
    <2>2. d = firstDoc /\ d \in results /\ HasRow(d) /\ docStatus'[d] = "READY"
      BY <1>1, <2>1, InHandFacts DEF SetDoc
    <2>3. docStatus[d] # "FAILED"
      <3> SUFFICES ASSUME docStatus[d] = "FAILED" PROVE FALSE
        OBVIOUS
      <3>1. PICK m \in Message : m[1] = d /\ task[m] = "FAILED" /\ Lost(m)
        BY <2>2 DEF LedgerInv, FailedInv
      <3> QED
        BY <2>1, <2>2, <3>1, LostIsNotInHand DEF AllDone
    <2> QED
      BY <1>2, <2>1, <2>2, <2>3 DEF LedgerInv, SavedInv, HasRow
  <1>3. CASE CommitFailed
    <2>1. vecPc = "failed" /\ SetDoc(firstDoc, "FAILED")
      BY <1>3 DEF CommitFailed, Commit
    <2>2. d = firstDoc /\ d \in results /\ HasRow(d) /\ docStatus'[d] = "FAILED"
      BY <1>1, <2>1, InHandFacts DEF SetDoc
    <2>3. docStatus[d] # "READY"
      <3> SUFFICES ASSUME docStatus[d] = "READY" PROVE FALSE
        OBVIOUS
      <3> DEFINE m == embedTopic[batchStart]
      <3>1. m \in Message /\ m[1] = d /\ batchStart \in 1..Len(embedTopic)
        BY <2>1, <2>2, InHand DEF firstDoc
      <3>2. task[m] # "ABSENT" /\ d \in SmartParse
        BY <2>2, <3>1 DEF EmbeddingInv, TaskInv, LedgerInv, QueueInv
      <3>3. task[m] = "DONE"
        BY <3>1, <3>2 DEF ReadyInv, ReadyMeansEmbedded, Planned
      <3>4. PICK i \in 1..Len(embedTopic) : embedTopic[i] = m /\ Behind(i)
        BY <3>1, <3>3 DEF EmbeddingInv, DoneInv
      <3>5. i = batchStart
        BY <3>1, <3>4 DEF EmbeddingInv, OnceInv
      <3> QED
        BY <2>1, <3>1, <3>4, <3>5 DEF Behind
    <2> QED
      BY <1>3, <2>2, <2>3 DEF LedgerInv, SavedInv, HasRow
  <1>4. CASE UNCHANGED docStatus
    BY <1>4
  <1> QED
    BY <1>2, <1>3, <1>4
    DEF VectorServiceNext, VectorStep, PollBatch, UpsertMilvus, AckBatch, AckFailed,
        Acknowledge, MilvusFails, TxAborts, VectorCrash

LEMMA ListenerKeeps ==
    ASSUME SentOnce, TypeOK, TypeOK', EmbeddingInv, ReadyInv, LedgerInv,
           VectorServiceNext, UNCHANGED <<requestVars, workerVars>>
    PROVE  LedgerInv'
  <1> USE DEF tables, requestVars, workerVars
  <1>0. [Next]_vars
    BY DEF Next
  <1>1. UNCHANGED <<fileIngest, results, embedTopic>>
    BY DEF VectorServiceNext, VectorStep, PollBatch, UpsertMilvus, AckBatch, AckFailed,
           Acknowledge, CommitDone, CommitFailed, Commit, MilvusFails, TxAborts,
           VectorCrash
  <1>2. \A d \in Doc : docStatus'[d] # docStatus[d] =>
            /\ d \in results /\ docStatus[d] = "VECTOR_PENDING"
            /\ docStatus'[d] \in {"READY", "FAILED"}
    BY ListenerMoves
  <1>3. /\ \A r \in Request : reqPc[r] # "idle" => reqDoc[r] \in Doc
        /\ wkPc # "idle" => wkDoc \in Doc
        /\ wkDoc' = wkDoc /\ results \subseteq Doc
        /\ \A i \in 1..Len(fileIngest) : fileIngest[i] \in Doc
    BY <1>1, InHand DEF TypeOK, RequestTypeOK, TablesTypeOK, wkDoc
  <1>4. QueueInv' /\ SavedInv'
    BY <1>1, <1>2, <1>3 DEF LedgerInv, QueueInv, SavedInv
  <1>5. FreshInv'
    <2>1. \A d \in Doc : versionStatus[d] = "ABSENT" => versionStatus'[d] = "ABSENT"
      <3>1. UNCHANGED versionStatus \/ \E s \in VersionStatus : SetVersion(firstDoc, s)
        BY Statuses
        DEF VectorServiceNext, VectorStep, PollBatch, UpsertMilvus, AckBatch, AckFailed,
            Acknowledge, CommitDone, CommitFailed, MilvusFails, TxAborts, VectorCrash
      <3> QED
        BY <3>1 DEF SetVersion, TypeOK, TablesTypeOK
    <2> QED
      BY <1>2, <2>1 DEF LedgerInv, FreshInv
  <1>6. RequestInv'
    <2>1. \A l : l \in locks /\ l[1] # Listener => l \in locks'
      BY DEF VectorServiceNext, VectorStep, PollBatch, UpsertMilvus, AckBatch, AckFailed,
             Acknowledge, CommitDone, CommitFailed, Commit, MilvusFails, TxAborts,
             VectorCrash, Lock, Unlock
    <2>2. \A r \in Request, d \in Doc :
              <<r, <<"doc", d>>>> \in locks => <<r, <<"doc", d>>>> \in locks'
      BY <2>1, ListenerAssumption
    <2> QED
      BY <1>2, <1>3, <2>2 DEF LedgerInv, RequestInv
  <1>7. SentInv'
    BY <1>1, <1>2, <1>3 DEF LedgerInv, SentInv
  <1>8. WaitingInv'
    BY <1>1, <1>2, <1>3 DEF LedgerInv, WaitingInv
  <1>9. HandInv'
    <2>1. wkPc \in DOMAIN StageStatus =>
              docStatus'[wkDoc] \in StageStatus[wkPc] /\ wkDoc \notin results
      BY <1>2, <1>3 DEF LedgerInv, HandInv, StageStatus
    <2>2. \A m \in Message : task[m] # "ABSENT" => task'[m] # "ABSENT"
      BY DEF VectorServiceNext, VectorStep, PollBatch, UpsertMilvus, AckBatch, AckFailed,
             Acknowledge, CommitDone, CommitFailed, MarkTasks, MilvusFails, TxAborts,
             VectorCrash
    <2>3. wkPc \in Failing /\ wkNext <= wkChunks => <<wkDoc, wkNext>> \in Message
      BY <1>3, ChunksAssumption DEF Failing, Message, Chunk, TypeOK, WorkerTypeOK
    <2>4. wkPc \in Failing /\ wkDoc \notin results => docStatus'[wkDoc] = docStatus[wkDoc]
      BY <1>2, <1>3 DEF Failing
    <2> QED
      BY <1>1, <1>3, <2>1, <2>2, <2>3, <2>4 DEF LedgerInv, HandInv
  <1>10. FailedInv'
    <2> SUFFICES ASSUME NEW d \in results, docStatus'[d] = "FAILED"
                 PROVE  \E m \in Message : m[1] = d /\ task'[m] = "FAILED" /\ Lost(m)'
      BY <1>1 DEF FailedInv
    <2>1. CASE docStatus[d] = "FAILED"
      <3>1. PICK m \in Message : m[1] = d /\ task[m] = "FAILED" /\ Lost(m)
        BY <2>1 DEF LedgerInv, FailedInv
      <3> QED
        BY <1>0, <3>1, LostStays
    <2>2. CASE docStatus[d] # "FAILED"
      <3>1. CommitFailed /\ d = firstDoc /\ vecPc = "failed"
        BY <1>3, <2>2, ListenerMoves DEF CommitFailed, Commit
      <3>2. PICK k \in 1..Len(embedTopic), m \in Message :
                k = batchStart /\ m = embedTopic[k] /\ m[1] = d
        BY <3>1, InHand DEF firstDoc
      <3>3. m \in Batch /\ task[m] # "ABSENT"
        BY <3>1, <3>2 DEF Batch, EmbeddingInv, TaskInv, TypeOK, VectorTypeOK
      <3>4. task'[m] = "FAILED"
        BY <3>1, <3>2, <3>3 DEF CommitFailed, MarkTasks
      <3>5. Behind(k)'
        BY <3>1, <3>2
        DEF Behind, CommitFailed, Commit, EndBatch, EmbeddingInv, OffsetInv, TypeOK,
            VectorTypeOK
      <3> QED
        BY <1>1, <3>2, <3>4, <3>5 DEF Lost
    <2> QED
      BY <2>1, <2>2
  <1> QED
    BY <1>4, <1>5, <1>6, <1>7, <1>8, <1>9, <1>10 DEF LedgerInv

LEMMA LedgerStep ==
    MovesForward /\ TypeOK /\ TypeOK' /\ EmbeddingInv /\ ReadyInv /\ LedgerInv
        /\ [Next]_vars => LedgerInv'
  <1> SUFFICES ASSUME MovesForward, TypeOK, TypeOK', EmbeddingInv, ReadyInv, LedgerInv,
                      [Next]_vars
               PROVE  LedgerInv'
    OBVIOUS
  <1>1. CASE UNCHANGED vars
    BY <1>1
    DEF vars, tables, requestVars, workerVars, vectorVars, LedgerInv, QueueInv, FreshInv,
        RequestInv, SentInv, WaitingInv, HandInv, SavedInv, FailedInv, Lost, Behind, wkDoc
  <1> QED
    BY <1>1, RequestsKeep, ProcessorKeeps, ListenerKeeps DEF Next, MovesForward

LEMMA LedgerInit == Init => LedgerInv
  <1> SUFFICES ASSUME Init PROVE LedgerInv
    OBVIOUS
  <1> USE DEF Init, TablesInit, RequestInit, WorkerInit, VectorInit
  <1>1. QueueInv /\ SentInv /\ WaitingInv
    BY DEF QueueInv, SentInv, WaitingInv
  <1>2. FreshInv /\ RequestInv /\ SavedInv /\ FailedInv
    BY DEF FreshInv, RequestInv, SavedInv, FailedInv
  <1>3. HandInv
    BY DEF HandInv, StageStatus, Failing
  <1> QED
    BY <1>1, <1>2, <1>3 DEF LedgerInv

-----------------------------------------------------------------------------
(* Every step is one of the ledger, or none.                               *)

LEMMA Phases ==
    /\ PhaseOf("ABSENT") = "none" /\ PhaseOf("DRAFT") = "draft"
    /\ PhaseOf("PENDING") = "pending" /\ PhaseOf("READY") = "ready"
    /\ PhaseOf("FAILED") = "failed" /\ PhaseOf("GONE") = "gone"
    /\ \A s \in Stage \union {"PROCESSING"} : PhaseOf(s) = "processing"
  BY DEF PhaseOf, Stage

phaseOf    == [d \in Doc |-> PhaseOf(docStatus[d])]
plannedOf  == [d \in Doc |-> {c \in Chunk : task[<<d, c>>] # "ABSENT"}]
embeddedOf == [d \in Doc |-> {c \in Chunk : task[<<d, c>>] = "DONE"}]

\* A step that changes one status, and of the tasks nothing the ledger shows.
LEMMA OneMoves ==
    ASSUME TypeOK, NEW d \in Doc, NEW from, NEW to,
           UNCHANGED <<plannedOf, embeddedOf>>,
           \A x \in Doc : x # d => docStatus'[x] = docStatus[x],
           PhaseOf(docStatus[d]) \in from, PhaseOf(docStatus'[d]) = to
    PROVE  Ledger!Move(d, from, to)
  <1>1. phaseOf' = [phaseOf EXCEPT ![d] = to] /\ phaseOf[d] \in from
    BY DEF phaseOf
  <1> QED
    BY <1>1 DEF Ledger!Move, phaseOf, plannedOf, embeddedOf

LEMMA NoneMoves ==
    ASSUME UNCHANGED <<phaseOf, plannedOf, embeddedOf>>
    PROVE  UNCHANGED Ledger!ledgerVars
  BY DEF Ledger!ledgerVars, phaseOf, plannedOf, embeddedOf

LEMMA TasksStay ==
    ASSUME \A m \in Message : task'[m] = task[m]
    PROVE  UNCHANGED <<plannedOf, embeddedOf>>
  BY DEF plannedOf, embeddedOf, Message

LEMMA LedgerActs ==
    ASSUME NEW d \in Doc, Ledger!Plan(d) \/ Ledger!Embed(d)
    PROVE  Ledger!Next
  BY DEF Ledger!Next

LEMMA RequestSteps ==
    ASSUME MovesForward, TypeOK, LedgerInv,
           IngestServiceNext, UNCHANGED <<workerVars, vectorVars>>
    PROVE  Ledger!Next \/ UNCHANGED Ledger!ledgerVars
  <1> USE DEF tables
  <1>1. /\ docStatus \in [Doc -> DocStatus]
        /\ \A r \in Request : reqPc[r] # "idle" => reqDoc[r] \in Doc
    BY DEF TypeOK, TablesTypeOK, RequestTypeOK
  <1>2. UNCHANGED <<plannedOf, embeddedOf>>
    <2>1. UNCHANGED task
      BY DEF IngestServiceNext, UserStep, HandlerStep, InitUpload, VerifyUpload, PutObject,
             CommitRead, IngestRead, RetryBegin, DeleteObject, CommitWrite, IngestDirectly,
             IngestSend, IngestCommit, RetryRefused, DeleteRow, RequestDies
    <2> QED
      BY <2>1, TasksStay
  <1>3. CASE UNCHANGED docStatus
    <2>1. UNCHANGED phaseOf
      BY <1>3 DEF phaseOf
    <2> QED
      BY <1>2, <2>1, NoneMoves
  <1>4. CASE \E d \in Doc : InitUpload(d)
    <2> PICK d \in Doc : InitUpload(d)
      BY <1>4
    <2>1. Ledger!Move(d, {"none"}, "draft")
      BY <1>1, <1>2, OneMoves, Phases DEF InitUpload
    <2> QED
      BY <2>1 DEF Ledger!Register, Ledger!Next
  <1>5. CASE \E r \in Request : CommitWrite(r)
    <2> PICK r \in Request : CommitWrite(r)
      BY <1>5
    <2> DEFINE d == reqDoc[r]
    <2>1. /\ d \in Doc /\ docStatus[d] = "DRAFT"
          /\ UNCHANGED docStatus \/ docStatus' = [docStatus EXCEPT ![d] = "PENDING"]
      BY <1>1 DEF CommitWrite, SetDoc, LedgerInv, RequestInv
    <2> HIDE DEF d
    <2>2. CASE docStatus' = [docStatus EXCEPT ![d] = "PENDING"]
      <3>1. Ledger!Move(d, {"draft"}, "pending")
        BY <1>1, <1>2, <2>1, <2>2, OneMoves, Phases
      <3> QED
        BY <2>1, <3>1 DEF Ledger!Submit, Ledger!Next
    <2> QED
      BY <1>3, <2>1, <2>2
  <1>6. CASE \E r \in Request : IngestDirectly(r)
    <2> PICK r \in Request : IngestDirectly(r)
      BY <1>6
    <2> DEFINE d == reqDoc[r]
    <2>1. /\ d \in Doc \ SmartParse /\ docStatus[d] = "PENDING"
          /\ docStatus' = [docStatus EXCEPT ![d] = "READY"]
      BY <1>1 DEF IngestDirectly, SetDoc, HasRow, LedgerInv, RequestInv
    <2> HIDE DEF d
    <2>2. Ledger!Move(d, {"pending"}, "ready")
      BY <1>1, <1>2, <2>1, OneMoves, Phases
    <2> QED
      BY <2>1, <2>2 DEF Ledger!Publish, Ledger!Next
  <1>7. CASE \E r \in Request : IngestCommit(r)
    <2> PICK r \in Request : IngestCommit(r)
      BY <1>7
    <2> DEFINE d == reqDoc[r]
    <2>1. /\ d \in Doc /\ d \in SmartParse /\ docStatus[d] = "PENDING"
          /\ docStatus' = [docStatus EXCEPT ![d] = "PROCESSING"]
      BY <1>1 DEF IngestCommit, SetDoc, HasRow, LedgerInv, RequestInv
    <2> HIDE DEF d
    <2>2. Ledger!Move(d, {"pending"}, "processing")
      BY <1>1, <1>2, <2>1, OneMoves, Phases
    <2> QED
      BY <2>1, <2>2 DEF Ledger!Begin, Ledger!Next
  <1>8. CASE \E r \in Request : DeleteRow(r)
    <2> PICK r \in Request : DeleteRow(r)
      BY <1>8
    <2> DEFINE d == reqDoc[r]
    <2>1. d \in Doc /\ SetDoc(d, "GONE")
      BY <1>1 DEF DeleteRow
    <2> HIDE DEF d
    <2>2. CASE HasRow(d)
      <3>1. docStatus' = [docStatus EXCEPT ![d] = "GONE"]
        BY <2>1, <2>2 DEF SetDoc
      <3>2. PhaseOf(docStatus[d]) \in {"draft", "pending", "processing", "ready", "failed"}
        BY <1>1, <2>1, <2>2, Phases DEF HasRow, DocStatus
      <3>3. Ledger!Move(d, {"draft", "pending", "processing", "ready", "failed"}, "gone")
        BY <1>1, <1>2, <2>1, <3>1, <3>2, OneMoves, Phases
      <3> QED
        BY <2>1, <3>3 DEF Ledger!Remove, Ledger!Next
    <2> QED
      BY <1>3, <2>1, <2>2 DEF SetDoc
  <1> QED
    BY <1>3, <1>4, <1>5, <1>6, <1>7, <1>8
    DEF IngestServiceNext, UserStep, HandlerStep, VerifyUpload, PutObject, CommitRead,
        IngestRead, RetryBegin, DeleteObject, IngestSend, RetryRefused, RequestDies

\* A document on its way that fails.
LEMMA FailStep ==
    ASSUME TypeOK, NEW d \in Doc, docStatus[d] \in {"PROCESSING"} \union Stage,
           docStatus'[d] = "FAILED", \A x \in Doc : x # d => docStatus'[x] = docStatus[x],
           UNCHANGED <<plannedOf, embeddedOf>>
    PROVE  Ledger!Next
  <1>1. Ledger!Move(d, {"processing"}, "failed")
    BY OneMoves, Phases
  <1> QED
    BY <1>1 DEF Ledger!Fail, Ledger!Next

LEMMA ProcessorSteps ==
    ASSUME MovesForward, TypeOK, EmbeddingInv, ReadyInv, LedgerInv, DocProcessorNext,
           UNCHANGED <<requestVars, vectorVars>>
    PROVE  Ledger!Next \/ UNCHANGED Ledger!ledgerVars
  <1> USE DEF tables
  <1>1. CASE SaveResults
    <2>0. wkDoc \in Doc
      BY <1>1, InHandFacts DEF SaveResults
    <2> PICK d \in Doc : d = wkDoc
      BY <2>0
    <2>1. /\ wkPc = "saving" /\ d \notin results /\ UNCHANGED docStatus
          /\ task' = [m \in Message |-> IF m[1] = d /\ m[2] <= wkChunks
                                         THEN "PENDING" ELSE task[m]]
      BY <1>1 DEF SaveResults
    <2>2. docStatus[d] \in {"VECTOR_PENDING", "GONE"}
      BY <2>1 DEF LedgerInv, HandInv, StageStatus
    <2>3. \A c \in Chunk : <<d, c>> \in Message /\ task[<<d, c>>] = "ABSENT"
      <3>1. \A c \in Chunk : <<d, c>> \in Message
        BY <2>1 DEF Message
      <3> QED
        BY <2>1, <3>1 DEF EmbeddingInv, TaskInv
    <2>4. phaseOf' = phaseOf /\ phaseOf[d] \in {"processing", "gone"}
      BY <2>1, <2>2, Phases DEF phaseOf, Stage
    <2>5. plannedOf[d] = {}
      BY <2>1, <2>3 DEF plannedOf
    <2>6. \A x \in Doc, c \in Chunk :
              /\ <<x, c>> \in Message
              /\ x # d => task'[<<x, c>>] = task[<<x, c>>]
              /\ task'[<<x, c>>] = "DONE" <=> task[<<x, c>>] = "DONE"
      <3>1. \A x \in Doc, c \in Chunk :
                /\ <<x, c>> \in Message
                /\ task'[<<x, c>>] = IF x = d /\ c <= wkChunks THEN "PENDING"
                                     ELSE task[<<x, c>>]
        BY <2>1 DEF Message
      <3> QED
        BY <2>3, <3>1
    <2>7. embeddedOf' = embeddedOf
      BY <2>6 DEF embeddedOf
    <2>8. plannedOf' \in {[plannedOf EXCEPT ![d] = chunks] : chunks \in SUBSET Chunk}
      <3> DEFINE chunks == {c \in Chunk : task'[<<d, c>>] # "ABSENT"}
      <3>1. \A x \in Doc : plannedOf'[x] = [plannedOf EXCEPT ![d] = chunks][x]
        BY <2>1, <2>6 DEF plannedOf
      <3>2. plannedOf' = [plannedOf EXCEPT ![d] = chunks]
        BY <3>1 DEF plannedOf
      <3> QED
        BY <3>2
    <2>9. Ledger!Plan(d)
      BY <2>4, <2>5, <2>7, <2>8 DEF Ledger!Plan, phaseOf, plannedOf, embeddedOf
    <2> QED
      BY <2>1, <2>9, LedgerActs
  <1>2. CASE ~SaveResults
    <2>1. UNCHANGED <<plannedOf, embeddedOf>>
      <3>1. CASE MarkFailed
        <4>1. \A m \in Message : /\ task'[m] = "ABSENT" <=> task[m] = "ABSENT"
                                 /\ task'[m] = "DONE" <=> task[m] = "DONE"
          BY <3>1 DEF MarkFailed
        <4>2. \A d \in Doc, c \in Chunk : <<d, c>> \in Message
          BY DEF Message
        <4> QED
          BY <4>1, <4>2 DEF plannedOf, embeddedOf
      <3>2. CASE UNCHANGED task
        BY <3>2, TasksStay
      <3> QED
        BY <1>2, <3>1, <3>2
        DEF DocProcessorNext, WorkerStep, Poll, StartParsing, ParseAndClean, ChunkText,
            EmbedChunks, UpdateStage, SaveRefused, ObjectMissing, StageFails, Raise,
            PublishChunk, FinishPublishing, MarkFails, CommitOffset, WorkerCrash
    <2>2. CASE \E d \in Doc : docStatus'[d] # docStatus[d] /\ docStatus'[d] \notin Stage
      <3> PICK d \in Doc : docStatus'[d] # docStatus[d] /\ docStatus'[d] \notin Stage
        BY <2>2
      <3> QED
        BY <2>1, ProcessorMoves, FailStep
    <2>3. CASE \A d \in Doc : docStatus'[d] # docStatus[d] => docStatus'[d] \in Stage
      <3>1. \A d \in Doc : PhaseOf(docStatus'[d]) = PhaseOf(docStatus[d])
        BY <2>3, ProcessorMoves, Phases
      <3>2. UNCHANGED phaseOf
        BY <3>1 DEF phaseOf
      <3> QED
        BY <2>1, <3>2, NoneMoves
    <2> QED
      BY <2>2, <2>3
  <1> QED
    BY <1>1, <1>2

LEMMA ListenerSteps ==
    ASSUME MovesForward, TypeOK, EmbeddingInv, ReadyInv, LedgerInv, VectorServiceNext,
           UNCHANGED <<requestVars, workerVars>>
    PROVE  Ledger!Next \/ UNCHANGED Ledger!ledgerVars
  <1> USE DEF tables
  <1>0. /\ \A d \in Doc, c \in Chunk : <<d, c>> \in Message
        /\ \A m \in Message : m = <<m[1], m[2]>> /\ m[1] \in Doc /\ m[2] \in Chunk
    BY DEF Message
  <1>1. [Next]_vars /\ SentOnce
    BY DEF Next, MovesForward
  <1>2. CASE CommitDone
    <2>0. firstDoc \in Doc
      BY <1>2, InHandFacts DEF CommitDone, Commit
    <2> PICK d \in Doc : d = firstDoc
      BY <2>0
    <2>1. /\ vecPc = "done" /\ task' = MarkTasks("DONE")
          /\ IF AllDone(d) THEN SetDoc(d, "READY") ELSE UNCHANGED docStatus
      BY <1>2 DEF CommitDone, Commit
    <2>2. \A m \in Message : /\ task'[m] = "ABSENT" <=> task[m] = "ABSENT"
                             /\ task[m] = "DONE" => task'[m] = "DONE"
                             /\ task'[m] = "DONE" => task[m] # "ABSENT"
      BY <2>1 DEF MarkTasks
    <2>3. /\ plannedOf' = plannedOf /\ embeddedOf' \in [Doc -> SUBSET Chunk]
          /\ \A x \in Doc : /\ embeddedOf[x] \subseteq embeddedOf'[x]
                            /\ embeddedOf'[x] \subseteq plannedOf[x]
      BY <1>0, <2>2 DEF plannedOf, embeddedOf
    <2>4. CASE UNCHANGED docStatus
      <3>1. phaseOf' = phaseOf
        BY <2>4 DEF phaseOf
      <3>2. Ledger!Embed(d)
        BY <2>3, <3>1 DEF Ledger!Embed, phaseOf, plannedOf, embeddedOf
      <3> QED
        BY <2>1, <3>2, LedgerActs
    <2>5. CASE ~UNCHANGED docStatus
      <3>1. /\ AllDone(d) /\ docStatus' = [docStatus EXCEPT ![d] = "READY"]
        BY <2>1, <2>5 DEF SetDoc
      <3>2. CASE docStatus[d] = "READY"
        BY <2>5, <3>1, <3>2 DEF TypeOK, TablesTypeOK
      <3>3. CASE docStatus[d] # "READY"
        <4>1. docStatus'[d] = "READY" /\ docStatus[d] = "VECTOR_PENDING"
          BY <2>1, <3>1, <3>3, ListenerMoves DEF TypeOK, TablesTypeOK
        <4>2. phaseOf' = [phaseOf EXCEPT ![d] = "ready"] /\ phaseOf[d] = "processing"
          BY <2>1, <3>1, <4>1, Phases DEF phaseOf, Stage, TypeOK, TablesTypeOK
        <4>3. PICK m \in Message : m[1] = d /\ task[m] # "ABSENT"
          <5>1. embedTopic[batchStart] \in Message /\ embedTopic[batchStart][1] = d
                /\ batchStart \in 1..Len(embedTopic)
            BY <2>1, InHand DEF firstDoc
          <5> QED
            BY <5>1 DEF EmbeddingInv, TaskInv
        <4>4. plannedOf[d] # {}
          <5>1. m[2] \in Chunk /\ task[<<d, m[2]>>] # "ABSENT"
            BY <1>0, <4>3
          <5> QED
            BY <2>1, <5>1 DEF plannedOf
        <4>5. \A c \in Chunk : task[<<d, c>>] # "ABSENT" => task'[<<d, c>>] = "DONE"
          <5>1. \A c \in Chunk : <<d, c>> \in Message /\ <<d, c>>[1] = d
            BY <1>0, <2>1
          <5> QED
            BY <2>1, <3>1, <5>1 DEF AllDone, MarkTasks
        <4>6. embeddedOf'[d] = plannedOf[d]
          BY <2>1, <2>3, <4>5 DEF plannedOf, embeddedOf
        <4>7. Ledger!Embed(d)
          BY <2>3, <4>2, <4>4, <4>6 DEF Ledger!Embed, phaseOf, plannedOf, embeddedOf
        <4> QED
          BY <2>1, <4>7, LedgerActs
      <3> QED
        BY <3>2, <3>3
    <2> QED
      BY <2>4, <2>5
  <1>3. CASE CommitFailed
    <2>1. task' = MarkTasks("FAILED")
      BY <1>3 DEF CommitFailed
    <2>2. \A m \in Message : /\ task'[m] = "ABSENT" <=> task[m] = "ABSENT"
                             /\ task[m] = "DONE" <=> task'[m] = "DONE"
      <3>1. \A m \in Message : task[m] = "DONE" => task'[m] = "DONE"
        BY <1>1, DoneStays DEF EmbeddingInv
      <3> QED
        BY <2>1, <3>1 DEF MarkTasks
    <2>3. UNCHANGED <<plannedOf, embeddedOf>>
      BY <1>0, <2>2 DEF plannedOf, embeddedOf
    <2>4. CASE \E d \in Doc : docStatus'[d] # docStatus[d]
      <3> PICK d \in Doc : docStatus'[d] # docStatus[d]
        BY <2>4
      <3>1. /\ docStatus[d] \in Stage /\ d = firstDoc
            /\ docStatus'[d] \in {"READY", "FAILED"}
        BY ListenerMoves DEF Stage
      <3>2. docStatus'[d] = "FAILED"
        BY <1>3, <3>1 DEF CommitFailed, SetDoc, TypeOK, TablesTypeOK
      <3>3. \A x \in Doc : x # d => docStatus'[x] = docStatus[x]
        BY <3>1, ListenerMoves
      <3> QED
        BY <2>3, <3>1, <3>2, <3>3, FailStep
    <2>5. CASE \A d \in Doc : docStatus'[d] = docStatus[d]
      <3>1. UNCHANGED phaseOf
        BY <2>5 DEF phaseOf
      <3> QED
        BY <2>3, <3>1, NoneMoves
    <2> QED
      BY <2>4, <2>5
  <1>4. CASE UNCHANGED <<docStatus, task>>
    <2>1. UNCHANGED <<phaseOf, plannedOf, embeddedOf>>
      BY <1>4, TasksStay DEF phaseOf
    <2> QED
      BY <2>1, NoneMoves
  <1> QED
    BY <1>2, <1>3, <1>4
    DEF VectorServiceNext, VectorStep, PollBatch, UpsertMilvus, AckBatch, AckFailed,
        Acknowledge, MilvusFails, TxAborts, VectorCrash

\* The initial states map to the initial state of the ledger.
LEMMA LedgerBegins == Init => Ledger!Init
  <1> SUFFICES ASSUME Init PROVE Ledger!Init
    OBVIOUS
  <1>1. \A d \in Doc, c \in Chunk : <<d, c>> \in Message /\ task[<<d, c>>] = "ABSENT"
    BY DEF Init, TablesInit, Message
  <1> QED
    BY <1>1, Phases DEF Init, TablesInit, Ledger!Init

\* Where a document cannot be taken back, the ingestion flow implements its
\* ledger, whatever stages, sends, MinIO, Milvus or PostgreSQL fail and however
\* often the listener dies: a document moves forward only, READY and FAILED are
\* never overwritten, and it becomes READY only when all that is planned for it
\* is embedded.
THEOREM FlowImplementsLedger ==
    ASSUME MovesForward
    PROVE  Spec => ImplementsLedger
  <1>1. Init => ReadyInv
    BY SmartParseAssumption
    DEF Init, TablesInit, ReadyInv, ReadyMeansEmbedded, ReadyAgrees
  <1>2. TypeOK /\ TypeOK' /\ EmbeddingInv /\ [Next]_vars => EmbeddingInv'
    BY EmbeddingStep DEF MovesForward
  <1>3. TypeOK /\ EmbeddingInv /\ ReadyInv /\ [Next]_vars => ReadyInv'
    BY ReadyStep
  <1>4. TypeOK /\ TypeOK' /\ EmbeddingInv /\ ReadyInv /\ LedgerInv /\ [Next]_vars
            => LedgerInv'
    BY LedgerStep
  <1>5. TypeOK /\ EmbeddingInv /\ ReadyInv /\ LedgerInv /\ [Next]_vars
            => [Ledger!Next]_(Ledger!ledgerVars)
    <2> SUFFICES ASSUME TypeOK, EmbeddingInv, ReadyInv, LedgerInv, [Next]_vars
                 PROVE  Ledger!Next \/ UNCHANGED Ledger!ledgerVars
      OBVIOUS
    <2>1. CASE UNCHANGED vars
      <3>1. UNCHANGED <<phaseOf, plannedOf, embeddedOf>>
        BY <2>1 DEF vars, tables, phaseOf, plannedOf, embeddedOf
      <3> QED
        BY <3>1, NoneMoves
    <2> QED
      BY <2>1, RequestSteps, ProcessorSteps, ListenerSteps DEF Next
  <1> QED
    BY <1>1, <1>2, <1>3, <1>4, <1>5, EmbeddingInit, LedgerInit, LedgerBegins,
       TypeCorrect, PTL DEF Spec, ImplementsLedger, Ledger!Spec

=============================================================================
