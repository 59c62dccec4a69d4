-------------------------- MODULE IngestionPipeline --------------------------
(***************************************************************************)
(* The ingestion flow of a document: ingest-service, kb-doc-processor and  *)
(* vector-service over the tables, the objects and the topics they share.  *)
(* One worker thread and one listener thread, as deployed; the request     *)
(* threads are a constant.                                                 *)
(***************************************************************************)
EXTENDS IngestService, DocProcessor, VectorService

ASSUME ListenerAssumption == Listener \notin Request

vars == <<tables, requestVars, workerVars, vectorVars>>

TypeOK ==
    /\ TablesTypeOK
    /\ RequestTypeOK
    /\ WorkerTypeOK
    /\ VectorTypeOK
    /\ locks \subseteq (Request \union {Listener}) \X Row

Init == TablesInit /\ RequestInit /\ WorkerInit /\ VectorInit

Next ==
    \/ IngestServiceNext /\ UNCHANGED <<workerVars, vectorVars>>
    \/ DocProcessorNext  /\ UNCHANGED <<requestVars, vectorVars>>
    \/ VectorServiceNext /\ UNCHANGED <<requestVars, workerVars>>

Spec == Init /\ [][Next]_vars

(***************************************************************************)
(* A thread that has begun goes on, and the consumers keep polling.        *)
(* Fairness is strong because PostgreSQL grants a row lock in the order of *)
(* arrival: a statement that waits for a row is not passed over for ever.  *)
(* Users and faults are under no obligation.                               *)
(***************************************************************************)
Fairness ==
    /\ \A r \in Request :
          SF_vars(HandlerStep(r) /\ UNCHANGED <<workerVars, vectorVars>>)
    /\ SF_vars(WorkerStep /\ UNCHANGED <<requestVars, vectorVars>>)
    /\ SF_vars(VectorStep /\ UNCHANGED <<requestVars, workerVars>>)

FairSpec == Spec /\ Fairness

-----------------------------------------------------------------------------
(* Safety                                                                  *)

\* A chunk whose embed_task is DONE can be found: its full-text row is stored
\* and Milvus holds at least one row of it.  The listener writes both stores
\* and the task row without a common transaction.
DoneMeansIndexed ==
    \A m \in Message : task[m] = "DONE" => m \in searchIdx /\ milvus[m] > 0

InFlight == {"PROCESSING", "PARSING", "CHUNKING", "EMBEDDING"}

\* Somebody still has to work on d: a message the consumer has not polled, or
\* the message in its hands.
Carried(d) ==
    \/ \E i \in fiPosition + 1 .. Len(fileIngest) : fileIngest[i] = d
    \/ wkPc \in Working \union Failing /\ wkDoc = d

\* A document in a working status is not forgotten: as long as sends and the
\* FAILED mark do not fail, some message or the worker still carries it,
\* whatever crashes, redeliveries, double submissions and deletions happen.
InFlightIsCarried ==
    \A d \in Doc : docStatus[d] \in InFlight => Carried(d)

Planned(d) == {m \in Message : m[1] = d /\ task[m] # "ABSENT"}

\* READY of a document that went through the pipeline means what the retrieval
\* side takes it for: it has chunks, and each of them is DONE.
ReadyMeansEmbedded ==
    \A d \in SmartParse : docStatus[d] = "READY" =>
        /\ Planned(d) # {}
        /\ \A m \in Planned(d) : task[m] = "DONE"

\* knowledge_doc and knowledge_version are updated by separate statements of
\* three services; a READY document has a READY version.
ReadyAgrees ==
    \A d \in SmartParse : docStatus[d] = "READY" => versionStatus[d] = "READY"

\* Nothing is queued for the pipeline that was not committed: each message of
\* either topic has the row its consumers update.
QueuedIsStored ==
    /\ \A i \in DOMAIN fileIngest : versionStatus[fileIngest[i]] # "ABSENT"
    /\ \A i \in DOMAIN embedTopic : task[embedTopic[i]] # "ABSENT"

\* The listener's offset stands for work done: whatever it has acknowledged,
\* once its transaction is over, is DONE or FAILED in embed_task.
AckedIsSettled ==
    vecPc = "idle" =>
        \A i \in 1..etCommitted : task[embedTopic[i]] \in {"DONE", "FAILED"}

-----------------------------------------------------------------------------
(* Action properties                                                       *)

\* A document becomes PENDING from DRAFT only: of two concurrent commits the
\* later one must not take a document back that is already under way.
CommittedOnce ==
    [][\A d \in Doc : docStatus[d] # "PENDING" /\ docStatus'[d] = "PENDING"
                         => docStatus[d] = "DRAFT"]_vars

\* What has been embedded stays embedded: no retry, failure mark or redelivery
\* takes a chunk back from DONE.
DoneIsStable ==
    [][\A m \in Message : task[m] = "DONE" => task'[m] = "DONE"]_vars

-----------------------------------------------------------------------------
(* Liveness                                                                *)

Unsettled == InFlight \union {"VECTOR_PENDING"}

\* A submitted document does not stay half-way: it becomes READY or FAILED, or
\* it is deleted.
EventuallySettled ==
    \A d \in Doc : docStatus[d] \in Unsettled ~> docStatus[d] \notin Unsettled

-----------------------------------------------------------------------------
(* Statements of the documents, the comments and the messages of the code  *)
(* that the code does not keep.                                            *)

\* "A FAILED document can be queued again through the retry interface": a retry
\* that got past its guard ends with a message on file-ingest.
RetryReenqueues ==
    [][\A r \in Request : reqPc[r] = "retry" /\ reqPc'[r] # "retry"
                             => Len(fileIngest') > Len(fileIngest)]_vars

\* "When all embed_task rows of a version are DONE, it becomes READY": true
\* between two batches of the listener.
AllDoneIsReady ==
    vecPc = "idle" =>
        \A d \in SmartParse :
            Planned(d) # {} /\ (\A m \in Planned(d) : task[m] = "DONE")
                => docStatus[d] \in {"READY", "GONE"}

=============================================================================
