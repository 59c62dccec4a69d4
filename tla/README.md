# Verification of kb_platform

TLA+ modules, TLC configurations and TLAPS proofs about kb_platform, a
multi-tenant knowledge base: documents are uploaded, parsed, cut into chunks,
embedded into Milvus and PostgreSQL full-text indexes, and then retrieved to
answer questions. Paths are relative to the repository's root, those of the
portal to `kb-portal/web/src`.

Two halves of the system keep state that several actors change, and both are
modelled:

* the **ingestion flow**, where three processes, two Kafka topics, two databases
  and an object store have to agree on the fate of a document, with the
  knowledge spaces and the chat sessions beside it;
* the **portal**, whose pages hold copies of what the server has, start calls
  that answer in any order, poll, and follow event streams.

## 1. Inventory

### Services

| Component | State it keeps | Operations | Hard behaviour | What makes it correct |
|---|---|---|---|---|
| **ingest-service, documents** (`kb-mcp/ingest-service/.../DocServiceImpl.java`, `MinioService.java`) | rows of `knowledge_doc`, `knowledge_version`; MinIO objects; topic `file-ingest` | init-upload, upload, verify, commit, ingest, retry, delete | concurrent requests on one document; the Kafka send is not part of the transaction; a bulk UPDATE beside a cached entity | committed and queued once; what is queued exists; a document in work is carried by somebody |
| **kb-doc-processor** (`kafka_consumer.py`, `pipeline.py`, `kafka_producer.py`) | consumer position and committed offset; `knowledge_clean`, `knowledge_structured`, `embed_task`; document and version status | consume, stages, save, publish, mark failed | redelivery after a restart; permanent and transient errors; asynchronous produce | no document in a working status is forgotten; a finished document is not disturbed |
| **vector-service, listener** (`EmbedTaskConsumer.java`, `MilvusService.java`, `KafkaConfig.java`) | Milvus rows, `knowledge_search_idx`, `embed_task`, document and version status, offset | consume a batch, mark done or failed, make READY | one batch for several documents; acknowledgement inside the transaction; a second store without a common transaction | DONE is indexed; READY is embedded; acknowledged is settled |
| **ingest-service, spaces and access lists** (`SpaceServiceImpl.java`, `SpaceAclServiceImpl.java`) | space tree, `space_acl`, `doc_acl` | create, update, delete a subtree, replace the list | a count before a delete; a cascade beside registrations; two updates at once | no orphan; the lists of a document agree with those of its space |
| **rag-service, sessions** (`SessionService.java`, `ChatServiceImpl.java`) | Redis entry, `rag_session`, `rag_message` | load, append a turn, delete | read-modify-write of one entry; the entry is written inside the transaction; expiry; failing calls | the cache agrees with the database; each question has its own answer |
| **rag-service, evaluation** (`EvalController.java`, `EvalGenerationPipeline.java`, `EvalRunnerService.java`) | status of a data set and of its runs | generate, run, events | two pipelines on one data set; a restart during one; a failure that is not written; an emitter that has gone | what a page shows at work is at work, and ends |
| **rag-service, feedback and badcases** (`FeedbackService.java`, `BadcaseService.java`) | one feedback per answer, one status per badcase | store, move | concurrent calls of one page | a page shows what was stored |
| rag-service, question answering and retrieval (`ChatServiceImpl.java`, `retrieval/`) | none of its own; traces | plan, retrieve, fuse, rerank, select, generate | channels with time-outs, a fallback per stage | not modelled, section 7 |
| rag-service, FAQ, caches, traces, alerts | in-memory copies, append-only records | refresh, record | - | not modelled |
| vector-service, reconcile job (`ReconcileJob.java`) | `reconcile_log`, a retry topic | compare PostgreSQL with Milvus, publish repairs | two snapshots one after the other; the topic has no consumer | not modelled |
| public-api (`FileIngestServiceImpl.java`) | in-memory idempotency store | six remote calls in a row | look-up before, store after the calls | not modelled |
| llm-gateway, rerank-service, statistics, contracts, kb-infra | none | proxy, score, query, deploy | - | not modelled |

### Portal

| Component | State it keeps | Operations | Hard behaviour | What makes it correct |
|---|---|---|---|---|
| **event streams** (`api/http-client.ts`) | the unparsed rest of a chunk, the event at hand | read, parse, call back | a network that cuts anywhere; variables that live for one chunk | events whole, in order, at most once, none after the end |
| **question page** (`app/rag/page.tsx`, `RagSessionPanel`, `SlashCommandMenu`) | messages, the lock of sending, active session, feedback, input, skill, microphone, quick-ingest dialog | send, stop, slash commands, switch, load, create, delete, like, dislike, dictate, attach, ingest | questions, loads and switches overlap; exits that forget the lock; streams that end without telling | the lock does its work; the screen is of the active session; what is shown as stored was stored |
| **command bar** (`components/LUI/CommandBar.tsx`) | line, result, open, skills panel | submit, pick, run | a delayed answer that nothing cancels | the result is of the line above it |
| **documents** (`documents/upload`, `documents/list`, `documents/[id]`, `PipelineDetailModal`, `FilePreview`) | steps, rows, intervals, form | upload in five calls, poll, retry, delete, batches | one reference for several intervals; older answers overtake newer ones; statuses that some pages do not follow; finished documents that begin again | a page tells of its own document, and follows it to its end |
| **spaces** (`spaces/create`, `spaces/[id]`, `spaces/import`, `settings/permissions`) | form, outline, matrix | three-step creation, edit, import, save a matrix | a form that is older than the server; a loop of calls | the fields filled in are stored; the tree is the outline; saved means stored |
| **file comparison** (`tools/file-compare`) | two names, two texts, the granularity | pick, remove, compare by lines or by words | reads that end in another order | the difference is of the files named |
| **skills, agents, models** (`useExtensions`, `skills`, `useAgents`, `experts`, `useLLMModels`, `ModelConfigPanel`) | collections in localStorage and their copies | edit, submit, approve, reject, import, test | two tabs, each writing its whole list; copies in dialogs | nothing reaches users without review; one default; a test is of the model shown |
| **monitor and board** (`monitor`, `DashboardView`, `BadcaseKanban`) | filters, pages, rows, details, cards | fetch, page, unfold, drag | answers of older filters; moves that fail | the table answers the filter; a card stands where it is stored |
| **evaluation** (`evaluation/datasets/...`) | status, rows, runs | list, generate, poll, run | pages that reattach; ends that are lost | what is shown at work is at work, and ends |
| home page, layout, login, static pages | local | navigate, draw | - | not modelled |

### How they interact

The portal or public-api calls ingest-service over HTTP; ingest-service puts a
message on `file-ingest`; kb-doc-processor consumes it, writes the shared
`kb_knowledge` tables and puts one message per chunk on `embed-task`;
vector-service consumes these in batches, writes Milvus and PostgreSQL and
updates the tables of the other two; rag-service reads the indexes. There is no
other coordination between the three writers: everything they know of each
other is in the rows and the topics. The portal's pages share only what they
read from the server and what lies in `localStorage`; inside a page, handlers,
timers and answers interleave at every `await`.

PROJECT.json lists each component with its sources and status, and each hazard
at its line with the properties that are about it.
## 2. Modules

### The server

| Module | Models | Extends / instantiates |
|---|---|---|
| `KnowledgeTables` | rows, objects, topics, row locks, fault counters, shared by the services | - |
| `IngestService` | the handlers of `DocServiceImpl` that change a document | `KnowledgeTables` |
| `DocProcessor` | consumer loop and pipeline of kb-doc-processor | `KnowledgeTables` |
| `VectorService` | batch listener of vector-service | `KnowledgeTables` |
| `IngestionPipeline` | the three services side by side, fairness, properties | the three above |
| `DocLedger` | abstract specification: what the flow promises of a document | - |
| `PipelineLedger` | the refinement mapping from `IngestionPipeline` to `DocLedger` | both |
| `KnowledgeSpaces` | `SpaceServiceImpl`, `SpaceAclServiceImpl`, registration of documents | - |
| `SessionStore` | `SessionService`, and `ChatServiceImpl` around it | - |

### The portal

| Module | Models |
|---|---|
| `EventFeed` | abstract specification of an event stream, as the pages rely on it |
| `SseReader` | the three parsers of `api/http-client.ts`; implements `EventFeed` |
| `RagChat` | sending, the lock, slash commands, sessions and loading of the question page |
| `MessageActions` | feedback on answers |
| `ChatComposer` | text, menu, skill and microphone of the input area |
| `QuickIngest` | quick-ingest dialog and attachment of the question page |
| `CommandBar` | the command bar |
| `DocumentService` | a document as the pages see it: a status that moves on its own, forwards and back |
| `UploadPage`, `UploadForm` | `documents/upload`: calls, polls and steps; form and request |
| `DocumentList` | `documents/list` |
| `DocumentViews` | `PipelineDetailModal`, `FilePreview`, `documents/[id]` |
| `OutlineImport` | `spaces/import` |
| `SpaceForms` | `spaces/create`, `spaces/[id]`, and the fields in `SpaceServiceImpl` |
| `SpacePermissions` | `settings/permissions` |
| `FileCompare` | `tools/file-compare` |
| `SkillStore` | `useExtensions`, `skills` |
| `AgentStore` | `useAgents`, `experts`, `experts/mine` |
| `ModelStore` | `useLLMModels`, `ModelConfigPanel` |
| `PageQueries` | the tables that are fetched for a filter: `monitor`, `DashboardView`, `BadcaseKanban`, `evaluation/datasets`, the tree of spaces |
| `TraceDetails` | unfolded rows and drawer of a trace, in `monitor` and `rag` |
| `BadcaseBoard` | `BadcaseKanban` |
| `Evaluation` | the evaluation pages with `EvalController`, `EvalGenerationPipeline`, `EvalRunnerService` |

### For the tools

| Module | Purpose |
|---|---|
| `MCPipeline` | model values and fault budgets of the ingestion flow |
| `MCChat`, `MCDocuments`, `MCConsoles` | the portal and the two services beside it, one part at work at a time |
| `MCProgress` | the pages that wait for something, with fairness |
| `IngestionPipelineProofs`, `EmbeddingProofs`, `LedgerProofs` | theorems about `IngestionPipeline` and the refinement of `DocLedger` |
| `SessionProofs` | theorems about `SessionStore` |
| `ChatProofs` | theorems about the parts of `MCChat` |
| `DocumentsProofs` | theorems about the parts of `MCDocuments` |
| `ConsoleProofs` | theorems about the parts of `MCConsoles` |
| `InductionLemmas` | induction over numbers and sequences, facts about folds |

### The ingestion flow: state and code

| Variable | In the code |
|---|---|
| `docStatus`, `versionStatus`, `verified` | `knowledge_doc.status`, `knowledge_version.status`, `knowledge_doc.verified`; `ABSENT` is no row yet, `GONE` a deleted row |
| `object` | what MinIO holds at `src_path`, by what `verifyObject` can tell apart |
| `results` | documents with their `knowledge_clean` and `knowledge_structured` rows (unique per document and version) |
| `task` | `embed_task.status` per document and `chunk_seq` |
| `searchIdx`, `milvus` | `knowledge_search_idx` rows; number of Milvus rows per chunk |
| `fileIngest`, `embedTopic` | the topics, as written; consumers hold offsets |
| `locks` | rows of `knowledge_doc` and `knowledge_version` an open transaction has updated |
| `reqPc`, `reqDoc`, `reqSeen` | a request thread: its handler, its document, the status of the entity in its persistence context |
| `wkPc`, `wkOffset`, `wkChunks`, `wkNext`, `fiPosition`, `fiCommitted` | the consumer thread of kb-doc-processor: place in `process_message`, message in hand, number of chunks, next chunk to publish, position and committed offset |
| `vecPc`, `batchStart`, `batchEnd`, `etCommitted` | the listener thread: place in `consume`, batch in hand, acknowledged offset |

### The ingestion flow: steps and code

A handler is one action unless another thread, a message or a crash can come
between its effects; then it is split there.

* `commit` is read (`CommitRead`) and write (`CommitWrite`); two threads may
  read the same draft, the unique index of `knowledge_version` makes the second
  insert fail and roll back.
* `ingest` is read (`IngestRead`), UPDATE and send (`IngestSend`), commit of
  the transaction (`IngestCommit`). The send is visible to the consumer before
  the status is; the row is locked in between, so a fast consumer waits.
* `retryDoc` is guard and bulk UPDATE (`RetryBegin`), then the nested `ingest`
  in the same transaction (`RetryRefused`), which sees the cached entity.
* `deleteDoc` removes the object (`DeleteObject`) and, at the flush at the end
  of the transaction, the row (`DeleteRow`).
* `process_message` is one action per stage transaction (`StartParsing`,
  `ParseAndClean`, `ChunkText`, `EmbedChunks`), `SaveResults`, one
  `PublishChunk` per message, `FinishPublishing`. An exception (`SaveRefused`,
  `ObjectMissing`, `StageFails`) leads to `MarkFailed` or, when that
  transaction fails, `MarkFails`; then the consumer commits its offset after a
  permanent error and not after a transient one. `CommitOffset` commits the
  offset of the message in hand, so it also passes over earlier transient ones.
* `consume` is `PollBatch`, `UpsertMilvus` or `MilvusFails`, then the
  statements with the acknowledgement (`AckBatch`, `AckFailed`), then the
  commit (`CommitDone`, `CommitFailed`). `TxAborts` is a PostgreSQL error: all
  is rolled back and the batch is acknowledged all the same.
* `RequestDies`, `WorkerCrash`, `VectorCrash` stop a process or connection:
  open transactions roll back, consumers restart at the committed offset.

Each fault has a kind (`FaultKind`) and a budget (`MaxFault`); the theorems hold
for any budget, a run chooses the kinds it is about.

Both topics are keyed by tenant and one tenant is modelled, so each topic is
one partition in order. Every document has version 1, the only one the code
creates.

What is simplified in these modules, on purpose:

* `embed_task` rows are not locked, only document and version rows. The
  deadlock the opposite lock orders of listener and document processor allow
  appears by its outcome, the fault `sqlError`.
* `verifyUpload` reads the object and marks the row in one step; ACL rows of
  `commit` are left out; null messages, which the listener's filter drops, are
  left out; `searchIndexWriteEnabled` has its default, true.
* A produced message is written at once, lost or written twice; broker
  time-outs are not timed.
* The contents of the stages (parsing, cleaning, metadata, vectors) are a
  number of chunks between `MinChunks` and `MaxChunks`.

### The other modules: state and code

A variable has the name of the state it stands for (`sessionId`, `sendingRef`
as `lock`, `retryingDocIds`, `boardItems`), and the comment next to its
declaration says what it is when the name does not. Common to all of them:

* A handler of a page runs without interruption up to its next `await`, so an
  action is a handler up to there, and the rest of it is the action that takes
  the answer. A call under way is an element of a set of slots (`Send`, `Load`,
  `Lookup`, `Drop`, ...): it is made, it is read or done by the server, and it
  is answered, and other handlers come in between in any order. Most
  slots may be used again once they are free, so the number of calls under way
  at once is bounded and not the number of calls; a question, a request or a
  load of `RagChat` and `SessionStore` is made once.
* A copy of state that React's closures keep (the list a function of a hook was
  rendered with, the document a callback was created for) is a field of the
  call that has it.
* What a call of the server decides (the column stored, the status of a
  document, whether it fails) is a choice of the server's action. Every call
  may fail, unless the module says otherwise.
* Texts, names, sizes and numbers are what the code can tell apart: the text of
  the input area is empty, plain, the beginning of a command or a command; a
  file is a model value and stands for what is inferred from its name.
* In `SessionStore` and `KnowledgeSpaces` a request is split where another
  request's statements, or a call of Redis, come between two of its own.

* The pages of documents see the ingestion flow through `DocumentService`. It is
  a looser service than `IngestionPipeline`, not an easier one: a committed
  document may become PROCESSING (ingest), any of the four stages or FAILED (the
  document processor, whose `_update_document_stage` looks at no status), READY
  or FAILED (the listener), at any time and from any status, READY and FAILED
  included, since a message may come again; and nothing makes it settle. `Stage`
  is PARSING, CHUNKING, EMBEDDING and VECTOR_PENDING, which `getStatus` and
  `listDocs` return as they are. `Polled` (PENDING, PROCESSING) is what the list
  and the dialog of a document follow; the page of a document, the upload page
  and the quick-ingest dialog follow every status that is not READY or FAILED.
  No page names one of the stages, so a run takes one of them for all.
* `FileCompare` takes the library's difference for changes that lead from the
  one sequence to the other. What is compared is a sequence of lines, or, by
  words, the words of all lines without the blanks between them (`Units`), as
  `diffWords` does.

A **history variable** records an event after which a page is known to show
something else (`crossed`, `spoiled`, `mixed`, `late`, `doubt`, ...). Each is
set in the action where the code does not look, and in no other, and the
property it occurs in is required in all executions without that event. So each
of them names one weakness of the code, listed in section 6, and the properties
say that there are no others.

### Second forms of definitions

Many modules hold a second form of a definition next to it, said in its comment
to be a plausible bug (`NoUniqueVersion`, `AckBeforeMilvus`, `StreamKeepsLock`,
`KeepsFailedMove`, `OwnDocs`, ...). No specification uses them. With one of
them in place of the real definition TLC finds the property it is paired with
in PROJECT.json violated, which shows that the property can tell the code from
a broken version of it.

## 3. Runs

### The ingestion flow

All runs use `MCPipeline`. Bounds: `Doc`, `Request`, `MaxChunks`, `BatchSize`
and the fault budgets (each kind strikes at most once). Users are not bounded
otherwise: they may upload, ingest, retry and delete at any time. The topics
grow only by `ingest`, redelivery and `publishTwice`, so the state is finite
without a state constraint. Deadlock is checked in all of them.

| Run | Instance | Shows |
|---|---|---|
| `two_documents` | 2 documents, 1..2 chunks, batches of 2, uploads of the right and the wrong size, the listener restarts | `ReadyAgrees` when batches mix documents and come again |
| `double_submission` | 1 document, 2 request threads, faults of requests, stages, MinIO and the document processor | `InFlightIsCarried`, `QueuedIsStored`, `CommittedOnce` under double commit, ingest, retry, delete |
| `restarts` | 1 document, 0..2 chunks, every process restarts, Milvus fails | `TypeOK`, `DoneMeansIndexed`, `ReadyMeansEmbedded`, `DoneIsStable` |
| `ledger` | 2 documents, one in a space without smart parsing, every fault but a dying request, a restart of the document processor and a duplicate | `ImplementsLedger`, the refinement |
| `settled_faults` | 1 document, 2 chunks, batches of 2, a stage error, a restart, a chunk published twice, a Milvus failure, fairness | `EventuallySettled`, `AckedIsSettled` |

Why these bounds are enough for what they are about: two documents are needed
for a batch that mixes documents, and the code treats the first one apart from
the others only; two request threads are what a check-then-act race needs; two
chunks give a document that is partly done, a batch of two gives both a batch
inside a document and one across documents; a fault of each kind of a run once,
in any place, covers each pair of different faults among them. Longer sequences
of the same fault are covered by the theorems, for the properties that have one.

The two request threads of `double_submission` and the two documents of
`two_documents` are symmetric: they differ by name only, and neither run checks
liveness.

Conditions that the passing runs state, and that are real conditions of the
code: `InFlightIsCarried` needs sends and failure marks that arrive;
`DoneIsStable` and `ReadyAgrees` need a producer that writes a chunk once;
`EventuallySettled` needs documents with at least one chunk and batches that do
not mix documents; `AckedIsSettled` needs a listener whose transactions commit;
the refinement needs one request thread and no redelivered `file-ingest`
message.

### The portal, the sessions and the spaces

A page shows one thing at a time and its parts share no state, so each initial
state of a run chooses the part that is at work, and the others rest in the
state of a page that has just been opened. Their state spaces are added and not
multiplied, and one run covers many pages.

| Run | Parts | Instance | Shows |
|---|---|---|---|
| `chat` | streams, conversation, answers, input area, files, command bar, sessions | 3 events cut into all chunks; 2 sessions, 2 questions, 1 load; 2 answers with 2 feedback calls; 2 documents, 2 polls; 2 requests beside a deletion, 1 failing Redis call | `EventsArriveWhole`, `ImplementsFeed`, `LockMeansWork`, `ScreenMatchesSession`, `ShownFeedbackWasStored`, `InputAreaIsTrue`, `ReadyPhaseIsTrue`, `BarShowsItsCommand`, `HistoryIsTrue` |
| `documents` | upload page, its form, list, views, outline, comparison, permissions | 2 documents that the service moves forwards and back, 2 calls, 2 files and 2 spaces; outlines with skipped levels and failing headings; 3 texts, of which two differ in blanks only; 3 spaces of which one is inner | `UploadIsTold`, `RequestIsOfTheChoice`, `ListIsTrue`, `ViewsFollowTheirDocument`, `ImportMakesTheOutline`, `SavedMatrixIsStored`, `ComparisonIsOfTheFiles` |
| `consoles` | skills, experts, models, queries, traces, board, evaluation, forms, tree, access lists | 2 items, of which one is shipped, in 5 collections; 2 tabs; 2 filters and 3 fetches; 2 traces; 2 cards in 3 columns with 2 moves; 2 generations, 2 runs; a tree of depth 3 with a document; 2 updates of one access list | `ReviewIsKept`, `AgentsAreGoverned`, `ModelPanelIsTrue`, `MonitorAnswers`, `CardIsWhereStored`, `EvaluationIsShown`, `FormsWriteTheirFields`, `SpacesAreWhole` |
| `progress` | conversation, files, upload, list, views, outline, evaluation, with fairness | as above, one generation, one run | `PagesComeToRest`, `WorkIsFollowed` |

The first three also check one type invariant each (`ChatPagesTypeOK`,
`DocumentPagesTypeOK`, `ConsolePagesTypeOK`), which joins those of the modules.

The bounds are chosen for the hazards: two of everything that can be confused
(sessions, documents, files, traces, tabs, cards) and two calls under way that
can overtake each other; most slots are used again, so executions are as long
as the user likes. `PollLimit` (40 polls of the quick-ingest
dialog in the code), `MaxTurns` (the turns Redis keeps) and `MaxDepth` (10 levels
of the tree) are limits of the code, made small so that they are reached. The list of `documents` begins with every mixture of drafts, waiting
and failed documents, its views with two documents in work. Its state space is
the largest: while both documents are in the list, one of its calls is under way
at a time, and calls cross when one document has been deleted (`CallsCross`,
`OneCall` in `MCDocuments`). `DocumentList` itself has no such bound, and
**ListStaysTrue** is proved of it. Bounds
of the model are `MaxEvents`, `RedisFaults`, `MaxLeft` (writes that outlive
their page), and the numbers of calls, reads, picks and fetches under way at
once. `Questions` and
`Names` are symmetries of model values that differ by name only; neither run
checks liveness.

Deadlock is not checked in these: a page may rest, and a user need not go on.

### Fairness

`FairSpec` of `IngestionPipeline`: strong fairness of each begun request, of the
worker and of the listener. It is justified by their being running threads with
loops that poll for ever, and strong rather than weak because a statement that
waits for a row lock is served by PostgreSQL in the order of arrival, so it
cannot be passed over for ever by others that take the lock in between.

`FairSpec` of `MCProgress`: each call that is made returns or throws (weak), a
pipeline of the evaluation goes on or ends, an interval that is set ticks, the
server reads what is polled again and again, and its answers arrive (strong,
because a poll is taken away and begun anew in between). The strong conditions
are joined over the pages, of which only one acts, and over the documents, so
that they say no more than that some poll of the open page goes on. Browsers do
run the intervals of an open page and calls of `fetch` end with an answer or an
error.

Nothing is asked of the service behind a document: it may leave a document
where it is for ever (`AllDoneIsReady`, a document without chunks, a lost send)
and may begin again with a finished one. So the properties about pages that
follow a document have the form `[]<>~(shown at work /\ settled)`: a page does
not go on for ever showing work, or polling, while the document is settled. What
they do not say is that the page ends its work at all; section 6 says where it
does not.

Users start nothing by obligation, and no fault has to happen, or to stop other
than by its budget.

### Disagreements between the code and what the repository says of it

Each of these runs checks one statement of a document, a comment or a message
and ends in a counterexample; PROJECT.json quotes the line.

| Run | Statement | What the code does |
|---|---|---|
| `retry` | a FAILED document can be queued again by retry | the nested `ingest` sees the entity read before the bulk UPDATE and throws |
| `batch_mix` | all tasks DONE makes a version READY | only the first document of a batch is looked at |
| `space_create` | the fields of the three steps are the space that is created | the description and the switch of smart parsing are not sent |

## 4. Theorems

TLAPS checks them for every value of the constants that satisfies the
assumptions the modules state on them (the numbers of chunks, of a batch, of
fetches and of polls positive, `MinChunks` at most `MaxChunks`, fault budgets
natural numbers, the names of "none" no members of the sets they are none of).
Conditions beyond these are in the theorem, under a name.

### Ingestion flow (`IngestionPipelineProofs`, `EmbeddingProofs`)

* **TypeCorrect**: `Spec => []TypeOK`. `TypeOK` holds more than types: the
  offsets of both consumers are ordered and inside their topics, a message in
  hand lies between committed offset and position. It is inductive as it
  stands. The proof goes service by service (`IngestServiceType`,
  `DocProcessorType`, `VectorServiceType`), one step per action.
* **DoneIsIndexed**: a DONE chunk is in the full-text index and in Milvus,
  through crashes, aborted transactions and redeliveries. That a batch marked
  DONE is in Milvus rests on the upsert two steps before, so `IndexInv` adds
  that in `upserted` and `done` each message of the batch has a Milvus row; it
  needs that topics only grow (`Growth`, `TopicsGrow`), so that the batch in
  hand stays the batch that was upserted.
* **NothingForgotten**, if `NothingLost` (the budgets of `sendLost` and
  `markError` are 0): `InFlightIsCarried`. `CarriedInv` adds that a document
  whose message is sent and whose status is about to become PROCESSING is
  carried, too (`SentIsCarried`), because its row is locked and the worker must
  wait for it after taking the message; that a request works on a document that
  has been registered (`RequestHasDoc`); and that after the last stage the
  worker's document is in no working status, unless another message carries it
  (`StagesAreOver`). Redelivery, double ingest and deletion are inside the
  theorem.
* **CommitsHappenOnce** and **QueuedRowsExist**, without a condition:
  `CommittedOnce`, `QueuedIsStored`. `VersionInv` says that whoever is about to queue a document, and each message
  that names it, comes after its commit; `TaskInv` that rows are saved with the
  results, before the first message is produced.
* **AcknowledgedIsSettled**, if `ListenerCommits` (no `sqlError`, no
  `vectorCrash`): `AckedIsSettled`. `AckedInv` strengthens it to the messages
  whose transaction is over (`OffsetInv` orders the offsets).
* **DoneStaysDone**, **ReadyIsEmbedded**, **ReadyInBothTables**, if `SentOnce`
  (no chunk published twice): `DoneIsStable`, `ReadyMeansEmbedded`,
  `ReadyAgrees`. `OnceInv` says that a chunk has at most one message, because a
  redelivered document is refused when its results are saved a second time;
  `DoneInv` that the message of a DONE chunk lies behind the batch in hand, so
  that no later batch touches it. `EmbeddingInv` joins the parts, `ReadyInv` adds
  what a READY document is.

### Refinement of the flow (`LedgerProofs`)

* **FlowImplementsLedger**, if `MovesForward` (one request thread, and no
  `requestDies`, `workerCrash` or `publishTwice`, as in the run `ledger`): `ImplementsLedger`. Every step of the three services is a step of `DocLedger` or leaves the
  status of every document alone. The proof goes service by service; the step
  of a document that fails after its results were saved is the hard one, since
  the ledger never takes FAILED back. `LedgerInv` says for it that a document
  is queued once (`QueueInv`), what its status is while its message waits and
  in each stage of the worker (`SentInv`, `WaitingInv`, `HandInv`,
  `SavedInv`), and that a failed document with results has a chunk whose
  message cannot come any more (`FailedInv`), so that the listener never finds
  all its chunks DONE.

### Sessions (`SessionProofs`)

* **HistoryStaysTrue**: `HistoryIsTrue`, for any number of questions, of turns
  an entry keeps and of failing calls of Redis. `SessionTypes` says of each row
  which turn it belongs to; `SessionOrder` that a turn is kept after its append
  is over and that a deletion has waited for the appends; `OneUser`, without
  `doubt`, that the entry has one user at a time, and `LastRows` that the rows of
  an append that is alone are the last ones. From these, `EntryInv` (what a
  request read of the entry still agrees with the rows), `PairsInv` (no question
  has the answer of another one) and `TitleInv` (who is about to give the title).
* **RebuildsTheLastTurn**: of the rows of any history, `rebuildTurns` makes one
  turn more when a question and its answer are appended.

### Question page (`ChatProofs`)

* **SseTypes**, **EventsAreWhole**, **ReaderImplementsFeed**, for streams of
  any length and any cuts: `EventsArriveWhole` and the refinement of
  `EventFeed`. `SseInv` says how `currentEvent`, `currentData` and the lines of
  the chunk hang together in the middle of an event (`LinesOfOneEvent`), that
  what was delivered had been parsed, and that each kind of event has its branch.
* **LockDoesItsWork**: `LockMeansWork`, from `LockIInv` (`PcOK`, `LockInv`: at
  most one question is at work while there has been no `/summary`, and the lock
  is set while it is).
* **ScreenIsOfTheSession**: `ScreenMatchesSession`, from `ScreenInv`: turns are
  of the session they were asked in (`HomeInv`), a load that has read holds
  turns of its session (`LoadInv`), and what is on the screen is of the active
  one or in one of the exceptions (`OfSession`, `OpenIsFed`).
* **FeedbackIsStored**: `ShownFeedbackWasStored`. `CallsInv` ties a call to its
  answer and kind, `ServedInv` says that what a served call carries is stored,
  `StoredInv` that a negative mark is never shown early. The property itself says
  that a like may be: it is then on its way, and the failure of its call takes it
  back.
* **InputAreaStaysTrue**: `InputAreaIsTrue`, with `EarlyInv` (an unused skill
  beside an open question was chosen early) and `HeldInv` (the page holds the
  recognition that runs).
* **ReadyIsTrue**: `ReadyPhaseIsTrue`. `SubmissionInv`: one submission at most is
  under way, it is the last one, and the dialog does not say ready. The service
  may take a READY document back; the dialog was right when it read it
  (`takenBack`).
* **BarStaysTrue**: `BarShowsItsCommand`. `LineInv`: the line of a submission
  that nothing has overtaken is still in the bar; `ResultInv`: a result that is
  kept, shown or not, is that of the line.
* **ChatPagesStayTyped**, **ChatPagesStayTrue**: `ChatPagesTypeOK`, the eight
  properties and the refinement above, of the composition in `MCChat`. The parts
  share no state and rest while another one is at work, so a behaviour of the
  composition is one of each part (`PartsOfTheChat`).

### Pages of documents (`DocumentsProofs`)

* **UploadStaysTold**: `UploadIsTold`. `RestInv`: no step after the parsing is
  finished before the page is told READY, neither on the page nor in the shared
  constant; `WatchedInv`: who is watched is registered.
* **RequestStaysOfTheChoice**: `RequestIsOfTheChoice`, with `ConfigInv` and
  `ChosenInv` on where a configuration, metadata and tags come from.
* **ListStaysTrue**: `ListIsTrue`. `AnswersInv`: an answer on its way is as true
  as what is shown; `ShownInv` joins both with the retries. The service moves a
  document at any time and to any status it has for it; `relapsed` holds what is
  shown, or on its way, of a settled status the service has left since, until
  the last such answer has been taken (`StaleKeeps`).
* **ViewsStayTheirs**: `ViewsFollowTheirDocument`. `OpenedInv`: what is older than
  the opening of a view is in `late`; `FollowInv`: a dialog without an interval
  waits for no answer of its own opening, and shows no step at work. A dialog
  opened at a stage of the processor is inside the theorem: it shows none.
* **ImportStaysTrue**: `ImportMakesTheOutline`, for outlines of any length.
  `InOrder` says that an import has created, been refused or passed over each
  heading before the one it is at; `SpacesHang` and `CreatedAreThere` what that
  means on the server; `AloneUnlessCrossed` that imports do not meet. It rests on
  **ParentIsNearest**, the stack of `parseMarkdownOutline` against the
  definition "nearest heading before, of a lower level": `StackHolds` says that a
  heading that has left the stack made room for one that is not deeper.
* **ComparisonStaysTrue**: `ComparisonIsOfTheFiles`. `CompareInv` adds the reads
  under way. It rests on **DiffShowsTheTexts**: whatever changes lead from one
  sequence to the other (`Leads`, of which the differences of the model are a
  case, `DiffLeads`), both columns have the same length and each shows all of
  its side, and no change means equal sequences; and on
  **ColumnsShowTheChanges**. Both are for sequences of any length.
* **SavedStaysStored**: `SavedMatrixIsStored`. `SavingInv`: what a save has
  written so far, and what is left to write, is the matrix of the page, unless
  something else touched it.
* **DocumentPagesStayTyped**, **DocumentPagesStayTrue**: `DocumentPagesTypeOK`
  and the seven properties above, of the composition in `MCDocuments`. Three
  pages share the statuses of the service, so a step of one is no step of the
  others: `PageInv` says that the one at work keeps its invariant and that the
  others rest as they were opened.

### Administration (`ConsoleProofs`)

* **ReviewStaysKept**: `ReviewIsKept`. `ItemsInv`: an identifier names its item;
  `CopiesInv`: dialog and drawer hold copies of items that are or were there.
* **AgentsStayGoverned**: `AgentsAreGoverned` for any number of tabs.
  `RejectionInv` says that what a tab asks to reject waits for review in its own
  list, so that the dialog never asks about a shipped agent; `ShippedInv` that the
  shipped ones count as approved and are not created.
* **CardsStandWhereStored**: `CardIsWhereStored` for any cards, columns and moves.
  `MovingInv` says that a card that is in no doubt has one move at most, with the
  board where the move goes and the server at one of its ends; `FetchInv` that a
  fetch knows the cards whose column may change while it is under way; `DropsInv`
  and `IdleInv` what a move is.
* **PanelStaysTrue**: `ModelPanelIsTrue`. `OneOwnFlag` of the list and of the
  list an import was begun with; `TestsInv`: the tests under way were begun in
  the sheet that is open.
* **MonitorStaysTrue**: `MonitorAnswers`, of the composition in `MCConsoles`. Of
  the tables, `LastInv`: while a fetch is under way that no answer overtook, the
  last one is such a fetch and asks what the controls ask. Of the traces,
  `RowInv`, `NewKeysInv` and `DrawerInv`: what the fetches under way will unfold
  and show.
* **EvaluationStaysTrue**: `EvaluationIsShown`. `GenerationInv`: GENERATING has a
  pipeline, unless one has ended without a word (`abandoned`), with the service
  or because its failure was not written; `ToldInv`: a page that heard the
  end listens to a generation that is done; `EndedInv`: a generation that ended
  left COMPLETED, which only another one changed; `FollowedInv`: as long as no
  two runs were followed at once, at most one is.
* **FormsStayTheirs**: `FormsWriteTheirFields`. `WritesInv`: what a write
  carries is what its form held; `BlockedInv`: a button is blocked by the one
  write of its page.
* **SpaceTypes**, **SpacesStayWhole**: `SpacesAreWhole` for every tree, number of
  documents and of requests. `TreeInv` says that paths are those of the parents
  and that a space counted empty is empty but for what came later (`PathInv`,
  `EmptyInv`, `ParentInv`, `HomeInv`); `AclInv` that an update alone in its space
  writes what the space then has (`AloneInv`, `AgreeInv`).
* **ConsolePagesStayTyped**, **ConsolePagesStayTrue**: `ConsolePagesTypeOK` and
  the eight properties above, of the composition in `MCConsoles`
  (`PartsOfTheConsoles`).

### Induction over data (`InductionLemmas`)

The induction theorems of the library take an operator as a parameter, which the
provers cannot instantiate. `NatSetInduction` says the same of a set of numbers
that is closed under the successor, from the well-foundedness of `<`; a proof
puts the numbers of which its claim holds in a set. With it `FlattenIs`,
`FlattenConcat` and `FlattenSums` give `FlattenSeq` of the community modules the
equations of a fold, and the recursive functions of `SessionStore`
(`RebuildTurns`), `OutlineImport` (stacks, ancestors) and `FileCompare` (rows and
columns of a difference) are proved to compute what they should for every input.
The models write them as recursive functions and folds for that reason; no
module has a RECURSIVE operator.

### Only model-checked

Every invariant and action property of a passing run, and both refinements, are
theorems. `EventuallySettled`, `PagesComeToRest` and `WorkIsFollowed` speak of
what must happen under fairness, which with ENABLED is out of the prover's
reach; TLC checks them.

## 5. How the parts were chosen

Modelled is what has state that more than one actor changes: threads,
processes, tabs, or handlers and answers of one page. Of a page, the markup is
left out and the handlers, effects and timers are in. Properties are about the
hazards of PROJECT.json: one for each page or service that joins what its users
rely on, rather than one for each assignment.

## 6. Known behaviours

The models show the following. They are no runs of their own, because the
repository does not say otherwise, or because a history variable already states
the exception.

Ingestion flow:

* A PostgreSQL error of the listener is caught, rolled back and acknowledged
  all the same; the batch is lost. A crash between the acknowledgement and the
  commit loses it, too, although the `embed_task` table is said to guard against
  lost messages (`kb-infra/init-db/updates/006_supplement_tables.sql:85`).
  `AckedIsSettled` fails with the faults `sqlError` and `vectorCrash`.
* The key of a Milvus row is the time, so a redelivered batch adds rows.
* `deleteDoc` removes the object first; the row goes at the flush. A request
  that dies in between leaves a row without its object.
* A redelivered message runs the stages of a settled document again and fails
  it, and two concurrent `ingest` requests both pass the guard.
* A document without chunks sends no message and stays VECTOR_PENDING.
* `verifyObject` compares sizes; the technical solution
  (`docs/architecture/enterprise-ai-kb-technical-solution.md:115`) has it
  compare SHA256 as well.

Spaces (`KnowledgeSpaces`):

* The documents of a subtree are counted before it is deleted: what is
  registered or created meanwhile stays behind (`late`). `initUpload` does not
  look the space up at all, and `getSpaceTree` leaves out a space whose parent
  is gone.
* `updateSpaceAcl` replaces the lists of the documents by what it read before:
  two updates of one space at once may leave the union in `space_acl` and the
  roles of the later one in the documents (`crossed`).
* With no ROLE or DEPT entry the cascade deletes all `doc_acl` rows of the
  documents, those of users included, though its comment speaks of cascaded
  ones only. With such entries, `saveAll` of rows with identity keys inserts
  before the queued deletes run and meets the unique constraint whenever a
  document already has one of them (`SpaceAclServiceImpl.java:116`).
* `space_acl` rows outlive their space, `doc_acl` rows their document.

Sessions (`SessionStore`):

* Messages of two appends at once may interleave in the table; `rebuildTurns`
  then pairs a question with another's answer and drops one (`interleaved`).
* An append that rolls back after it wrote Redis leaves a turn in the cache
  that the database never has, and a session that never gets its title
  (`phantom`). A cache miss that races a deletion puts the deleted session back
  until it expires (`doubt`).

Question page (`RagChat`, `ChatComposer`, `CommandBar`, `DocumentViews`):

* The lock stays after a quick-ingest command, after a session that could not
  be created, and after a stream that ends without an event (`leaked`). A
  response of a session that is no longer active, a failed load, and a session
  created while another became active put foreign turns on the screen
  (`spoiled`). `/summary` does not look at the lock.
* The command bar cannot cancel a submission, so the result of an earlier line
  may come under a later one (`lateResult`); a line with the word for "skill"
  and no name throws (`CommandBar.tsx:220`).
* In the dialog of a document the alert and the result card come from the row
  the dialog was opened with, and the parsing step keeps its spinner after
  FAILED.

Documents and spaces of the portal (`UploadPage`, `DocumentList`, `SpaceForms`,
`SpacePermissions`, `FileCompare`):

* A step that was assigned to without a copy keeps its status in the module's
  constant, so the next upload of the visit begins with it
  (`upload/page.tsx`); the card that announces READY is drawn from it.
* The list polls rows that read PENDING or PROCESSING (`documents/list/page.tsx:108`)
  and a dialog starts for these two (`PipelineDetailModal.tsx:226`, whose comment
  says "non-terminal"). A row whose poll reads PARSING, CHUNKING, EMBEDDING or
  VECTOR_PENDING therefore stays at it after the document is READY, until the
  list is fetched again; a dialog opened at a stage is never polled and draws no
  step at work.
* The upload page, the page of a document and the dialog poll without a limit: of
  a document that never settles they are told for ever that it goes on.
* A page that shows READY or FAILED polls no more, and the service may have begun
  again with the document since (`relapsed`, `takenBack`).
* A row of the list whose retry crosses an older answer is polled no more
  (`crossed`).
* A cancelled edit of a space stays in the form and is sent by a later one;
  `updateSpace` sends every field, so a stale form overwrites another
  administrator's change. After a creation the button is free while the page is
  still navigating, and a second click creates a second space; an answer that
  is late takes the tab away from a newer page.
* The matrix of permissions never writes the inner spaces of the tree.
* An empty file never shows a comparison (`misread` covers reads that end late).
* By words, blanks are left out: of files that differ in blanks only the page
  says "内容相同" and "两个文件内容完全相同" (`file-compare/page.tsx:377`, `:389`).

Administration (`SkillStore`, `AgentStore`, `ModelStore`, `BadcaseBoard`,
`Evaluation`):

* Functions of a collection write the list they were rendered with: to submit
  an item that was edited in the same handler loses the edit, and a tab that
  opened earlier overwrites what another has done (`overwritten`).
* The detail dialog works on the copy it was opened with and can pass over a
  review (`bypassed`); a copy of an enabled skill is offered in the chat while it
  waits for review (`copies`).
* Two moves of a card, or a fetch during a move, may leave it in another column
  than the stored one (`mixed`).
* The FAILED of a generation is written in a `try` whose exceptions are ignored,
  and `Map.of` throws for an exception without a message
  (`EvalGenerationPipeline.java:121`); an `Error` is not caught at all. Then the data
  set stays GENERATING, as it does when the service stops (`abandoned`).
* Nothing keeps two generations of one data set apart, and a run whose emitter
  has completed turns from COMPLETED into FAILED (`EvalController.java:77`).

## 7. Not modelled, and why

* **public-api**: six calls of ingest-service in a row behind an idempotency
  store in memory. Its calls are those of `IngestService`; the store is looked up
  before and written after them (`FileIngestServiceImpl.java:55`), so two
  requests with one key make two documents. That is said here and not modelled.
* **Reconcile job**: it reads the two stores one after the other and publishes
  requests that no service consumes (`ReconcileJob.java:127`); it changes nothing
  the flow depends on.
* **Question answering, retrieval, fusion, rerank, llm-gateway, FAQ, caches**:
  functions of texts, vectors and floating-point scores, without state that two
  actors share. What a stored answer is, is a choice in `RagChat` and
  `SessionStore`.
* **Parsers, cleaners, chunkers, metadata**: text processing; the flow knows
  them as a number of chunks and a failing stage.
* **Locks of `embed_task` rows** and the deadlock of listener and document
  processor: it appears by its outcome, the fault `sqlError`.
* **Replacement of a verified object** through the presigned URL.
* **Statistics, traces, alerts, listings, home page, layout, login, contracts,
  deployment**: read-only, append-only, fixed, or configuration.

The notes of PROJECT.json say the same of each component.

## 8. Running

    tlc -workers 2 -config MCRestarts.cfg MCPipeline
    tlc -workers 2 -config MCConsoles.cfg MCConsoles
    tlapm ConsoleProofs.tla

The passing runs take between half a minute and three or four minutes with two
workers (`restarts` has 1.8 million distinct states, `documents` 1.2 million,
`double_submission` and `chat` 1.1 million each, `consoles` 1.0 million, `ledger`
0.6 million, the others fewer). A proof module takes between
half a minute and five minutes from nothing.
