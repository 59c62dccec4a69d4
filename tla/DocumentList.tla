----------------------------- MODULE DocumentList -----------------------------
(***************************************************************************)
(* The list of documents: the fetches, the interval that polls the         *)
(* documents shown in progress, retries and deletions, one by one and in   *)
(* batches.  Calls are answered in any order.  Which space is listed is    *)
(* left to PageQueries; a selection of rows outlives the rows, so a batch  *)
(* may be any set of documents.                                            *)
(***************************************************************************)
EXTENDS DocumentService, Naturals, FiniteSets

CONSTANT Slot      \* bound on the calls under way

VARIABLES
    data,           \* the status shown, "absent" when not in the list
    retryingDocIds,
    call,
    crossed,        \* history: the documents whose retry crossed an older answer
    relapsed        \* history: documents the service has begun with again, and
                    \* the settled status they had, while it is shown or on its way

listPageVars == <<data, retryingDocIds, call, crossed, relapsed>>
listVars     == <<status, listPageVars>>

OpPerDoc   == {"poll", "retry", "batchRetry", "delete"}
Retry      == {"retry", "batchRetry"}

NoCall    == [op |-> "none", answer |-> [d \in Doc |-> "no"]]
FetchCall == [op |-> "list", answer |-> [d \in Doc |-> "sent"]]

ListTypeOK ==
    /\ status \in [Doc -> DocStatus \union {"gone"}]
    /\ data \in [Doc -> DocStatus \union {"absent"}]
    /\ retryingDocIds \subseteq Doc /\ crossed \subseteq Doc
    /\ relapsed \subseteq Doc \X Settled
    /\ call \in [Slot -> [op : {"none", "list"} \union OpPerDoc,
                          answer : [Doc -> DocStatus \union
                                           {"no", "sent", "ok", "failed"}]]]

ListEmpty ==
    /\ data = [d \in Doc |-> "absent"]
    /\ retryingDocIds = {} /\ crossed = {} /\ relapsed = {}

\* The page is opened: the first fetch is on its way.
ListFresh ==
    /\ ListEmpty
    /\ \E c \in Slot : call = [e \in Slot |-> IF e = c THEN FetchCall ELSE NoCall]

ListInit == ListFresh /\ status \in [Doc -> {"DRAFT", "PENDING", "FAILED"}]

Listed == {d \in Doc : data[d] # "absent"}

Start(c, op, docs) ==
    /\ call[c].op = "none"
    /\ call' = [call EXCEPT ![c] =
                  [op |-> op, answer |-> [d \in Doc |-> IF d \in docs
                                                       THEN "sent" ELSE "no"]]]

-----------------------------------------------------------------------------
(* What the user does                                                      *)

FetchDocs(c) ==
    /\ Start(c, "list", Doc)
    /\ UNCHANGED <<status, data, retryingDocIds, crossed, relapsed>>

\* The button of the header.
RefreshList(c) == FetchDocs(c)

\* Another space is chosen, and the effect fetches its documents.
ShowSpace(c) == FetchDocs(c)

\* What a row, the menu of a card and the bar of a selection offer: the button
\* of a row is blocked while it loads, the menu is not.
RowOffers(d) ==
    {op \in {"retry", "delete"} :
        op = "retry" => data[d] = "FAILED" /\ d \notin retryingDocIds}

MenuOffers(d) ==
    {"delete"} \union (IF data[d] = "FAILED" THEN {"retry"} ELSE {})

Offered(d) == IF d \in Listed THEN RowOffers(d) \union MenuOffers(d) ELSE {}

BarIsShown(selected) == selected # {}

HandleRetry(c, d) ==
    /\ "retry" \in Offered(d)
    /\ Start(c, "retry", {d})
    /\ retryingDocIds' = retryingDocIds \union {d}
    /\ UNCHANGED <<status, data, crossed, relapsed>>

BatchRetry(c, selected) ==
    LET failed == {d \in selected : data[d] = "FAILED"} IN
    /\ BarIsShown(selected) /\ failed # {}
    /\ Start(c, "batchRetry", failed)
    /\ retryingDocIds' = retryingDocIds \union failed
    /\ UNCHANGED <<status, data, crossed, relapsed>>

HandleDelete(c, d) ==
    /\ "delete" \in Offered(d) /\ Start(c, "delete", {d})
    /\ UNCHANGED <<status, data, retryingDocIds, crossed, relapsed>>

\* The selected documents that are still in the list.
HandleBatchDelete(c, selected) ==
    /\ BarIsShown(selected)
    /\ Start(c, "delete", selected \intersect Listed)
    /\ UNCHANGED <<status, data, retryingDocIds, crossed, relapsed>>

\* The interval exists while a document of the list is PENDING or PROCESSING,
\* and is made anew whenever the list changes: a row that has read a stage of
\* the processor is not polled any more.
PollTick(c) ==
    LET inProgressDocs == {d \in Doc : data[d] \in Polled} IN
    /\ inProgressDocs # {}
    /\ Start(c, "poll", inProgressDocs)
    /\ UNCHANGED <<status, data, retryingDocIds, crossed, relapsed>>

-----------------------------------------------------------------------------
(* The server                                                              *)

ServeList(c) ==
    /\ call[c].op = "list" /\ \E d \in Doc : call[c].answer[d] = "sent"
    /\ call' = [call EXCEPT ![c].answer =
                  [d \in Doc |-> IF status[d] = "gone" THEN "no" ELSE status[d]]]
    /\ UNCHANGED <<status, data, retryingDocIds, crossed, relapsed>>

\* Each document of a call is answered on its own; an answer may be lost.
Reply(c, d, answer) ==
    call' = [call EXCEPT ![c].answer[d] = answer]

\* The status of a document that has been deleted.
ReadsDeleted(c, d) ==
    /\ call[c].op = "poll" /\ call[c].answer[d] = "sent"
    /\ Reply(c, d, status[d])
    /\ UNCHANGED <<status, data, retryingDocIds, crossed, relapsed>>

ReadStatus(c, d) ==
    /\ call[c].op = "poll" /\ call[c].answer[d] = "sent" /\ status[d] # "gone"
    /\ Reply(c, d, status[d])
    /\ UNCHANGED <<status, data, retryingDocIds, crossed, relapsed>>

\* A retry queues the document again, as the page believes, or is refused: the
\* service as it is refuses every one (IngestService, RetryRefused).
ServeDoc(c, d) ==
    /\ call[c].op \in OpPerDoc /\ call[c].answer[d] = "sent"
    /\ \/ call[c].op \in Retry /\ status[d] = "FAILED"
          /\ \E answer \in {"ok", "failed"} : Reply(c, d, answer)
          /\ \E new \in {"PROCESSING", "READY"} : Becomes(d, new)
       \/ call[c].op = "delete" /\ status[d] # "gone"
          /\ \E answer \in {"ok", "failed"} : Reply(c, d, answer)
          /\ Becomes(d, "gone")
       \/ Reply(c, d, "failed") /\ UNCHANGED status
    /\ UNCHANGED <<data, retryingDocIds, crossed, relapsed>>

-----------------------------------------------------------------------------
(* What the page does with the answers                                     *)

Answered(c) ==
    /\ call[c].op # "none"
    /\ \A d \in Doc : call[c].answer[d] # "sent"

\* An answer on its way, other than those of the slots done, has the status.
Carried(done, d, s) ==
    \E e \in Slot \ done : call[e].op \in {"list", "poll"} /\ call[e].answer[d] = s

CarriesFailure(c, d) == Carried({c}, d, "FAILED")

\* What the histories say of a document is over when the page shows something
\* else than the settled status, and no other answer is left that has it.
StaleEnds(c) ==
    relapsed' = {r \in relapsed : data'[r[1]] = r[2] \/ Carried({c}, r[1], r[2])}

CrossingsEnd(c) ==
    /\ crossed' = {d \in crossed : data'[d] = "FAILED" \/ CarriesFailure(c, d)}
    /\ StaleEnds(c)

ListArrives(c) ==
    /\ call[c].op = "list" /\ Answered(c)
    /\ data' = [d \in Doc |-> IF call[c].answer[d] = "no"
                              THEN "absent" ELSE call[c].answer[d]]
    /\ CrossingsEnd(c)
    /\ call' = [call EXCEPT ![c] = NoCall]
    /\ UNCHANGED <<status, retryingDocIds>>

ListFails(c) ==
    /\ call[c].op = "list"
    /\ call' = [call EXCEPT ![c] = NoCall]
    /\ UNCHANGED <<status, data, retryingDocIds, crossed, relapsed>>

\* The documents that are still in the list take the status that was read.
PollArrives(c) ==
    /\ call[c].op = "poll" /\ Answered(c)
    /\ data' = [d \in Doc |-> IF data[d] # "absent" /\ call[c].answer[d] \in DocStatus
                              THEN call[c].answer[d] ELSE data[d]]
    /\ CrossingsEnd(c)
    /\ call' = [call EXCEPT ![c] = NoCall]
    /\ UNCHANGED <<status, retryingDocIds>>

\* The mark of a retry goes with its success.
KeepsTheMark(c) ==
    LET taken == {d \in Doc : call[c].answer[d] = "ok"} IN
    /\ call[c].op \in Retry /\ Answered(c)
    /\ data' = [d \in Doc |-> IF data[d] # "absent" /\ d \in taken
                              THEN "PROCESSING" ELSE data[d]]
    /\ retryingDocIds' = retryingDocIds \ taken
    /\ StaleEnds(c)
    /\ call' = [call EXCEPT ![c] = NoCall]
    /\ UNCHANGED <<status, crossed>>

\* A single retry that fails changes nothing; a batch is shown in progress
\* whatever became of its calls.
RetryArrives(c) ==
    LET docs  == {d \in Doc : call[c].answer[d] # "no"}
        taken == IF call[c].op = "batchRetry" THEN docs
                 ELSE {d \in docs : call[c].answer[d] = "ok"} IN
    /\ call[c].op \in Retry /\ Answered(c)
    /\ data' = [d \in Doc |-> IF data[d] # "absent" /\ d \in taken
                              THEN "PROCESSING" ELSE data[d]]
    /\ retryingDocIds' = retryingDocIds \ docs
    /\ crossed' = crossed \union {d \in docs : CarriesFailure(c, d)}
                          \union {d \in docs \ taken : status[d] # "FAILED"}
    /\ StaleEnds(c)
    /\ call' = [call EXCEPT ![c] = NoCall]
    /\ UNCHANGED status

\* All deleted: the list is fetched again.  One failure: it is not, and the
\* rows that were deleted stay.
DeleteArrives(c) ==
    /\ call[c].op = "delete" /\ Answered(c)
    /\ call' = [call EXCEPT ![c] = IF \E d \in Doc : call[c].answer[d] = "failed"
                                   THEN NoCall ELSE FetchCall]
    /\ UNCHANGED <<status, data, retryingDocIds, crossed, relapsed>>

-----------------------------------------------------------------------------
\* The service goes on with a document, or begins again with a finished one
\* that is shown as such, or will be.
ListedMoves(d) ==
    LET old == status[d] IN
    /\ ServerIngests(d)
    /\ relapsed' =
          (relapsed \union IF old \in Settled /\ (data[d] = old \/ Carried({}, d, old))
                           THEN {<<d, old>>} ELSE {}) \ {<<d, status'[d]>>}
    /\ UNCHANGED <<data, retryingDocIds, call, crossed>>

PageHandles(c) ==
    ListArrives(c) \/ PollArrives(c) \/ RetryArrives(c) \/ DeleteArrives(c)

ListNext ==
    \/ \E c \in Slot :
          \/ RefreshList(c) \/ ShowSpace(c) \/ PollTick(c)
          \/ ServeList(c) \/ ListFails(c) \/ PageHandles(c)
          \/ \E selected \in SUBSET Doc :
                BatchRetry(c, selected) \/ HandleBatchDelete(c, selected)
          \/ \E d \in Doc :
                \/ HandleRetry(c, d) \/ HandleDelete(c, d)
                \/ ReadStatus(c, d) \/ ServeDoc(c, d)
    \/ \E d \in Doc : ListedMoves(d)

ListSpec == ListInit /\ [][ListNext]_listVars

\* Calls are answered,
ListGoesOn ==
    \A c \in Slot :
        WF_listVars(ServeList(c) \/ (\E d \in Doc : ServeDoc(c, d)) \/ PageHandles(c))

\* the interval ticks, and a status that is read again and again is received.
\* Nothing is said of the service: a document may never settle.
ListTick    == \E c \in Slot : PollTick(c)
ListRead(d) == \E c \in Slot : ReadStatus(c, d)

ListFairness ==
    /\ ListGoesOn
    /\ SF_listVars(ListTick)
    /\ \A d \in Doc : SF_listVars(ListRead(d))

-----------------------------------------------------------------------------
(* Properties                                                              *)

\* A document shown READY is ready, or deleted, or was ready when the answer
\* was read and the service has begun with it again since: no answer that
\* arrives late, and no retry of a batch, announces one that was never found.
ReadyIsReal ==
    \A d \in Doc :
        data[d] = "READY" => status[d] \in {"READY", "gone"} \/ <<d, "READY">> \in relapsed

\* A document shown FAILED has failed, unless the service has begun with it
\* again on its own account, or its retry is under way, met an answer older
\* than itself or lost its own answer: then the page shows the failure and
\* nothing polls the document any more.
FailedIsReal ==
    \A d \in Doc :
        data[d] = "FAILED" =>
            status[d] \in {"FAILED", "gone"} \/ d \in crossed
            \/ <<d, "FAILED">> \in relapsed
            \/ \E c \in Slot : call[c].op \in Retry /\ call[c].answer[d] # "no"

\* The mark of a retry goes with the call: a failed retry gives the button back.
RetryingHasCall ==
    \A d \in retryingDocIds :
        \E c \in Slot : call[c].op \in Retry /\ call[c].answer[d] # "no"

\* What the list says of a document was true when the last call about it ended.
ListIsTrue == ReadyIsReal /\ FailedIsReal /\ RetryingHasCall

\* A document shown PENDING or PROCESSING is polled until the row says
\* something else, once the document is settled and unless the service begins
\* with it again.  What the row reads then may be a stage that was under way
\* when the poll was answered, and no poll follows it from there.
ShownProgressEnds ==
    \A d \in Doc : []<>~(data[d] \in Polled /\ status[d] \in Settled)
=============================================================================
