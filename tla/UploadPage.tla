------------------------------ MODULE UploadPage ------------------------------
(***************************************************************************)
(* The upload page: the chain of calls that stores a file and starts its   *)
(* ingestion, the polls that watch the document, and the steps the page    *)
(* shows.  The list of steps is copied from a constant of the module, but  *)
(* its elements are not: a status assigned to an element that has not been *)
(* replaced by a copy stays in the constant for every later upload.        *)
(* The three steps after the parsing are always treated alike: "rest".     *)
(***************************************************************************)
EXTENDS DocumentService, Naturals, FiniteSets

\* Each upload of this visit makes a document of its own.
CONSTANT MaxPolls  \* bound on the polls of a document that are under way

ASSUME UploadPageAssumption == MaxPolls \in Nat \ {0}

VARIABLES
    currentStep,     \* 0 the form, 1 the file, 2 the progress
    chosen,          \* a file is in fileList
    isProcessing,
    mock,            \* statuses in MOCK_PIPELINE_STEPS
    own,             \* uploadProgress: a status of its own, or "mock"
    current,         \* the document of the last click
    chain,           \* where handleUploadTrigger stands
    ticking,         \* documents whose interval is running
    pollingRef,      \* the document whose interval the page remembers
    polls,           \* polls under way: document, number, answer
    toldReady        \* history: documents reported READY to the page

shownVars  == <<isProcessing, mock, own>>
pollVars   == <<ticking, pollingRef, polls, toldReady>>
pageVars   == <<currentStep, chosen, shownVars, current, chain, pollVars>>
uploadVars == <<status, pageVars>>

Step       == {"upload", "parse", "rest"}
StepStatus == {"wait", "process", "finish", "error"}
Calls      == {"hash", "init", "upload", "verify", "commit", "ingest"}

UploadTypeOK ==
    /\ currentStep \in 0 .. 2 /\ chosen \in BOOLEAN /\ isProcessing \in BOOLEAN
    /\ mock \in [Step -> StepStatus] /\ own \in [Step -> StepStatus \union {"mock"}]
    /\ current \in Doc \union {NoDoc} /\ pollingRef \in Doc \union {NoDoc}
    /\ chain \in [Doc -> Calls \union {"idle", "polling", "failed"}]
    /\ status \in [Doc -> DocStatus \union {"none"}]
    /\ ticking \subseteq Doc /\ toldReady \subseteq Doc
    /\ polls \subseteq Doc \X (1 .. MaxPolls)
                 \X (DocStatus \union {"sent"})

MockPipelineSteps ==
    [s \in Step |-> CASE s = "upload" -> "finish"
                      [] s = "parse"  -> "process"
                      [] s = "rest"   -> "wait"]

UploadFresh ==
    /\ currentStep = 0 /\ chosen = FALSE /\ isProcessing = FALSE
    /\ mock = MockPipelineSteps
    /\ own = [s \in Step |-> "mock"]
    /\ current = NoDoc /\ chain = [d \in Doc |-> "idle"]
    /\ ticking = {} /\ pollingRef = NoDoc /\ polls = {} /\ toldReady = {}

UploadInit == UploadFresh /\ status = [d \in Doc |-> "none"]

\* What the page shows for a step.
Shown(s) == IF own[s] = "mock" THEN mock[s] ELSE own[s]

ProgressIsShown == currentStep = 2

\* The card with the result is shown, with the tag that says READY.
Card == ProgressIsShown /\ \A s \in Step : Shown(s) = "finish"

-----------------------------------------------------------------------------
(* The form and the buttons                                                *)

GoTo(n) ==
    /\ currentStep' = n
    /\ UNCHANGED <<chosen, shownVars, current, chain, status, pollVars>>

\* The only button that is refused while the page works.
PreviousStep == currentStep > 0 /\ ~isProcessing /\ GoTo(currentStep - 1)

HandleMetadataConfirm == currentStep = 0 /\ GoTo(1)

BackToForm == currentStep = 1 /\ GoTo(0)

BackToFile == ProgressIsShown /\ GoTo(1)

\* handleLUIAction, for the skill that uploads a document.
SkillOpensForm == currentStep # 0 /\ GoTo(0)

\* beforeUpload accepts a file; onRemove.
ChooseFile ==
    /\ currentStep = 1
    /\ chosen' = ~chosen
    /\ UNCHANGED <<currentStep, shownVars, current, chain, status, pollVars>>

\* The button of the result card.
UploadAnother ==
    /\ Card
    /\ currentStep' = 0 /\ chosen' = FALSE /\ isProcessing' = FALSE
    /\ own' = [s \in Step |-> "mock"]
    /\ UNCHANGED <<mock, current, chain, status, pollVars>>

\* The button is inert while the page works.
UploadButton == currentStep = 1 /\ chosen /\ ~isProcessing

HandleUploadTrigger(d) ==
    /\ UploadButton /\ chain[d] = "idle"
    /\ isProcessing' = TRUE /\ currentStep' = 2
    /\ own' = [s \in Step |-> "mock"]
    /\ current' = d /\ chain' = [chain EXCEPT ![d] = "hash"]
    /\ UNCHANGED <<chosen, mock, status, pollVars>>

-----------------------------------------------------------------------------
(* The chain of calls                                                      *)

NextCall(call) ==
    CASE call = "hash"   -> "init"   [] call = "init"   -> "upload"
      [] call = "upload" -> "verify" [] call = "verify" -> "commit"
      [] call = "commit" -> "ingest" [] call = "ingest" -> "polling"

\* Each setUploadProgress changes the list that is shown by then.
ShowCall(call) ==
    CASE call = "hash"   -> own' = [own EXCEPT !["upload"] = "process"]
      [] call = "upload" -> own' = [own EXCEPT !["upload"] = "finish"]
      [] OTHER           -> UNCHANGED own

\* The commit leaves the document PENDING; the call of ingest returns after the
\* ingestion has begun, which may even be over by then.
ServerDoes(d, call) ==
    CASE call = "commit" -> Becomes(d, "PENDING")
      [] call = "ingest" -> status[d] # "PENDING" /\ UNCHANGED status
      [] OTHER           -> UNCHANGED status

\* startStatusPolling: an interval and a first poll.
StartStatusPolling(d) ==
    /\ ticking' = ticking \union {d} /\ pollingRef' = d
    /\ polls' = polls \union {<<d, 1, "sent">>}

CallReturns(d) ==
    /\ chain[d] \in Calls
    /\ chain' = [chain EXCEPT ![d] = NextCall(@)]
    /\ ShowCall(chain[d]) /\ ServerDoes(d, chain[d])
    /\ IF chain[d] = "ingest"
       THEN StartStatusPolling(d) ELSE UNCHANGED <<ticking, pollingRef, polls>>
    /\ UNCHANGED <<currentStep, chosen, isProcessing, mock, current, toldReady>>

\* A catch block without setIsProcessing(false).
ThrowsBusy(d) ==
    /\ chain[d] \in Calls
    /\ chain' = [chain EXCEPT ![d] = "failed"]
    /\ own' = [s \in Step |-> IF Shown(s) = "process" THEN "error" ELSE Shown(s)]
    /\ UNCHANGED <<currentStep, chosen, isProcessing, mock, current, status, pollVars>>

\* The catch block replaces every element of the list that is shown.
CallThrows(d) ==
    /\ chain[d] \in Calls
    /\ chain' = [chain EXCEPT ![d] = "failed"]
    /\ isProcessing' = FALSE
    /\ own' = [s \in Step |-> IF Shown(s) = "process" THEN "error" ELSE Shown(s)]
    /\ UNCHANGED <<currentStep, chosen, mock, current, status, pollVars>>

-----------------------------------------------------------------------------
(* The polls                                                               *)

Tick(d) ==
    /\ d \in ticking
    /\ \E n \in 1 .. MaxPolls :
          /\ \A p \in polls : <<p[1], p[2]>> # <<d, n>>
          /\ polls' = polls \union {<<d, n, "sent">>}
    /\ UNCHANGED <<currentStep, chosen, shownVars, current, chain, status,
                   ticking, pollingRef, toldReady>>

PollRead(p) ==
    /\ p \in polls /\ p[3] = "sent"
    /\ polls' = (polls \ {p}) \union {<<p[1], p[2], status[p[1]]>>}
    /\ UNCHANGED <<currentStep, chosen, shownVars, current, chain, status,
                   ticking, pollingRef, toldReady>>

\* An error is only logged.
PollFails(p) ==
    /\ p \in polls /\ polls' = polls \ {p}
    /\ UNCHANGED <<currentStep, chosen, shownVars, current, chain, status,
                   ticking, pollingRef, toldReady>>

\* A status is assigned to every element: in the constant where the list still
\* holds the elements of the constant.
Assign(new) ==
    /\ mock' = [s \in Step |-> IF own[s] = "mock" THEN new ELSE mock[s]]
    /\ own' = [s \in Step |-> IF own[s] = "mock" THEN "mock" ELSE new]

\* An answer is applied to what the page shows by then, and it stops the
\* interval the page remembers by then.
PollAnswered(p) ==
    /\ p \in polls /\ p[3] # "sent"
    /\ polls' = polls \ {p}
    /\ IF p[3] \in Settled
       THEN /\ Assign(IF p[3] = "READY" THEN "finish" ELSE "error")
            /\ isProcessing' = FALSE
            /\ ticking' = ticking \ {pollingRef}
       ELSE /\ own' = IF p[3] \in Polled /\ Shown("parse") # "finish"
                      THEN [own EXCEPT !["parse"] = "process"] ELSE own
            /\ UNCHANGED <<isProcessing, mock, ticking>>
    /\ toldReady' = IF p[3] = "READY" THEN toldReady \union {p[1]} ELSE toldReady
    /\ UNCHANGED <<currentStep, chosen, current, chain, status, pollingRef>>

\* The service has the document from the call of ingest on; what becomes of
\* it when that call fails is not asked for.
DocumentMoves(d) ==
    /\ chain[d] \in {"ingest", "polling"}
    /\ ServerIngests(d) /\ UNCHANGED pageVars

-----------------------------------------------------------------------------
UploadNext ==
    \/ PreviousStep \/ HandleMetadataConfirm \/ BackToForm \/ BackToFile
    \/ SkillOpensForm
    \/ ChooseFile
    \/ UploadAnother
    \/ \E d \in Doc :
          \/ HandleUploadTrigger(d)
          \/ CallReturns(d) \/ CallThrows(d) \/ Tick(d) \/ DocumentMoves(d)
    \/ \E p \in polls : PollRead(p) \/ PollFails(p) \/ PollAnswered(p)

UploadSpec == UploadInit /\ [][UploadNext]_uploadVars

\* Calls return or throw, intervals tick,
UploadGoesOn ==
    \A d \in Doc :
        WF_uploadVars(CallReturns(d) \/ CallThrows(d)) /\ WF_uploadVars(Tick(d))

\* and a poll that is repeated is read and answered in the end.  Nothing is
\* said of the service: a document may never settle.
UploadRead(d)   == \E p \in polls : p[1] = d /\ PollRead(p)
UploadAnswer(d) == \E p \in polls : p[1] = d /\ PollAnswered(p)

UploadFairness ==
    /\ UploadGoesOn
    /\ \A d \in Doc : SF_uploadVars(UploadRead(d)) /\ SF_uploadVars(UploadAnswer(d))

-----------------------------------------------------------------------------
(* Properties                                                              *)

\* The card that says READY is shown for a document that is ready, or else
\* because another one was: its statuses were left in the constant, or its
\* late answer was applied to the steps of this one.  So the first document of
\* a visit is never announced before the page was told that it is ready,
\* whatever calls fail and however the user moves.
CardNeedsAReadyDocument == Card => toldReady # {}

\* While the page says that it works, the document of the last click has a
\* call under way or an interval that watches it: the intervals share one
\* reference, and an answer may stop that of another document.
WorkHasATask ==
    isProcessing => chain[current] \in Calls \/ current \in ticking

\* What the page says of its upload is not made up.
UploadIsTold == CardNeedsAReadyDocument /\ WorkHasATask

\* The chain of calls ends, and the page comes back from its work once the
\* document it watches is settled, unless the service begins with it again
\* before the page has read that.  It watches one that never settles for ever.
WorkEnds ==
    /\ []<>~(isProcessing /\ chain[current] \in Calls)
    /\ []<>~(isProcessing /\ status[current] \in Settled)
=============================================================================
