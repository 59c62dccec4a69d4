--------------------------- MODULE DocumentsProofs ----------------------------
(***************************************************************************)
(* The pages of the documents, each for any number of documents, calls,    *)
(* files and headings.                                                     *)
(***************************************************************************)
EXTENDS MCDocuments, InductionLemmas, FiniteSetTheorems

-----------------------------------------------------------------------------
(* The services behind the pages (DocumentService)                         *)

\* Whatever the services do to a document, they write it a status, and only a
\* document that is stored.
LEMMA ServiceWrites ==
    ASSUME NEW d \in Doc, ServerIngests(d)
    PROVE  \E new \in DocStatus :
               status[d] \in DocStatus /\ status' = [status EXCEPT ![d] = new]
  BY DEF ServerIngests, IngestionBegins, StageBegins, IngestionEnds, Committed, Becomes,
         DocStatus, Known, Settled

\* No status is one of the pages' own words.
LEMMA StatusIsNoNote == \A s \in Noted : s \notin DocStatus
  BY DocumentServiceAssumption DEF DocStatus, Known, Noted

-----------------------------------------------------------------------------
(* The upload page (UploadPage)                                            *)

\* Until the page is told that a document is ready, no step after the parsing
\* is finished, neither on the page nor in the constant of the module.
RestInv == toldReady = {} => mock["rest"] # "finish" /\ own["rest"] # "finish"

\* A document is watched when it is registered.
WatchedInv ==
    /\ \A d \in Doc : chain[d] \in {"ingest", "polling"} => status[d] \in DocStatus
    /\ \A d \in ticking : status[d] \in DocStatus
    /\ \A p \in polls : status[p[1]] \in DocStatus

WorkInv == isProcessing => current \in Doc /\ WorkHasATask

UploadInv == UploadTypeOK /\ RestInv /\ WatchedInv /\ WorkInv

LEMMA UploadStarts == UploadInit => UploadInv
<1> SUFFICES ASSUME UploadInit PROVE UploadInv
  OBVIOUS
<1>1. UploadTypeOK
  <2>1. MockPipelineSteps \in [Step -> StepStatus] /\ MockPipelineSteps["rest"] = "wait"
    BY DEF MockPipelineSteps, Step, StepStatus
  <2>2. own \in [Step -> StepStatus \union {"mock"}] /\ mock \in [Step -> StepStatus]
    BY <2>1 DEF UploadInit, UploadFresh
  <2>3. /\ chain \in [Doc -> Calls \union {"idle", "polling", "failed"}]
        /\ status \in [Doc -> DocStatus \union {"none"}]
    BY DEF UploadInit, UploadFresh
  <2>4. /\ currentStep = 0 /\ chosen = FALSE /\ isProcessing = FALSE /\ current = NoDoc
        /\ pollingRef = NoDoc /\ ticking = {} /\ polls = {} /\ toldReady = {}
    BY DEF UploadInit, UploadFresh
  <2>5. currentStep \in 0 .. 2
    BY <2>4
  <2>6. chosen \in BOOLEAN /\ isProcessing \in BOOLEAN
    BY <2>4, Zenon
  <2> QED BY <2>2, <2>3, <2>4, <2>5, <2>6 DEF UploadTypeOK
<1>2. RestInv
  BY DEF UploadInit, UploadFresh, RestInv, MockPipelineSteps, Step
<1>3. WatchedInv /\ WorkInv
  BY DEF UploadInit, UploadFresh, WatchedInv, WorkInv
<1> QED BY <1>1, <1>2, <1>3 DEF UploadInv

\* The steps on the page and in the constant, after anything that changes them.
LEMMA StepsKeep ==
    ASSUME UploadInv, mock' \in [Step -> StepStatus],
           own' \in [Step -> StepStatus \union {"mock"}],
           \/ toldReady' # {}
           \/ mock'["rest"] # "finish" /\ own'["rest"] # "finish",
           currentStep' \in 0 .. 2, chosen' \in BOOLEAN, isProcessing' \in BOOLEAN,
           toldReady' \subseteq Doc, ticking' \subseteq ticking,
           pollingRef' \in Doc \union {NoDoc}, polls' \subseteq polls,
           isProcessing' => isProcessing /\ ticking' = ticking,
           UNCHANGED <<current, chain, status>>
    PROVE  UploadInv'
<1>1. UploadTypeOK'
  BY DEF UploadInv, UploadTypeOK
<1>2. RestInv'
  BY DEF RestInv
<1>3. WatchedInv'
  BY DEF UploadInv, WatchedInv
<1>4. WorkInv'
  BY DEF UploadInv, WorkInv, WorkHasATask
<1> QED BY <1>1, <1>2, <1>3, <1>4 DEF UploadInv

\* What a call does on the server.
LEMMA ServerDoesSo ==
    ASSUME UploadInv, NEW d \in Doc, NEW c \in Calls, c = chain[d], ServerDoes(d, c)
    PROVE  /\ status' \in [Doc -> DocStatus \union {"none"}]
           /\ \A e \in Doc : status[e] \in DocStatus => status'[e] \in DocStatus
           /\ c \in {"commit", "ingest"} => status'[d] \in DocStatus
           /\ \A e \in Doc : e # d => status'[e] = status[e]
<1>1. status \in [Doc -> DocStatus \union {"none"}] /\ "PENDING" \in DocStatus
  BY DEF UploadInv, UploadTypeOK, DocStatus, Known
<1>2. CASE c = "commit"
  BY <1>1, <1>2 DEF ServerDoes, Becomes
<1>3. CASE c # "commit"
  <2>1. status' = status
    BY <1>3 DEF ServerDoes
  <2> QED BY <1>1, <1>3, <2>1 DEF UploadInv, WatchedInv
<1> QED BY <1>2, <1>3

LEMMA CallReturnsKeeps ==
    ASSUME UploadInv, NEW d \in Doc, CallReturns(d)
    PROVE  UploadInv'
<1> DEFINE c == chain[d]
<1>0. /\ c \in Calls /\ chain \in [Doc -> Calls \union {"idle", "polling", "failed"}]
      /\ own \in [Step -> StepStatus \union {"mock"}]
  BY DEF UploadInv, UploadTypeOK, CallReturns
<1>1. /\ status' \in [Doc -> DocStatus \union {"none"}]
      /\ \A e \in Doc : status[e] \in DocStatus => status'[e] \in DocStatus
      /\ c \in {"commit", "ingest"} => status'[d] \in DocStatus
  BY <1>0, ServerDoesSo DEF CallReturns
<1>2. /\ NextCall(c) \in Calls \union {"polling"}
      /\ NextCall(c) = "polling" <=> c = "ingest"
      /\ NextCall(c) = "ingest" <=> c = "commit"
  BY <1>0 DEF NextCall, Calls
<1>3. /\ chain' = [chain EXCEPT ![d] = NextCall(c)]
      /\ chain' \in [Doc -> Calls \union {"idle", "polling", "failed"}]
      /\ chain'[d] = NextCall(c) /\ \A e \in Doc : e # d => chain'[e] = chain[e]
  BY <1>0, <1>2 DEF CallReturns
<1>4. own' \in [Step -> StepStatus \union {"mock"}] /\ own'["rest"] = own["rest"]
  BY <1>0 DEF CallReturns, ShowCall, Step, StepStatus
<1>5. /\ ticking' = IF c = "ingest" THEN ticking \union {d} ELSE ticking
      /\ pollingRef' = IF c = "ingest" THEN d ELSE pollingRef
      /\ polls' = IF c = "ingest" THEN polls \union {<<d, 1, "sent">>} ELSE polls
      /\ UNCHANGED <<currentStep, chosen, isProcessing, mock, current, toldReady>>
  BY DEF CallReturns, StartStatusPolling
<1>6. UploadTypeOK'
  <2>1. 1 \in 1 .. MaxPolls
    BY UploadPageAssumption
  <2>2. polls' \subseteq Doc \X (1 .. MaxPolls) \X (DocStatus \union {"sent"})
    BY <1>5, <2>1 DEF UploadInv, UploadTypeOK
  <2> QED BY <1>1, <1>3, <1>4, <1>5, <2>2 DEF UploadInv, UploadTypeOK
<1>7. RestInv'
  BY <1>4, <1>5 DEF UploadInv, RestInv
<1>8. WatchedInv'
  <2>1. \A e \in Doc : chain'[e] \in {"ingest", "polling"} => status'[e] \in DocStatus
    BY <1>1, <1>2, <1>3 DEF UploadInv, WatchedInv
  <2>2. \A e \in ticking' : status'[e] \in DocStatus
    BY <1>1, <1>5 DEF UploadInv, WatchedInv, UploadTypeOK
  <2>3. ASSUME NEW p \in polls' PROVE status'[p[1]] \in DocStatus
    <3>1. CASE p \in polls
      <4>1. p[1] \in Doc
        BY <3>1 DEF UploadInv, UploadTypeOK
      <4> QED BY <1>1, <3>1, <4>1 DEF UploadInv, WatchedInv
    <3>2. CASE p \notin polls
      <4>1. p = <<d, 1, "sent">> /\ c = "ingest"
        BY <1>5, <3>2
      <4> QED BY <1>1, <4>1
    <3> QED BY <3>1, <3>2
  <2> QED BY <2>1, <2>2, <2>3 DEF WatchedInv
<1>9. WorkInv'
  BY <1>2, <1>3, <1>5 DEF UploadInv, WorkInv, WorkHasATask
<1> QED BY <1>6, <1>7, <1>8, <1>9 DEF UploadInv

LEMMA CallThrowsKeeps ==
    ASSUME UploadInv, NEW d \in Doc, CallThrows(d)
    PROVE  UploadInv'
<1>1. /\ own \in [Step -> StepStatus \union {"mock"}] /\ mock \in [Step -> StepStatus]
      /\ chain \in [Doc -> Calls \union {"idle", "polling", "failed"}]
  BY DEF UploadInv, UploadTypeOK
<1>2. \A s \in Step : Shown(s) \in StepStatus
  BY <1>1 DEF Shown, StepStatus
<1>3. own' \in [Step -> StepStatus \union {"mock"}]
  BY <1>2 DEF CallThrows, StepStatus
<1>4. toldReady = {} => own'["rest"] # "finish"
  BY DEF CallThrows, Shown, Step, UploadInv, RestInv
<1>5. /\ chain' \in [Doc -> Calls \union {"idle", "polling", "failed"}]
      /\ \A e \in Doc : chain'[e] \in {"ingest", "polling"} => chain'[e] = chain[e]
      /\ isProcessing' = FALSE
      /\ UNCHANGED <<currentStep, chosen, mock, current, status, ticking, pollingRef,
                     polls, toldReady>>
  BY <1>1 DEF CallThrows, pollVars
<1>6. UploadTypeOK'
  BY <1>3, <1>5 DEF UploadInv, UploadTypeOK
<1>7. RestInv' /\ WatchedInv' /\ WorkInv'
  BY <1>4, <1>5 DEF UploadInv, RestInv, WatchedInv, WorkInv
<1> QED BY <1>6, <1>7 DEF UploadInv

\* More polls, and polls that were read.
LEMMA PollsKeep ==
    ASSUME UploadInv, NEW p \in Doc \X (1 .. MaxPolls) \X (DocStatus \union {"sent"}),
           status[p[1]] \in DocStatus, polls' \subseteq polls \union {p},
           UNCHANGED <<currentStep, chosen, shownVars, current, chain, status,
                       ticking, pollingRef, toldReady>>
    PROVE  UploadInv'
<1>1. UNCHANGED <<isProcessing, mock, own>>
  BY DEF shownVars
<1>2. UploadTypeOK'
  BY <1>1 DEF UploadInv, UploadTypeOK
<1>3. RestInv' /\ WorkInv'
  BY <1>1 DEF UploadInv, RestInv, WorkInv, WorkHasATask
<1>4. WatchedInv'
  BY DEF UploadInv, WatchedInv
<1> QED BY <1>2, <1>3, <1>4 DEF UploadInv

LEMMA PollAnsweredKeeps ==
    ASSUME UploadInv, NEW p \in polls, PollAnswered(p)
    PROVE  UploadInv'
<1>0. /\ p[1] \in Doc /\ p[3] \in DocStatus
      /\ own \in [Step -> StepStatus \union {"mock"}] /\ mock \in [Step -> StepStatus]
  BY DEF UploadInv, UploadTypeOK, PollAnswered
<1>1. CASE p[3] \in {"READY", "FAILED"}
  <2> DEFINE new == IF p[3] = "READY" THEN "finish" ELSE "error"
  <2>1. new \in StepStatus
    BY DEF StepStatus
  <2>2. /\ mock' = [s \in Step |-> IF own[s] = "mock" THEN new ELSE mock[s]]
        /\ own' = [s \in Step |-> IF own[s] = "mock" THEN "mock" ELSE new]
        /\ isProcessing' = FALSE /\ ticking' = ticking \ {pollingRef} /\ polls' = polls \ {p}
        /\ toldReady' = IF p[3] = "READY" THEN toldReady \union {p[1]} ELSE toldReady
        /\ UNCHANGED <<currentStep, chosen, current, chain, status, pollingRef>>
    BY <1>1 DEF PollAnswered, Assign, Settled
  <2>3. mock' \in [Step -> StepStatus] /\ own' \in [Step -> StepStatus \union {"mock"}]
    BY <1>0, <2>1, <2>2
  <2>4. toldReady' # {} \/ (mock'["rest"] # "finish" /\ own'["rest"] # "finish")
    BY <2>2 DEF UploadInv, RestInv, Step
  <2>5. /\ currentStep \in 0 .. 2 /\ chosen \in BOOLEAN /\ pollingRef \in Doc \union {NoDoc}
        /\ toldReady' \subseteq Doc
    BY <1>0, <2>2 DEF UploadInv, UploadTypeOK
  <2> QED BY <2>2, <2>3, <2>4, <2>5, StepsKeep
<1>2. CASE p[3] \notin {"READY", "FAILED"}
  <2>1. /\ own' \in {own, [own EXCEPT !["parse"] = "process"]}
        /\ polls' = polls \ {p} /\ toldReady' = toldReady
        /\ UNCHANGED <<isProcessing, mock, ticking, currentStep, chosen, current, chain,
                       status, pollingRef>>
    BY <1>2 DEF PollAnswered, Settled
  <2>2. /\ own' \in [Step -> StepStatus \union {"mock"}] /\ own'["rest"] = own["rest"]
    BY <1>0, <2>1 DEF Step, StepStatus
  <2>3. toldReady' # {} \/ (mock'["rest"] # "finish" /\ own'["rest"] # "finish")
    BY <2>1, <2>2 DEF UploadInv, RestInv
  <2>4. /\ currentStep \in 0 .. 2 /\ chosen \in BOOLEAN /\ isProcessing \in BOOLEAN
        /\ pollingRef \in Doc \union {NoDoc} /\ toldReady \subseteq Doc
    BY DEF UploadInv, UploadTypeOK
  <2> QED BY <1>0, <2>1, <2>2, <2>3, <2>4, StepsKeep
<1> QED BY <1>1, <1>2

LEMMA UploadGoesOnSo == UploadInv /\ [UploadNext]_uploadVars => UploadInv'
<1> SUFFICES ASSUME UploadInv, [UploadNext]_uploadVars PROVE UploadInv'
  OBVIOUS
<1>0. UploadTypeOK
  BY DEF UploadInv
<1>1. ASSUME NEW n \in 0 .. 2, GoTo(n) PROVE UploadInv'
  BY <1>0, <1>1, StepsKeep
     DEF GoTo, shownVars, pollVars, UploadTypeOK, UploadInv, RestInv
<1>2. CASE \/ PreviousStep \/ HandleMetadataConfirm \/ BackToForm \/ BackToFile
           \/ SkillOpensForm
  <2>1. currentStep \in 0 .. 2
    BY <1>0 DEF UploadTypeOK
  <2>2. PreviousStep => currentStep - 1 \in 0 .. 2
    BY <2>1 DEF PreviousStep
  <2> QED
    BY <1>1, <1>2, <2>2
       DEF PreviousStep, HandleMetadataConfirm, BackToForm, BackToFile, SkillOpensForm
<1>3. CASE ChooseFile
  BY <1>0, <1>3, StepsKeep
     DEF ChooseFile, shownVars, pollVars, UploadTypeOK, UploadInv, RestInv
<1>4. CASE UploadAnother
  <2>1. own' \in [Step -> StepStatus \union {"mock"}] /\ own'["rest"] # "finish"
    BY <1>4 DEF UploadAnother, Step
  <2>2. /\ currentStep' = 0 /\ chosen' = FALSE /\ isProcessing' = FALSE
        /\ UNCHANGED <<mock, current, chain, status, ticking, pollingRef, polls, toldReady>>
    BY <1>4 DEF UploadAnother, pollVars
  <2>3. /\ mock \in [Step -> StepStatus] /\ toldReady \subseteq Doc
        /\ pollingRef \in Doc \union {NoDoc}
        /\ toldReady # {} \/ mock["rest"] # "finish"
    BY <1>0 DEF UploadTypeOK, UploadInv, RestInv
  <2>4. currentStep' \in 0 .. 2
    BY <2>2
  <2>5. chosen' \in BOOLEAN /\ isProcessing' \in BOOLEAN
    BY <2>2, Zenon
  <2>6. ~isProcessing' /\ ticking' \subseteq ticking /\ polls' \subseteq polls
    BY <2>2
  <2> QED BY <2>1, <2>2, <2>3, <2>4, <2>5, <2>6, StepsKeep
<1>5. ASSUME NEW d \in Doc, HandleUploadTrigger(d) PROVE UploadInv'
  <2>1. own' \in [Step -> StepStatus \union {"mock"}] /\ own'["rest"] # "finish"
    BY <1>5 DEF HandleUploadTrigger, Step
  <2>2. /\ chain' \in [Doc -> Calls \union {"idle", "polling", "failed"}]
        /\ chain'[d] = "hash" /\ \A e \in Doc : e # d => chain'[e] = chain[e]
    BY <1>0, <1>5 DEF HandleUploadTrigger, UploadTypeOK, Calls
  <2>3. /\ isProcessing' = TRUE /\ currentStep' = 2 /\ current' = d
        /\ UNCHANGED <<chosen, mock, status, ticking, pollingRef, polls, toldReady>>
    BY <1>5 DEF HandleUploadTrigger, pollVars
  <2>4. UploadTypeOK'
    BY <1>0, <2>1, <2>2, <2>3 DEF UploadTypeOK
  <2>5. RestInv'
    BY <2>1, <2>3 DEF UploadInv, RestInv
  <2>6. WatchedInv'
    BY <2>2, <2>3 DEF UploadInv, WatchedInv
  <2>7. WorkInv'
    BY <2>2, <2>3 DEF WorkInv, WorkHasATask, Calls
  <2> QED BY <2>4, <2>5, <2>6, <2>7 DEF UploadInv
<1>6. ASSUME NEW d \in Doc, CallReturns(d) \/ CallThrows(d) PROVE UploadInv'
  BY <1>6, CallReturnsKeeps, CallThrowsKeeps
<1>7. ASSUME NEW d \in Doc, Tick(d) PROVE UploadInv'
  <2>1. PICK n \in 1 .. MaxPolls : polls' = polls \union {<<d, n, "sent">>}
    BY <1>7 DEF Tick
  <2> DEFINE p == <<d, n, "sent">>
  <2>2. p \in Doc \X (1 .. MaxPolls) \X (DocStatus \union {"sent"}) /\ p[1] = d
    OBVIOUS
  <2>3. status[d] \in DocStatus
    BY <1>7 DEF Tick, UploadInv, WatchedInv
  <2> HIDE DEF p
  <2>4. polls' \subseteq polls \union {p}
    BY <2>1 DEF p
  <2> QED BY <1>7, <2>2, <2>3, <2>4, PollsKeep DEF Tick
<1>8. ASSUME NEW p \in polls, PollRead(p) \/ PollFails(p) PROVE UploadInv'
  <2> DEFINE q == <<p[1], p[2], status[p[1]]>>
  <2>1. p \in Doc \X (1 .. MaxPolls) \X (DocStatus \union {"sent"})
    BY <1>0 DEF UploadTypeOK
  <2>2. status[p[1]] \in DocStatus
    BY DEF UploadInv, WatchedInv
  <2>3. q \in Doc \X (1 .. MaxPolls) \X (DocStatus \union {"sent"}) /\ q[1] = p[1]
    BY <2>1, <2>2
  <2>4. polls' \subseteq polls \union {q}
    BY <1>8 DEF PollRead, PollFails
  <2>5. UNCHANGED <<currentStep, chosen, shownVars, current, chain, status,
                    ticking, pollingRef, toldReady>>
    BY <1>8 DEF PollRead, PollFails
  <2> HIDE DEF q
  <2> QED BY <2>2, <2>3, <2>4, <2>5, PollsKeep
<1>9. ASSUME NEW p \in polls, PollAnswered(p) PROVE UploadInv'
  BY <1>9, PollAnsweredKeeps
<1>10. ASSUME NEW d \in Doc, DocumentMoves(d) PROVE UploadInv'
  <2>1. PICK new \in DocStatus : status' = [status EXCEPT ![d] = new] /\ status[d] \in DocStatus
    BY <1>10, ServiceWrites DEF DocumentMoves
  <2>2. /\ status' \in [Doc -> DocStatus \union {"none"}]
        /\ \A e \in Doc : status[e] \in DocStatus => status'[e] \in DocStatus
    BY <1>0, <2>1 DEF UploadTypeOK
  <2>3. UNCHANGED <<currentStep, chosen, isProcessing, mock, own, current, chain, ticking,
                    pollingRef, polls, toldReady>>
    BY <1>10 DEF DocumentMoves, pageVars, shownVars, pollVars
  <2>4. UploadTypeOK' /\ RestInv' /\ WorkInv'
    BY <2>2, <2>3 DEF UploadInv, UploadTypeOK, RestInv, WorkInv, WorkHasATask
  <2>5. WatchedInv'
    <3>1. \A p \in polls : p[1] \in Doc
      BY <1>0 DEF UploadTypeOK
    <3> QED BY <1>0, <2>2, <2>3, <3>1 DEF UploadInv, UploadTypeOK, WatchedInv
  <2> QED BY <2>4, <2>5 DEF UploadInv
<1>11. CASE UNCHANGED uploadVars
  BY <1>11 DEF uploadVars, pageVars, shownVars, pollVars, UploadInv, UploadTypeOK, RestInv,
               WatchedInv, WorkInv, WorkHasATask
<1> QED
  BY <1>2, <1>3, <1>4, <1>5, <1>6, <1>7, <1>8, <1>9, <1>10, <1>11 DEF UploadNext

LEMMA UploadInvImplies == ASSUME UploadInv PROVE UploadIsTold
<1>1. CardNeedsAReadyDocument
  <2>1. Card => Shown("rest") = "finish"
    BY DEF Card, Step
  <2> QED BY <2>1 DEF CardNeedsAReadyDocument, UploadInv, RestInv, Shown
<1>2. WorkHasATask
  BY DEF UploadInv, WorkInv, WorkHasATask
<1> QED BY <1>1, <1>2 DEF UploadIsTold

\* What the upload page says of its upload is not made up: no card before a
\* document was reported ready, no work without a call or an interval that ends it
\* (handleUploadTrigger and startStatusPolling).
THEOREM UploadStaysTold == UploadSpec => []UploadIsTold
<1>1. UploadInv => UploadIsTold
  BY UploadInvImplies
<1> QED BY <1>1, UploadStarts, UploadGoesOnSo, PTL DEF UploadSpec

-----------------------------------------------------------------------------
(* The form of the upload page (UploadForm)                                *)

\* A configuration of a space is one the user took from the list.
ConfigInv ==
    /\ spaces = {} => chunkConfig \notin Space
    /\ SpaceConfigIsSelected

\* Metadata and tags come from files that were chosen.
ChosenInv ==
    /\ file \in picked \union {NoFile} /\ labelTags \subseteq picked
    /\ file # NoFile => metadata \in {file, NoFile}
    /\ request.file # NoFile =>
          request.file \in request.tags /\ request.tags \subseteq picked

FormInv == FormTypeOK /\ ConfigInv /\ ChosenInv

LEMMA FormStarts == FormInit => FormInv
<1> SUFFICES ASSUME FormInit PROVE FormInv
  OBVIOUS
<1> USE UploadFormAssumption DEF FormInit, NoRequest
<1>1. FormTypeOK
  BY DEF FormTypeOK, ConfigSource
<1>2. ConfigInv
  BY DEF ConfigInv, SpaceConfigIsSelected
<1>3. ChosenInv
  BY DEF ChosenInv
<1> QED BY <1>1, <1>2, <1>3 DEF FormInv

LEMMA FormGoesOn == FormInv /\ [FormNext]_formVars => FormInv'
<1> SUFFICES ASSUME FormInv, [FormNext]_formVars PROVE FormInv'
  OBVIOUS
<1> USE UploadFormAssumption
        DEF FormInv, FormTypeOK, ConfigSource, ConfigInv, ChosenInv, SpaceConfigIsSelected
<1>1. ASSUME NEW items \in SUBSET Space, SpacesLoaded(items) PROVE FormInv'
  BY <1>1 DEF SpacesLoaded
<1>2. ASSUME NEW s \in Space, HandleSpaceChange(s) PROVE FormInv'
  BY <1>2 DEF HandleSpaceChange, SpaceOffered
<1>3. CASE HandleChunkConfigToggle
  BY <1>3 DEF HandleChunkConfigToggle
<1>4. CASE MoveSlider
  BY <1>4 DEF MoveSlider
<1>5. ASSUME NEW f \in File, BeforeUpload(f) PROVE FormInv'
  BY <1>5 DEF BeforeUpload, InferMetadata, InferTags, BuildAutoMetadata
<1>6. CASE OnRemove \/ ClearTags \/ ConfirmMetadata
  BY <1>6 DEF OnRemove, ClearTags, ConfirmMetadata
<1>7. CASE SendRequest
  <2>1. /\ file # NoFile /\ metadata' = file
        /\ request'.space = selectedSpace /\ request'.config = chunkConfig
        /\ request'.file = file /\ request'.tags = labelTags \union {file}
        /\ UNCHANGED <<spaces, selectedSpace, useCustomChunk, chunkConfig, file,
                       labelTags, picked>>
    BY <1>7 DEF SendRequest, InitRequest, InferMetadata, InferTags, BuildAutoMetadata
  <2> QED BY <2>1
<1>8. CASE UNCHANGED formVars
  BY <1>8 DEF formVars
<1> QED BY <1>1, <1>2, <1>3, <1>4, <1>5, <1>6, <1>7, <1>8 DEF FormNext

LEMMA FormInvImplies == ASSUME FormInv PROVE RequestIsOfTheChoice
BY DEF FormInv, ConfigInv, ChosenInv, RequestIsOfTheChoice, MetadataOfOwnFile,
       ShownMetadata

\* The upload form sends what belongs to the chosen file and to the chosen space,
\* in whichever order the space, the rules and the file were chosen.
THEOREM RequestStaysOfTheChoice == FormSpec => []RequestIsOfTheChoice
<1>1. FormInv => RequestIsOfTheChoice
  BY FormInvImplies
<1> QED BY <1>1, FormStarts, FormGoesOn, PTL DEF FormSpec

-----------------------------------------------------------------------------
(* The list of documents (DocumentList)                                    *)

Replies == DocStatus \union {"no", "sent", "ok", "failed"}
CallOfList == [op : {"none", "list"} \union OpPerDoc, answer : [Doc -> Replies]]

Retries(d) == \E c \in Slot : call[c].op \in Retry /\ call[c].answer[d] # "no"

\* What may be shown, or be on its way, of a document that has failed, or is ready.
FailureStands(d) == \/ status[d] \in {"FAILED", "gone"} \/ <<d, "FAILED">> \in relapsed
                    \/ d \in crossed \/ Retries(d)
ReadyStands(d)   == status[d] \in {"READY", "gone"} \/ <<d, "READY">> \in relapsed

\* An answer on its way is as true as what is shown.
AnswersInv ==
    \A c \in Slot, d \in Doc :
        /\ call[c].op = "list" => call[c].answer[d] \in DocStatus \union {"no", "sent"}
        /\ call[c].op \in {"list", "poll"} /\ call[c].answer[d] = "READY" => ReadyStands(d)
        /\ call[c].op \in {"list", "poll"} /\ call[c].answer[d] = "FAILED" => FailureStands(d)

ShownInv ==
    \A d \in Doc : /\ data[d] = "READY" => ReadyStands(d)
                   /\ data[d] = "FAILED" => FailureStands(d)
                   /\ d \in retryingDocIds => Retries(d)

ListInv == ListTypeOK /\ AnswersInv /\ ShownInv

LEMMA ListStarts == ListInit => ListInv
<1> SUFFICES ASSUME ListInit PROVE ListInv
  OBVIOUS
<1>1. PICK s \in Slot : call = [e \in Slot |-> IF e = s THEN FetchCall ELSE NoCall]
  BY DEF ListInit, ListFresh
<1>2. FetchCall \in CallOfList /\ NoCall \in CallOfList
  BY DEF FetchCall, NoCall, CallOfList, Replies
<1>3. /\ status \in [Doc -> DocStatus]
      /\ data = [d \in Doc |-> "absent"] /\ retryingDocIds = {} /\ crossed = {} /\ relapsed = {}
  BY DEF ListInit, ListFresh, ListEmpty, DocStatus, Known
<1>4. ListTypeOK
  BY <1>1, <1>2, <1>3 DEF ListTypeOK, CallOfList, Replies
<1>5. AnswersInv
  <2> SUFFICES ASSUME NEW c \in Slot, NEW d \in Doc
               PROVE  /\ call[c].op = "list" => call[c].answer[d] = "sent"
                      /\ call[c].op # "poll" /\ call[c].answer[d] \in {"no", "sent"}
    BY DEF AnswersInv
  <2>1. /\ FetchCall.op = "list" /\ FetchCall.answer[d] = "sent"
        /\ NoCall.op = "none" /\ NoCall.answer[d] = "no"
    BY DEF FetchCall, NoCall
  <2> QED BY <1>1, <2>1
<1>6. ShownInv
  BY <1>3 DEF ShownInv
<1> QED BY <1>4, <1>5, <1>6 DEF ListInv

\* Slot c holds call "new" now: it still retries what it retried,
RetryIsKept(c, new) ==
    \A d \in Doc : call[c].op \in Retry /\ call[c].answer[d] # "no" =>
                      new.op \in Retry /\ new.answer[d] # "no"

\* what was ready or has failed stands, or is retried by it,
StatusStands(new) ==
    \A d \in Doc : /\ status[d] \in {"READY", "gone"} => status'[d] \in {"READY", "gone"}
                   /\ status[d] \in {"FAILED", "gone"} =>
                         \/ status'[d] \in {"FAILED", "gone"}
                         \/ new.op \in Retry /\ new.answer[d] # "no"

\* a status it carries is an old answer or the status of now,
AnswerIsTrue(c, new) ==
    \A d \in Doc :
       /\ new.op = "list" => new.answer[d] \in DocStatus \union {"no", "sent"}
       /\ new.op \in {"list", "poll"} /\ new.answer[d] \in DocStatus =>
             \/ new.op = call[c].op /\ new.answer[d] = call[c].answer[d]
             \/ new.answer[d] = status'[d]

\* and a document that is marked now is retried by it.
MarksAreOfTheCall(new) ==
    \A d \in retryingDocIds' : \/ d \in retryingDocIds
                               \/ new.op \in Retry /\ new.answer[d] # "no"

LEMMA CallKeeps ==
    ASSUME ListInv, NEW c \in Slot, NEW new \in CallOfList,
           call' = [call EXCEPT ![c] = new],
           RetryIsKept(c, new), StatusStands(new), AnswerIsTrue(c, new), MarksAreOfTheCall(new),
           status' \in [Doc -> DocStatus \union {"gone"}], retryingDocIds' \subseteq Doc,
           UNCHANGED <<data, crossed, relapsed>>
    PROVE  ListInv'
<1>1. /\ call'[c] = new /\ call' \in [Slot -> CallOfList]
      /\ \A e \in Slot \ {c} : call'[e] = call[e]
  BY DEF ListInv, ListTypeOK, CallOfList, Replies
<1>2. ListTypeOK'
  BY <1>1 DEF ListInv, ListTypeOK, CallOfList, Replies
<1>3. \A d \in Doc : Retries(d) => Retries(d)'
  BY <1>1 DEF RetryIsKept, Retries
<1>4. \A d \in Doc : /\ ReadyStands(d) => ReadyStands(d)'
                     /\ FailureStands(d) => FailureStands(d)'
  <2> SUFFICES ASSUME NEW d \in Doc
               PROVE  /\ ReadyStands(d) => ReadyStands(d)'
                      /\ FailureStands(d) => FailureStands(d)'
    OBVIOUS
  <2>1. new.op \in Retry /\ new.answer[d] # "no" => Retries(d)'
    BY <1>1 DEF Retries
  <2> QED BY <1>3, <2>1 DEF StatusStands, ReadyStands, FailureStands
<1>5. AnswersInv'
  <2> SUFFICES ASSUME NEW e \in Slot, NEW d \in Doc
               PROVE  /\ call'[e].op = "list" => call'[e].answer[d] \in DocStatus \union {"no", "sent"}
                      /\ call'[e].op \in {"list", "poll"} /\ call'[e].answer[d] = "READY"
                            => ReadyStands(d)'
                      /\ call'[e].op \in {"list", "poll"} /\ call'[e].answer[d] = "FAILED"
                            => FailureStands(d)'
    BY DEF AnswersInv
  <2>1. CASE e # c
    BY <1>1, <1>4, <2>1 DEF ListInv, AnswersInv
  <2>2. CASE e = c
    <3>1. "READY" \in DocStatus /\ "FAILED" \in DocStatus
      BY DEF DocStatus, Known
    <3>2. /\ status'[d] = "READY" => ReadyStands(d)'
          /\ status'[d] = "FAILED" => FailureStands(d)'
      BY DEF ReadyStands, FailureStands
    <3>3. CASE new.op = call[c].op /\ new.answer[d] = call[c].answer[d]
      BY <1>1, <1>4, <2>2, <3>3 DEF ListInv, AnswersInv
    <3>4. CASE ~(new.op = call[c].op /\ new.answer[d] = call[c].answer[d])
      BY <1>1, <2>2, <3>1, <3>2, <3>4 DEF AnswerIsTrue
    <3> QED BY <3>3, <3>4
  <2> QED BY <2>1, <2>2
<1>6. ShownInv'
  <2> SUFFICES ASSUME NEW d \in Doc
               PROVE  /\ data[d] = "READY" => ReadyStands(d)'
                      /\ data[d] = "FAILED" => FailureStands(d)'
                      /\ d \in retryingDocIds' => Retries(d)'
    BY DEF ShownInv
  <2>1. new.op \in Retry /\ new.answer[d] # "no" => Retries(d)'
    BY <1>1 DEF Retries
  <2> QED BY <1>3, <1>4, <2>1 DEF MarksAreOfTheCall, ListInv, ShownInv
<1> QED BY <1>2, <1>5, <1>6 DEF ListInv

\* A call that answers is over, and what it answered is shown; a retry is over
\* only with a mark on what it crossed.
LEMMA ArrivalKeeps ==
    ASSUME ListInv, NEW c \in Slot, call' = [call EXCEPT ![c] = NoCall],
           data' \in [Doc -> DocStatus \union {"absent"}],
           retryingDocIds' \subseteq retryingDocIds, crossed' \subseteq Doc, status' = status,
           relapsed' \subseteq relapsed,
           \A d \in Doc, s \in Settled :
              <<d, s>> \in relapsed /\ (data'[d] = s \/ Carried({c}, d, s)) =>
                 <<d, s>> \in relapsed',
           \A d \in Doc :
              /\ data'[d] = "READY" => ReadyStands(d)
              /\ data'[d] = "FAILED" => FailureStands(d)
              /\ data'[d] = "FAILED" /\ d \in crossed => d \in crossed'
              /\ CarriesFailure(c, d) /\ d \in crossed => d \in crossed'
              /\ call[c].op \in Retry /\ call[c].answer[d] # "no" =>
                    /\ d \notin retryingDocIds'
                    /\ CarriesFailure(c, d) => d \in crossed'
                    /\ data'[d] = "FAILED" => status[d] = "FAILED" \/ d \in crossed'
    PROVE  ListInv'
<1>1. NoCall \in CallOfList /\ NoCall.op = "none"
  BY DEF NoCall, CallOfList, Replies
<1>2. /\ call'[c] = NoCall /\ call' \in [Slot -> CallOfList]
      /\ \A e \in Slot \ {c} : call'[e] = call[e]
  BY <1>1 DEF ListInv, ListTypeOK, CallOfList, Replies
<1>3. ListTypeOK'
  BY <1>2 DEF ListInv, ListTypeOK, CallOfList, Replies
<1>4. \A d \in Doc : Retries(d) => Retries(d)' \/ (call[c].op \in Retry /\ call[c].answer[d] # "no")
  BY <1>2 DEF Retries
<1>5. /\ \A d \in Doc : ReadyStands(d) /\ (data'[d] = "READY" \/ Carried({c}, d, "READY")) =>
                            ReadyStands(d)'
      /\ \A d \in Doc :
            <<d, "FAILED">> \in relapsed /\ (data'[d] = "FAILED" \/ Carried({c}, d, "FAILED"))
               => <<d, "FAILED">> \in relapsed'
  BY DEF ReadyStands, Settled
<1>6. AnswersInv'
  <2> SUFFICES ASSUME NEW e \in Slot, NEW d \in Doc
               PROVE  /\ call'[e].op = "list" => call'[e].answer[d] \in DocStatus \union {"no", "sent"}
                      /\ call'[e].op \in {"list", "poll"} /\ call'[e].answer[d] = "READY"
                            => ReadyStands(d)'
                      /\ call'[e].op \in {"list", "poll"} /\ call'[e].answer[d] = "FAILED"
                            => FailureStands(d)'
    BY DEF AnswersInv
  <2>1. CASE e = c
    BY <1>1, <1>2, <2>1
  <2>2. CASE e # c
    <3>1. call'[e] = call[e]
      BY <1>2, <2>2
    <3>2. ASSUME call[e].op \in {"list", "poll"}, call[e].answer[d] = "FAILED"
          PROVE  FailureStands(d)'
      <4>1. CarriesFailure(c, d)
        BY <2>2, <3>2 DEF CarriesFailure, Carried
      <4>2. FailureStands(d)
        BY <3>2 DEF ListInv, AnswersInv
      <4> QED BY <1>4, <1>5, <4>1, <4>2 DEF FailureStands, CarriesFailure
    <3>3. ASSUME call[e].op \in {"list", "poll"}, call[e].answer[d] = "READY"
          PROVE  ReadyStands(d)'
      <4>1. Carried({c}, d, "READY")
        BY <2>2, <3>3 DEF Carried
      <4> QED BY <1>5, <3>3, <4>1 DEF ListInv, AnswersInv
    <3> QED BY <3>1, <3>2, <3>3 DEF ListInv, AnswersInv
  <2> QED BY <2>1, <2>2
<1>7. ShownInv'
  <2> SUFFICES ASSUME NEW d \in Doc
               PROVE  /\ data'[d] = "READY" => ReadyStands(d)'
                      /\ data'[d] = "FAILED" => FailureStands(d)'
                      /\ d \in retryingDocIds' => Retries(d)'
    BY DEF ShownInv
  <2>1. data'[d] = "FAILED" => FailureStands(d)'
    BY <1>4, <1>5 DEF FailureStands
  <2>2. d \in retryingDocIds' => Retries(d)'
    BY <1>4 DEF ListInv, ShownInv
  <2> QED BY <1>5, <2>1, <2>2
<1> QED BY <1>3, <1>6, <1>7 DEF ListInv

\* Calls the page makes.
LEMMA StartKeeps ==
    ASSUME ListInv, NEW c \in Slot, NEW op \in {"list"} \union OpPerDoc, NEW docs \in SUBSET Doc,
           Start(c, op, docs), op = "list" => docs = Doc, retryingDocIds' \subseteq Doc,
           retryingDocIds' \ retryingDocIds # {} => op \in Retry,
           retryingDocIds' \subseteq retryingDocIds \union docs,
           UNCHANGED <<status, data, crossed, relapsed>>
    PROVE  ListInv'
<1> DEFINE new == [op |-> op, answer |-> [d \in Doc |-> IF d \in docs THEN "sent" ELSE "no"]]
<1>1. /\ new \in CallOfList /\ new.op = op
      /\ \A d \in Doc : new.answer[d] = IF d \in docs THEN "sent" ELSE "no"
  BY DEF CallOfList, Replies
<1>2. call' = [call EXCEPT ![c] = new] /\ call[c].op = "none"
  BY DEF Start
<1> HIDE DEF new
<1>3. status \in [Doc -> DocStatus \union {"gone"}] /\ "none" \notin Retry
  BY DEF ListInv, ListTypeOK, Retry
<1>4. "sent" \notin DocStatus /\ "no" \notin DocStatus
  BY StatusIsNoNote DEF Noted
<1>5. RetryIsKept(c, new)
  BY <1>2, <1>3 DEF RetryIsKept
<1>6. StatusStands(new)
  BY DEF StatusStands, ReadyStands
<1>7. AnswerIsTrue(c, new)
  BY <1>1, <1>4 DEF AnswerIsTrue
<1>8. MarksAreOfTheCall(new)
  BY <1>1 DEF MarksAreOfTheCall
<1> QED BY <1>1, <1>2, <1>3, <1>5, <1>6, <1>7, <1>8, CallKeeps

\* One document of a call is answered.
LEMMA ReplyKeeps ==
    ASSUME ListInv, NEW c \in Slot, NEW d \in Doc, NEW reply \in Replies, Reply(c, d, reply),
           call[c].op \in OpPerDoc, reply # "no",
           status' \in [Doc -> DocStatus \union {"gone"}],
           \A e \in Doc :
              /\ status[e] \in {"READY", "gone"} => status'[e] \in {"READY", "gone"}
              /\ status[e] \in {"FAILED", "gone"} =>
                    status'[e] \in {"FAILED", "gone"} \/ (e = d /\ call[c].op \in Retry),
           reply \in DocStatus => reply = status'[d],
           UNCHANGED <<data, retryingDocIds, crossed, relapsed>>
    PROVE  ListInv'
<1> DEFINE answers == [call[c].answer EXCEPT ![d] = reply]
           new == [op |-> call[c].op, answer |-> answers]
<1>1. call[c] \in CallOfList /\ call \in [Slot -> CallOfList]
  BY DEF ListInv, ListTypeOK, CallOfList, Replies
<1>2. /\ answers \in [Doc -> Replies] /\ answers[d] = reply
      /\ \A e \in Doc \ {d} : answers[e] = call[c].answer[e]
  BY <1>1 DEF CallOfList
<1>3. new \in CallOfList /\ new.op = call[c].op /\ new.answer = answers
  BY <1>1, <1>2 DEF CallOfList
<1>4. call' = [call EXCEPT ![c] = new]
  <2>1. [call[c] EXCEPT !.answer = answers] = new
    BY <1>1 DEF CallOfList
  <2>2. call' = [call EXCEPT ![c] = [call[c] EXCEPT !.answer = answers]]
    BY DEF Reply
  <2> QED BY <2>1, <2>2
<1> HIDE DEF new, answers
<1>5. RetryIsKept(c, new)
  BY <1>2, <1>3 DEF RetryIsKept
<1>6. StatusStands(new)
  BY <1>2, <1>3 DEF StatusStands
<1>7. AnswerIsTrue(c, new)
  <2>1. new.op # "list"
    BY <1>3 DEF OpPerDoc
  <2> QED BY <1>2, <1>3, <2>1 DEF AnswerIsTrue
<1>8. MarksAreOfTheCall(new)
  BY DEF MarksAreOfTheCall
<1>9. retryingDocIds' \subseteq Doc
  BY DEF ListInv, ListTypeOK
<1> QED BY <1>3, <1>4, <1>5, <1>6, <1>7, <1>8, <1>9, CallKeeps

LEMMA ServeDocKeeps ==
    ASSUME ListInv, NEW c \in Slot, NEW d \in Doc, ServeDoc(c, d)
    PROVE  ListInv'
<1>1. /\ call[c].op \in OpPerDoc /\ UNCHANGED <<data, retryingDocIds, crossed, relapsed>>
      /\ status \in [Doc -> DocStatus \union {"gone"}]
      /\ {"ok", "failed"} \subseteq Replies /\ "ok" \notin DocStatus /\ "failed" \notin DocStatus
  BY StatusIsNoNote DEF ServeDoc, ListInv, ListTypeOK, Replies, Noted
<1>2. ASSUME call[c].op \in Retry, status[d] = "FAILED", NEW reply \in {"ok", "failed"},
             Reply(c, d, reply),
             NEW new \in {"PROCESSING", "READY"}, status' = [status EXCEPT ![d] = new]
      PROVE  ListInv'
  <2>1. /\ status' \in [Doc -> DocStatus \union {"gone"}] /\ status'[d] = new
        /\ \A e \in Doc \ {d} : status'[e] = status[e]
    BY <1>1, <1>2 DEF DocStatus, Known
  <2>2. \A e \in Doc :
           /\ status[e] \in {"READY", "gone"} => status'[e] \in {"READY", "gone"}
           /\ status[e] \in {"FAILED", "gone"} =>
                 status'[e] \in {"FAILED", "gone"} \/ (e = d /\ call[c].op \in Retry)
    BY <1>2, <2>1
  <2> QED BY <1>1, <1>2, <2>1, <2>2, ReplyKeeps
<1>3. ASSUME NEW reply \in {"ok", "failed"}, Reply(c, d, reply),
             status' = [status EXCEPT ![d] = "gone"]
      PROVE  ListInv'
  <2>1. /\ status' \in [Doc -> DocStatus \union {"gone"}] /\ status'[d] = "gone"
        /\ \A e \in Doc \ {d} : status'[e] = status[e]
    BY <1>1, <1>3
  <2>2. \A e \in Doc :
           /\ status[e] \in {"READY", "gone"} => status'[e] \in {"READY", "gone"}
           /\ status[e] \in {"FAILED", "gone"} =>
                 status'[e] \in {"FAILED", "gone"} \/ (e = d /\ call[c].op \in Retry)
    BY <2>1 DEF ReadyStands
  <2> QED BY <1>1, <1>3, <2>1, <2>2, ReplyKeeps
<1>4. ASSUME Reply(c, d, "failed"), status' = status PROVE ListInv'
  <2>1. \A e \in Doc : status[e] \in {"READY", "gone"} => status'[e] \in {"READY", "gone"}
    BY <1>4 DEF ReadyStands
  <2> QED BY <1>1, <1>4, <2>1, ReplyKeeps
<1> QED BY <1>2, <1>3, <1>4 DEF ServeDoc, Becomes

LEMMA ReadStatusKeeps ==
    ASSUME ListInv, NEW c \in Slot, NEW d \in Doc, ReadStatus(c, d)
    PROVE  ListInv'
<1>1. /\ call[c].op = "poll" /\ Reply(c, d, status[d])
      /\ UNCHANGED <<status, data, retryingDocIds, crossed, relapsed>>
      /\ status \in [Doc -> DocStatus \union {"gone"}] /\ status[d] \in DocStatus
  BY DEF ReadStatus, ListInv, ListTypeOK
<1>2. status[d] \in Replies /\ status[d] # "no" /\ call[c].op \in OpPerDoc
  BY <1>1, StatusIsNoNote DEF Replies, OpPerDoc, Noted
<1>3. \A e \in Doc : status[e] \in {"READY", "gone"} => status'[e] \in {"READY", "gone"}
  BY <1>1 DEF ReadyStands
<1> QED BY <1>1, <1>2, <1>3, ReplyKeeps

LEMMA ServeListKeeps ==
    ASSUME ListInv, NEW c \in Slot, ServeList(c)
    PROVE  ListInv'
<1> DEFINE answers == [d \in Doc |-> IF status[d] = "gone" THEN "no" ELSE status[d]]
           new == [op |-> "list", answer |-> answers]
<1>1. /\ call[c].op = "list" /\ call[c] \in CallOfList
      /\ status \in [Doc -> DocStatus \union {"gone"}] /\ retryingDocIds \subseteq Doc
      /\ UNCHANGED <<status, data, retryingDocIds, crossed, relapsed>>
  BY DEF ServeList, ListInv, ListTypeOK, CallOfList, Replies
<1>2. /\ answers \in [Doc -> Replies]
      /\ \A d \in Doc : /\ answers[d] \in DocStatus \union {"no"}
                        /\ answers[d] \in DocStatus => answers[d] = status[d]
  BY <1>1, StatusIsNoNote DEF Replies, Noted
<1>3. new \in CallOfList /\ new.op = "list" /\ new.answer = answers
  BY <1>2 DEF CallOfList
<1>4. call' = [call EXCEPT ![c] = new]
  <2>1. [call[c] EXCEPT !.answer = answers] = new
    BY <1>1 DEF CallOfList
  <2>2. call' = [call EXCEPT ![c] = [call[c] EXCEPT !.answer = answers]]
    BY DEF ServeList
  <2> QED BY <2>1, <2>2
<1> HIDE DEF new, answers
<1>5. RetryIsKept(c, new)
  BY <1>1 DEF RetryIsKept, Retry
<1>6. StatusStands(new)
  BY <1>1 DEF StatusStands, ReadyStands
<1>7. AnswerIsTrue(c, new)
  BY <1>1, <1>2, <1>3 DEF AnswerIsTrue
<1>8. MarksAreOfTheCall(new)
  BY <1>1 DEF MarksAreOfTheCall
<1> QED BY <1>1, <1>3, <1>4, <1>5, <1>6, <1>7, <1>8, CallKeeps

\* What goes out of the history is neither shown nor on its way.
LEMMA StaleKeeps ==
    ASSUME NEW c \in Slot, StaleEnds(c)
    PROVE  /\ relapsed' \subseteq relapsed
           /\ \A d \in Doc, s \in Settled :
                 <<d, s>> \in relapsed /\ (data'[d] = s \/ Carried({c}, d, s)) =>
                    <<d, s>> \in relapsed'
  BY DEF StaleEnds

LEMMA ListArrivesKeeps ==
    ASSUME ListInv, NEW c \in Slot, ListArrives(c) \/ PollArrives(c)
    PROVE  ListInv'
<1>1. /\ call[c].op \in {"list", "poll"} /\ call' = [call EXCEPT ![c] = NoCall]
      /\ crossed' = {d \in crossed : data'[d] = "FAILED" \/ CarriesFailure(c, d)}
      /\ StaleEnds(c) /\ UNCHANGED <<status, retryingDocIds>>
      /\ data \in [Doc -> DocStatus \union {"absent"}] /\ crossed \subseteq Doc
  BY DEF ListArrives, PollArrives, CrossingsEnd, ListInv, ListTypeOK
<1>2. ASSUME NEW d \in Doc
      PROVE  data'[d] \in {data[d], call[c].answer[d]} \union {"absent"}
  BY <1>2 DEF ListArrives, PollArrives
<1>3. data' \in [Doc -> DocStatus \union {"absent"}]
  <2>1. CASE ListArrives(c)
    <3>1. \A d \in Doc : call[c].answer[d] \in DocStatus \union {"no"}
      BY <2>1 DEF ListArrives, Answered, ListInv, AnswersInv
    <3> QED BY <2>1, <3>1 DEF ListArrives
  <2>2. CASE PollArrives(c)
    BY <1>1, <2>2 DEF PollArrives
  <2> QED BY <2>1, <2>2
<1>4. \A d \in Doc : /\ data'[d] = "READY" => ReadyStands(d)
                     /\ data'[d] = "FAILED" => FailureStands(d)
  BY <1>1, <1>2 DEF ListInv, AnswersInv, ShownInv
<1>5. "list" \notin Retry /\ "poll" \notin Retry
  BY DEF Retry
<1> QED BY <1>1, <1>3, <1>4, <1>5, StaleKeeps, ArrivalKeeps

LEMMA RetryArrivesKeeps ==
    ASSUME ListInv, NEW c \in Slot, RetryArrives(c)
    PROVE  ListInv'
<1> DEFINE docs == {d \in Doc : call[c].answer[d] # "no"}
           taken == IF call[c].op = "batchRetry" THEN docs
                    ELSE {d \in docs : call[c].answer[d] = "ok"}
<1>1. /\ call' = [call EXCEPT ![c] = NoCall] /\ status' = status
      /\ data' = [d \in Doc |-> IF data[d] # "absent" /\ d \in taken
                                THEN "PROCESSING" ELSE data[d]]
      /\ retryingDocIds' = retryingDocIds \ docs
      /\ crossed' = crossed \union {d \in docs : CarriesFailure(c, d)}
                            \union {d \in docs \ taken : status[d] # "FAILED"}
      /\ StaleEnds(c)
  BY DEF RetryArrives
<1>2. /\ data \in [Doc -> DocStatus \union {"absent"}] /\ crossed \subseteq Doc
      /\ taken \subseteq docs /\ docs \subseteq Doc
  BY DEF ListInv, ListTypeOK
<1> HIDE DEF taken
<1>3. data' \in [Doc -> DocStatus \union {"absent"}] /\ crossed' \subseteq Doc
  BY <1>1, <1>2 DEF DocStatus, Known
<1>4. \A d \in Doc : /\ data'[d] \in {data[d], "PROCESSING"}
                     /\ d \in taken => data'[d] # "FAILED"
  BY <1>1, <1>2
<1>5. \A d \in Doc : /\ data'[d] = "READY" => ReadyStands(d)
                     /\ data'[d] = "FAILED" => FailureStands(d)
  BY <1>4 DEF ListInv, ShownInv
<1>6. \A d \in Doc :
         call[c].op \in Retry /\ call[c].answer[d] # "no" =>
            /\ d \notin retryingDocIds'
            /\ CarriesFailure(c, d) => d \in crossed'
            /\ data'[d] = "FAILED" => status[d] = "FAILED" \/ d \in crossed'
  BY <1>1, <1>4
<1> QED BY <1>1, <1>3, <1>5, <1>6, StaleKeeps, ArrivalKeeps

\* What the service takes back is on record while it is shown, or on its way.
LEMMA ListedMovesKeeps ==
    ASSUME ListInv, NEW d \in Doc, ListedMoves(d)
    PROVE  ListInv'
<1> DEFINE old == status[d]
           Seen(e, s) == data[e] = s \/ Carried({}, e, s)
<1>1. PICK new \in DocStatus : old \in DocStatus /\ status' = [status EXCEPT ![d] = new]
  BY ServiceWrites DEF ListedMoves
<1>2. /\ relapsed' = (relapsed \union IF old \in Settled /\ Seen(d, old)
                                       THEN {<<d, old>>} ELSE {}) \ {<<d, status'[d]>>}
      /\ UNCHANGED <<data, retryingDocIds, call, crossed>>
      /\ status \in [Doc -> DocStatus \union {"gone"}] /\ relapsed \subseteq Doc \X Settled
  BY DEF ListedMoves, ListInv, ListTypeOK
<1>3. /\ status' \in [Doc -> DocStatus \union {"gone"}] /\ status'[d] = new
      /\ \A e \in Doc \ {d} : status'[e] = status[e]
  BY <1>1, <1>2
<1>4. old # "gone"
  BY <1>1, StatusIsNoNote DEF Noted
<1>5. /\ relapsed' \subseteq Doc \X Settled
      /\ \A e \in Doc, s \in Settled : <<e, s>> \in relapsed => <<e, s>> \in relapsed' \/ status'[e] = s
      /\ \A s \in Settled : old = s /\ Seen(d, s) => <<d, s>> \in relapsed' \/ status'[d] = s
  <2> HIDE DEF Seen
  <2> QED BY <1>2, <1>3
<1>6. ASSUME NEW e \in Doc
      PROVE  /\ Retries(e)' <=> Retries(e)
             /\ ReadyStands(e) /\ Seen(e, "READY") => ReadyStands(e)'
             /\ FailureStands(e) /\ Seen(e, "FAILED") => FailureStands(e)'
  <2> HIDE DEF Seen
  <2>1. Retries(e)' <=> Retries(e)
    BY <1>2 DEF Retries
  <2>2. CASE e # d
    BY <1>2, <1>3, <1>5, <2>1, <2>2 DEF ReadyStands, FailureStands, Settled
  <2>3. CASE e = d
    BY <1>2, <1>4, <1>5, <2>1, <2>3 DEF ReadyStands, FailureStands, Settled
  <2> QED BY <2>1, <2>2, <2>3
<1>7. ListTypeOK'
  BY <1>2, <1>3, <1>5 DEF ListInv, ListTypeOK
<1>8. AnswersInv'
  <2>1. \A c \in Slot, e \in Doc, s \in Settled :
           call[c].op \in {"list", "poll"} /\ call[c].answer[e] = s => Seen(e, s)
    BY DEF Carried
  <2> HIDE DEF Seen
  <2> QED BY <1>2, <1>6, <2>1 DEF ListInv, AnswersInv, Settled
<1>9. ShownInv'
  <2>1. \A e \in Doc, s \in Settled : data[e] = s => Seen(e, s)
    OBVIOUS
  <2> HIDE DEF Seen
  <2> QED BY <1>2, <1>6, <2>1 DEF ListInv, ShownInv, Settled
<1> QED BY <1>7, <1>8, <1>9 DEF ListInv

LEMMA ListGoesOnSo == ListInv /\ [ListNext]_listVars => ListInv'
<1> SUFFICES ASSUME ListInv, [ListNext]_listVars PROVE ListInv'
  OBVIOUS
<1>0. /\ retryingDocIds \subseteq Doc /\ status \in [Doc -> DocStatus \union {"gone"}]
      /\ data \in [Doc -> DocStatus \union {"absent"}] /\ crossed \subseteq Doc
      /\ {"poll", "retry", "batchRetry", "delete"} = OpPerDoc
      /\ Retry = {"retry", "batchRetry"}
  BY DEF ListInv, ListTypeOK, OpPerDoc, Retry
<1>1. ASSUME NEW c \in Slot, RefreshList(c) \/ ShowSpace(c) PROVE ListInv'
  BY <1>0, <1>1, StartKeeps DEF RefreshList, ShowSpace, FetchDocs
<1>2. ASSUME NEW c \in Slot, PollTick(c) PROVE ListInv'
  <2> DEFINE docs == {d \in Doc : data[d] \in Polled}
  <2>1. Start(c, "poll", docs) /\ UNCHANGED <<status, data, retryingDocIds, crossed, relapsed>>
    BY <1>2 DEF PollTick
  <2> QED BY <1>0, <2>1, StartKeeps
<1>3. ASSUME NEW c \in Slot, NEW selected \in SUBSET Doc, BatchRetry(c, selected) PROVE ListInv'
  <2> DEFINE failed == {d \in selected : data[d] = "FAILED"}
  <2>1. /\ Start(c, "batchRetry", failed) /\ retryingDocIds' = retryingDocIds \union failed
        /\ UNCHANGED <<status, data, crossed, relapsed>>
    BY <1>3 DEF BatchRetry
  <2> QED BY <1>0, <2>1, StartKeeps
<1>4. ASSUME NEW c \in Slot, NEW selected \in SUBSET Doc, HandleBatchDelete(c, selected)
      PROVE  ListInv'
  <2>1. /\ Start(c, "delete", selected \intersect Listed)
        /\ UNCHANGED <<status, data, retryingDocIds, crossed, relapsed>>
    BY <1>4 DEF HandleBatchDelete
  <2> QED BY <1>0, <2>1, StartKeeps
<1>5. ASSUME NEW c \in Slot, NEW d \in Doc, HandleRetry(c, d) \/ HandleDelete(c, d)
      PROVE  ListInv'
  <2>1. \/ /\ Start(c, "retry", {d}) /\ retryingDocIds' = retryingDocIds \union {d}
           /\ UNCHANGED <<status, data, crossed, relapsed>>
        \/ /\ Start(c, "delete", {d})
           /\ UNCHANGED <<status, data, retryingDocIds, crossed, relapsed>>
    BY <1>5 DEF HandleRetry, HandleDelete
  <2> QED BY <1>0, <2>1, StartKeeps
<1>6. ASSUME NEW c \in Slot, ServeList(c) PROVE ListInv'
  BY <1>6, ServeListKeeps
<1>7. ASSUME NEW c \in Slot, NEW d \in Doc, ReadStatus(c, d) \/ ServeDoc(c, d) PROVE ListInv'
  BY <1>7, ReadStatusKeeps, ServeDocKeeps
<1>8. ASSUME NEW c \in Slot, ListFails(c) PROVE ListInv'
  <2>1. /\ call[c].op = "list" /\ call' = [call EXCEPT ![c] = NoCall]
        /\ UNCHANGED <<status, data, retryingDocIds, crossed, relapsed>>
    BY <1>8 DEF ListFails
  <2>2. call[c].op \notin Retry
    BY <1>0, <2>1
  <2> QED BY <1>0, <2>1, <2>2, ArrivalKeeps DEF ListInv, ShownInv
<1>9. ASSUME NEW c \in Slot, PageHandles(c) PROVE ListInv'
  <2>1. CASE DeleteArrives(c)
    <3>1. PICK new \in {NoCall, FetchCall} : call' = [call EXCEPT ![c] = new]
      BY <2>1 DEF DeleteArrives
    <3>2. /\ call[c].op = "delete" /\ UNCHANGED <<status, data, retryingDocIds, crossed, relapsed>>
      BY <2>1 DEF DeleteArrives
    <3>3. /\ new \in CallOfList /\ new.op \in {"none", "list"}
          /\ \A d \in Doc : new.answer[d] \in {"no", "sent"}
      BY DEF NoCall, FetchCall, CallOfList, Replies
    <3>4. "no" \notin DocStatus /\ "sent" \notin DocStatus /\ "delete" \notin Retry
      BY <1>0, StatusIsNoNote DEF Noted
    <3>5. RetryIsKept(c, new)
      BY <3>2, <3>4 DEF RetryIsKept
    <3>6. StatusStands(new)
      BY <3>2 DEF StatusStands, ReadyStands
    <3>7. AnswerIsTrue(c, new)
      BY <3>3, <3>4 DEF AnswerIsTrue
    <3>8. MarksAreOfTheCall(new)
      BY <3>2 DEF MarksAreOfTheCall
    <3> QED BY <1>0, <3>1, <3>2, <3>3, <3>5, <3>6, <3>7, <3>8, CallKeeps
  <2>2. CASE ListArrives(c) \/ PollArrives(c)
    BY <2>2, ListArrivesKeeps
  <2>3. CASE RetryArrives(c)
    BY <2>3, RetryArrivesKeeps
  <2> QED BY <1>9, <2>1, <2>2, <2>3 DEF PageHandles
<1>10. ASSUME NEW d \in Doc, ListedMoves(d) PROVE ListInv'
  BY <1>10, ListedMovesKeeps
<1>11. CASE UNCHANGED listVars
  BY <1>11 DEF listVars, listPageVars, ListInv, ListTypeOK, AnswersInv, ShownInv, Retries,
               ReadyStands, FailureStands
<1> QED
  BY <1>1, <1>2, <1>3, <1>4, <1>5, <1>6, <1>7, <1>8, <1>9, <1>10, <1>11 DEF ListNext

LEMMA ListInvImplies == ASSUME ListInv PROVE ListIsTrue
<1>1. ReadyIsReal /\ FailedIsReal
  BY DEF ListInv, ShownInv, ReadyIsReal, FailedIsReal, ReadyStands, FailureStands, Retries
<1>2. RetryingHasCall
  BY DEF ListInv, ListTypeOK, ShownInv, RetryingHasCall, Retries
<1> QED BY <1>1, <1>2 DEF ListIsTrue

\* What the list says of a document was true when the last call about it ended,
\* and is not now only if the service has begun with the document again since:
\* the fetches, the polls, retries and deletions of documents/list, against any
\* stage of the processor and any repeated message.
THEOREM ListStaysTrue == ListSpec => []ListIsTrue
<1>1. ListInv => ListIsTrue
  BY ListInvImplies
<1> QED BY <1>1, ListStarts, ListGoesOnSo, PTL DEF ListSpec

-----------------------------------------------------------------------------
(* The views of a document (DocumentViews)                                 *)

CallTuple == Doc \X (1 .. MaxCalls) \X Kinds \X (DocStatus \union {"sent", "READ"})

\* The kinds of calls of a view, and what answers them.
CallsInv ==
    /\ \A d \in Doc : status[d] \in DocStatus
    /\ \A c \in calls : /\ c[3] = "status" => c[4] # "READ"
                        /\ view # "preview" => c[3] = "status"

\* An open view has calls for its own document, the others are older than its
\* opening; only the preview holds a file.
OpenedInv ==
    /\ opened # NoDoc =>
          /\ \A c \in calls : c[1] \in {opened} \union late
          /\ {shownDoc, blobDoc} \subseteq {opened, NoDoc} \union late
    /\ view # "preview" => blobDoc = NoDoc
    /\ view = "page" /\ opened = NoDoc => calls = {}
    /\ view = "dialog" /\ opened = NoDoc => ~polling

\* A dialog without an interval waits for no answer of its own opening.
FollowInv ==
    view = "dialog" /\ opened # NoDoc /\ ~mixed =>
        /\ shownStatus \in Polled => polling
        /\ ~polling => \A c \in calls : c[1] \in late

ViewsInv == ViewTypeOK /\ CallsInv /\ OpenedInv /\ FollowInv

LEMMA ViewsStart == ViewInit => ViewsInv
<1> SUFFICES ASSUME ViewInit PROVE ViewsInv
  OBVIOUS
<1>1. /\ view \in {"dialog", "preview", "page"} /\ opened = NoDoc /\ polling = FALSE
      /\ shownDoc = NoDoc /\ shownStatus = "none" /\ blobDoc = NoDoc
      /\ cancelled = FALSE /\ calls = {} /\ late = {} /\ mixed = FALSE
      /\ status \in [Doc -> {"DRAFT", "PROCESSING"}]
  BY DEF ViewInit, ViewFresh
<1>2. status \in [Doc -> DocStatus]
  BY <1>1 DEF DocStatus, Known
<1>3. ViewTypeOK
  BY <1>1, <1>2 DEF ViewTypeOK
<1>4. CallsInv /\ OpenedInv /\ FollowInv
  BY <1>1, <1>2 DEF CallsInv, OpenedInv, FollowInv
<1> QED BY <1>3, <1>4 DEF ViewsInv

\* A new call is for its document, and nobody has answered it yet.
LEMMA AskedIsSent ==
    ASSUME NEW d \in Doc, NEW kind \in Kinds, NEW c \in Asked(d, kind)
    PROVE  c \in CallTuple /\ c[1] = d /\ c[3] = kind /\ c[4] = "sent"
<1>1. Free(d) # {} /\ c = <<d, CHOOSE n \in Free(d) : TRUE, kind, "sent">>
  BY DEF Asked
<1>2. (CHOOSE n \in Free(d) : TRUE) \in 1 .. MaxCalls
  BY <1>1 DEF Free
<1> QED BY <1>1, <1>2 DEF CallTuple

\* Another call for the opened document, of the kind of the view.
LEMMA TicksKeep ==
    ASSUME ViewsInv, opened # NoDoc, view # "preview",
           NEW c \in Asked(opened, "status"), calls' = calls \union {c},
           view = "dialog" => polling,
           UNCHANGED <<view, status, opened, polling, shownDoc, shownStatus, blobDoc,
                       cancelled, late, mixed>>
    PROVE  ViewsInv'
<1>1. opened \in Doc /\ "status" \in Kinds
  BY DEF ViewsInv, ViewTypeOK, Kinds
<1>2. c \in CallTuple /\ c[1] = opened /\ c[3] = "status" /\ c[4] = "sent"
  BY <1>1, AskedIsSent
<1>3. ViewTypeOK'
  BY <1>2 DEF ViewsInv, ViewTypeOK, CallTuple
<1>4. CallsInv' /\ OpenedInv'
  BY <1>2 DEF ViewsInv, CallsInv, OpenedInv
<1>5. FollowInv'
  BY DEF ViewsInv, FollowInv
<1> QED BY <1>3, <1>4, <1>5 DEF ViewsInv

LEMMA DialogOpens ==
    ASSUME ViewsInv, NEW d \in Doc, OpenDialog(d)
    PROVE  ViewsInv'
<1>0. ViewTypeOK /\ d # NoDoc
  BY DocumentServiceAssumption DEF ViewsInv
<1>1. /\ view = "dialog" /\ opened' = d /\ shownDoc' = d /\ late' = WithCalls
      /\ shownStatus' \in DocStatus /\ mixed' = FALSE
      /\ polling' = (shownStatus' \in Polled)
      /\ UNCHANGED <<view, status, blobDoc, cancelled>>
  BY DEF OpenDialog, Inferred, DocStatus, Known
<1>2. polling' \in BOOLEAN /\ (shownStatus' \in Polled <=> polling')
  <2>1. polling' = (shownStatus' \in Polled)
    BY DEF OpenDialog
  <2>2. CASE shownStatus' \in Polled
    BY <2>1, <2>2
  <2>3. CASE shownStatus' \notin Polled
    <3>1. (shownStatus' \in Polled) = FALSE
      BY <2>3
    <3>2. polling' = FALSE
      BY <2>1, <3>1
    <3> QED BY <2>3, <3>2
  <2> QED BY <2>2, <2>3
<1>3. PICK new \in SUBSET CallTuple :
         /\ calls' = calls \union new /\ (~polling' => new = {})
         /\ \A c \in new : c[1] = d /\ c[3] = "status" /\ c[4] = "sent"
  <2>1. CASE polling'
    <3>1. PICK c \in Asked(d, "status") : calls' = calls \union {c}
      BY <2>1 DEF OpenDialog
    <3>2. c \in CallTuple /\ c[1] = d /\ c[3] = "status" /\ c[4] = "sent"
      BY AskedIsSent DEF Kinds
    <3>3. {c} \in SUBSET CallTuple
      BY <3>2
    <3> QED BY <2>1, <3>1, <3>2, <3>3
  <2>2. CASE ~polling'
    <3>1. calls' = calls \union {} /\ {} \in SUBSET CallTuple
      BY <2>2 DEF OpenDialog
    <3> QED BY <2>2, <3>1
  <2> QED BY <2>1, <2>2
<1>4. \A c \in calls : c[1] \in Doc /\ c[1] \in WithCalls
  BY <1>0 DEF ViewTypeOK, WithCalls
<1>5. WithCalls \subseteq Doc
  BY <1>4 DEF WithCalls
<1>6. ViewTypeOK'
  <2>1. calls' \subseteq CallTuple
    BY <1>0, <1>3 DEF ViewTypeOK, CallTuple
  <2> QED BY <1>0, <1>1, <1>2, <1>5, <2>1 DEF ViewTypeOK, CallTuple
<1>7. CallsInv'
  BY <1>1, <1>3 DEF ViewsInv, CallsInv
<1>8. OpenedInv'
  BY <1>0, <1>1, <1>3, <1>4 DEF ViewsInv, OpenedInv
<1>9. FollowInv'
  BY <1>1, <1>2, <1>3, <1>4 DEF FollowInv
<1> QED BY <1>6, <1>7, <1>8, <1>9 DEF ViewsInv

LEMMA PreviewOpens ==
    ASSUME ViewsInv, NEW d \in Doc, OpenPreview(d)
    PROVE  ViewsInv'
<1>0. ViewTypeOK /\ d # NoDoc
  BY DocumentServiceAssumption DEF ViewsInv
<1>1. /\ view = "preview" /\ opened' = d /\ cancelled' = FALSE
      /\ shownDoc' = NoDoc /\ shownStatus' = "none" /\ blobDoc' = NoDoc
      /\ late' = WithCalls /\ UNCHANGED <<view, status, polling, mixed>>
  BY DEF OpenPreview
<1>2. PICK c \in Asked(d, "link") : calls' = calls \union {c}
  BY DEF OpenPreview
<1>3. c \in CallTuple /\ c[1] = d /\ c[3] = "link" /\ c[4] = "sent"
  BY AskedIsSent DEF Kinds
<1>4. \A e \in calls : e[1] \in Doc /\ e[1] \in WithCalls
  BY <1>0 DEF ViewTypeOK, WithCalls
<1>5. WithCalls \subseteq Doc
  BY <1>4 DEF WithCalls
<1>6. ViewTypeOK'
  <2>1. calls' \subseteq CallTuple
    BY <1>0, <1>2, <1>3 DEF ViewTypeOK, CallTuple
  <2> QED BY <1>0, <1>1, <1>5, <2>1 DEF ViewTypeOK, CallTuple
<1>7. CallsInv' /\ OpenedInv' /\ FollowInv'
  BY <1>1, <1>2, <1>3, <1>4 DEF ViewsInv, CallsInv, OpenedInv, FollowInv
<1> QED BY <1>6, <1>7 DEF ViewsInv

LEMMA PageOpens ==
    ASSUME ViewsInv, NEW d \in Doc, OpenPage(d)
    PROVE  ViewsInv'
<1>1. /\ view = "page" /\ opened = NoDoc /\ opened' = d /\ shownDoc' = d
      /\ shownStatus' = status[d] /\ status[d] \in DocStatus
      /\ UNCHANGED <<view, status, polling, blobDoc, cancelled, calls, late, mixed>>
  BY DEF OpenPage, ViewsInv, CallsInv
<1>2. ViewTypeOK'
  BY <1>1 DEF ViewsInv, ViewTypeOK
<1>3. CallsInv' /\ OpenedInv' /\ FollowInv'
  BY <1>1 DEF ViewsInv, CallsInv, OpenedInv, FollowInv
<1> QED BY <1>2, <1>3 DEF ViewsInv

LEMMA ViewCloses ==
    ASSUME ViewsInv, CloseDialog \/ ClosePreview
    PROVE  ViewsInv'
<1>1. /\ view # "page" /\ opened' = NoDoc /\ polling' \in BOOLEAN /\ cancelled' \in BOOLEAN
      /\ UNCHANGED <<view, status, shownDoc, shownStatus, blobDoc, calls, late, mixed>>
  BY DEF CloseDialog, ClosePreview, StopPolling, ViewsInv, ViewTypeOK
<1>2. view = "dialog" => ~polling'
  BY DEF CloseDialog, ClosePreview, StopPolling
<1>3. ViewTypeOK'
  BY <1>1 DEF ViewsInv, ViewTypeOK
<1>4. CallsInv' /\ OpenedInv' /\ FollowInv'
  BY <1>1, <1>2 DEF ViewsInv, CallsInv, OpenedInv, FollowInv
<1> QED BY <1>3, <1>4 DEF ViewsInv

\* A call goes on, or ends, and the view with it.
LEMMA CallsGoOn ==
    ASSUME ViewsInv, NEW c \in calls, NEW new \in SUBSET CallTuple,
           calls' = (calls \ {c}) \union new,
           \A e \in new : /\ e[1] = c[1]
                          /\ e[3] = "status" => e[4] # "READ"
                          /\ view # "preview" => e[3] = "status",
           shownDoc' \in {shownDoc, c[1]}, blobDoc' \in {blobDoc, c[1]},
           view # "preview" => blobDoc' = blobDoc,
           shownStatus' \in DocStatus \union {"none", "error"}, polling' \in BOOLEAN,
           polling' => polling, mixed' \in BOOLEAN,
           UNCHANGED <<view, status, opened, cancelled, late>>,
           view = "dialog" /\ opened # NoDoc /\ ~mixed' =>
              /\ shownStatus' \in Polled => polling'
              /\ ~polling' => \A e \in calls' : e[1] \in late
    PROVE  ViewsInv'
<1>1. c \in CallTuple /\ c[1] \in Doc
  BY DEF ViewsInv, ViewTypeOK, CallTuple
<1>2. ViewTypeOK'
  <2>1. calls' \subseteq CallTuple
    BY DEF ViewsInv, ViewTypeOK, CallTuple
  <2>2. {opened', shownDoc', blobDoc'} \subseteq Doc \union {NoDoc}
    BY <1>1 DEF ViewsInv, ViewTypeOK
  <2> QED BY <2>1, <2>2 DEF ViewsInv, ViewTypeOK, CallTuple
<1>3. CallsInv'
  BY DEF ViewsInv, CallsInv
<1>4. OpenedInv'
  BY DEF ViewsInv, OpenedInv
<1>5. FollowInv'
  BY DEF FollowInv
<1> QED BY <1>2, <1>3, <1>4, <1>5 DEF ViewsInv

LEMMA CallServedKeeps ==
    ASSUME ViewsInv, NEW c \in calls, CallServed(c)
    PROVE  ViewsInv'
<1> DEFINE e == <<c[1], c[2], c[3], IF c[3] = "status" THEN status[c[1]] ELSE "READ">>
<1>1. c \in CallTuple /\ status[c[1]] \in DocStatus
  BY DEF ViewsInv, ViewTypeOK, CallsInv, CallTuple
<1>2. /\ e \in CallTuple /\ e[1] = c[1] /\ e[3] = c[3]
      /\ e[3] = "status" => e[4] = status[c[1]]
  BY <1>1 DEF CallTuple
<1>3. "READ" \notin DocStatus
  BY StatusIsNoNote DEF Noted
<1>4. /\ calls' = (calls \ {c}) \union {e}
      /\ UNCHANGED <<view, status, opened, polling, shownDoc, shownStatus, blobDoc,
                     cancelled, late, mixed>>
  BY DEF CallServed
<1> HIDE DEF e
<1>5. \A x \in {e} : /\ x[1] = c[1]
                     /\ x[3] = "status" => x[4] # "READ"
                     /\ view # "preview" => x[3] = "status"
  BY <1>1, <1>2, <1>3 DEF ViewsInv, CallsInv
<1>6. view = "dialog" /\ opened # NoDoc /\ ~mixed' =>
         /\ shownStatus' \in Polled => polling'
         /\ ~polling' => \A x \in calls' : x[1] \in late
  BY <1>2, <1>4 DEF ViewsInv, FollowInv
<1>7. /\ shownStatus \in DocStatus \union {"none", "error"} /\ polling \in BOOLEAN
      /\ mixed \in BOOLEAN
  BY DEF ViewsInv, ViewTypeOK
<1>8. {e} \in SUBSET CallTuple
  BY <1>2
<1> QED BY <1>4, <1>5, <1>6, <1>7, <1>8, CallsGoOn

LEMMA CallFailsKeeps ==
    ASSUME ViewsInv, NEW c \in calls, CallFails(c)
    PROVE  ViewsInv'
<1>1. /\ calls' = (calls \ {c}) \union {} /\ {} \in SUBSET CallTuple
      /\ UNCHANGED <<view, status, opened, polling, shownDoc, blobDoc, cancelled, late, mixed>>
  BY DEF CallFails
<1>2. shownStatus' \in {shownStatus, "error"}
  BY DEF CallFails
<1>3. view = "dialog" => shownStatus' = shownStatus
  BY DEF CallFails, ViewsInv, CallsInv
<1>4. /\ shownStatus \in DocStatus \union {"none", "error"} /\ polling \in BOOLEAN
      /\ mixed \in BOOLEAN
  BY DEF ViewsInv, ViewTypeOK
<1>5. view = "dialog" /\ opened # NoDoc /\ ~mixed' =>
         /\ shownStatus' \in Polled => polling'
         /\ ~polling' => \A x \in calls' : x[1] \in late
  BY <1>1, <1>3 DEF ViewsInv, FollowInv
<1>6. shownStatus' \in DocStatus \union {"none", "error"}
  BY <1>2, <1>4
<1> QED BY <1>1, <1>4, <1>5, <1>6, CallsGoOn

\* The answer of the dialog: a final one that nothing overtook was the last of
\* its opening.
LEMMA DialogAnswerKeeps ==
    ASSUME ViewsInv, NEW c \in calls, DialogAnswer(c)
    PROVE  ViewsInv'
<1>1. /\ view = "dialog" /\ c[4] # "sent"
      /\ calls' = (calls \ {c}) \union {} /\ {} \in SUBSET CallTuple
      /\ shownDoc' = c[1] /\ shownStatus' = Inferred(c[4], shownStatus)
      /\ IF c[4] \in Settled THEN polling' = FALSE ELSE polling' = polling
      /\ mixed' = (mixed \/ Overtakes(c) \/ c[1] \in late)
      /\ UNCHANGED <<view, status, opened, blobDoc, cancelled, late>>
  BY DEF DialogAnswer, StopPolling
<1>2. c \in CallTuple /\ c[3] = "status" /\ c[4] \in DocStatus
  BY <1>1 DEF ViewsInv, ViewTypeOK, CallsInv, CallTuple
<1>3. /\ mixed' \in BOOLEAN /\ polling \in BOOLEAN
      /\ ~mixed' => ~mixed /\ ~Overtakes(c) /\ c[1] \notin late
  BY <1>1 DEF ViewsInv, ViewTypeOK
<1>4. polling' \in BOOLEAN
  BY <1>1, <1>3
<1>5. ASSUME opened # NoDoc, ~mixed'
      PROVE  /\ shownStatus' \in Polled => polling'
             /\ ~polling' => \A e \in calls' : e[1] \in late
  <2>1. ~mixed /\ ~Overtakes(c) /\ c[1] \notin late /\ c[1] = opened
    BY <1>3, <1>5 DEF ViewsInv, OpenedInv
  <2>2. polling
    BY <1>1, <1>5, <2>1 DEF ViewsInv, FollowInv
  <2>3. shownStatus' \in Polled => polling'
    <3>1. CASE c[4] \in Settled
      <4>1. c[4] \notin Stage
        BY <3>1, DocumentServiceAssumption DEF Settled, Known
      <4> QED BY <1>1, <3>1, <4>1 DEF Inferred, Settled, Polled
    <3>2. CASE c[4] \notin Settled
      BY <1>1, <2>2, <3>2
    <3> QED BY <3>1, <3>2
  <2>4. \A e \in calls \ {c} : e[1] \in late
    BY <1>1, <1>2, <1>5, <2>1 DEF ViewsInv, OpenedInv, CallsInv, Overtakes
  <2> QED BY <1>1, <2>3, <2>4
<1>6. shownStatus' \in DocStatus \union {"none", "error"}
  BY <1>1, <1>2 DEF Inferred, ViewsInv, ViewTypeOK
<1> QED BY <1>1, <1>3, <1>4, <1>5, <1>6, CallsGoOn

LEMMA PreviewAnswerKeeps ==
    ASSUME ViewsInv, NEW c \in calls, LinkArrives(c) \/ FileArrives(c)
    PROVE  ViewsInv'
<1>0. /\ c \in CallTuple /\ shownStatus \in DocStatus \union {"none", "error"}
      /\ polling \in BOOLEAN /\ mixed \in BOOLEAN
  BY DEF ViewsInv, ViewTypeOK, CallTuple
<1>1. CASE LinkArrives(c) /\ ~cancelled
  <2> DEFINE e == <<c[1], c[2], "file", "sent">>
  <2>1. e \in CallTuple /\ e[1] = c[1] /\ e[3] = "file"
    BY <1>0 DEF CallTuple, Kinds
  <2>2. /\ calls' = (calls \ {c}) \union {e} /\ shownDoc' = c[1] /\ shownStatus' = "none"
        /\ view = "preview"
        /\ UNCHANGED <<view, status, opened, polling, blobDoc, cancelled, late, mixed>>
    BY <1>1 DEF LinkArrives
  <2> HIDE DEF e
  <2>3. {e} \in SUBSET CallTuple
    BY <2>1
  <2> QED BY <1>0, <2>1, <2>2, <2>3, CallsGoOn
<1>2. CASE \/ LinkArrives(c) /\ cancelled
           \/ FileArrives(c)
  <2>1. /\ calls' = (calls \ {c}) \union {} /\ {} \in SUBSET CallTuple /\ view = "preview"
        /\ blobDoc' \in {blobDoc, c[1]}
        /\ UNCHANGED <<view, status, opened, polling, shownDoc, shownStatus, cancelled, late,
                       mixed>>
    BY <1>2 DEF LinkArrives, FileArrives
  <2> QED BY <1>0, <2>1, CallsGoOn
<1> QED BY <1>1, <1>2

LEMMA PageAnswerKeeps ==
    ASSUME ViewsInv, NEW c \in calls, PageAnswer(c)
    PROVE  ViewsInv'
<1>1. /\ view = "page" /\ c[4] # "sent" /\ shownStatus' = c[4]
      /\ calls' = (calls \ {c}) \union {} /\ {} \in SUBSET CallTuple
      /\ UNCHANGED <<view, status, opened, polling, shownDoc, blobDoc, cancelled, late, mixed>>
  BY DEF PageAnswer
<1>2. c \in CallTuple /\ c[4] \in DocStatus /\ polling \in BOOLEAN /\ mixed \in BOOLEAN
  BY <1>1 DEF ViewsInv, ViewTypeOK, CallsInv, CallTuple
<1> QED BY <1>1, <1>2, CallsGoOn

LEMMA ViewsGoOn == ViewsInv /\ [ViewNext]_viewVars => ViewsInv'
<1> SUFFICES ASSUME ViewsInv, [ViewNext]_viewVars PROVE ViewsInv'
  OBVIOUS
<1>1. ASSUME NEW d \in Doc, ViewedMoves(d) PROVE ViewsInv'
  <2>1. PICK new \in DocStatus : status' = [status EXCEPT ![d] = new]
    BY <1>1, ServiceWrites DEF ViewedMoves
  <2>2. UNCHANGED <<view, opened, polling, shownDoc, shownStatus, blobDoc, cancelled, calls,
                    late, mixed>>
    BY <1>1 DEF ViewedMoves, viewPageVars
  <2>3. ViewTypeOK'
    BY <2>1, <2>2 DEF ViewsInv, ViewTypeOK
  <2>4. CallsInv'
    BY <2>1, <2>2 DEF ViewsInv, ViewTypeOK, CallsInv
  <2>5. OpenedInv' /\ FollowInv'
    BY <2>2 DEF ViewsInv, OpenedInv, FollowInv
  <2> QED BY <2>3, <2>4, <2>5 DEF ViewsInv
<1>2. ASSUME NEW d \in Doc, OpenDialog(d) \/ OpenPreview(d) \/ OpenPage(d) PROVE ViewsInv'
  BY <1>2, DialogOpens, PreviewOpens, PageOpens
<1>3. CASE CloseDialog \/ ClosePreview
  BY <1>3, ViewCloses
<1>4. CASE DialogTick \/ PageTick
  <2>1. PICK c \in Asked(opened, "status") : calls' = calls \union {c}
    BY <1>4 DEF DialogTick, PageTick
  <2>2. CASE opened # NoDoc
    BY <1>4, <2>1, <2>2, TicksKeep DEF DialogTick, PageTick
  \* A dialog that is closed has no interval.
  <2>3. CASE opened = NoDoc
    BY <1>4, <2>3 DEF DialogTick, PageTick, ViewsInv, OpenedInv
  <2> QED BY <2>2, <2>3
<1>5. ASSUME NEW c \in calls, CallServed(c) \/ CallFails(c) \/ Arrives(c) PROVE ViewsInv'
  BY <1>5, CallServedKeeps, CallFailsKeeps, DialogAnswerKeeps, PreviewAnswerKeeps,
     PageAnswerKeeps DEF Arrives
<1>6. CASE UNCHANGED viewVars
  BY <1>6 DEF viewVars, viewPageVars, ViewsInv, ViewTypeOK, CallsInv, OpenedInv, FollowInv
<1> QED BY <1>1, <1>2, <1>3, <1>4, <1>5, <1>6 DEF ViewNext

LEMMA ViewsInvImplies == ASSUME ViewsInv PROVE ViewsFollowTheirDocument
<1>1. ShownIsOpened
  BY DEF ViewsInv, OpenedInv, ShownIsOpened
<1>2. ASSUME NEW n \in 1 .. 5, InferSteps(shownStatus)[n] = "process"
      PROVE  shownStatus \in Polled
  BY <1>2 DEF InferSteps
<1>3. StepsAreFollowed
  BY <1>2 DEF ViewsInv, FollowInv, StepsAreFollowed
<1> QED BY <1>1, <1>3 DEF ViewsFollowTheirDocument

\* A view belongs to the document it was opened for, and a step the dialog shows
\* at work is followed, whatever status it was opened with: at a stage of the
\* processor it shows none (PipelineDetailModal, FilePreview and documents/[id]).
THEOREM ViewsStayTheirs == ViewSpec => []ViewsFollowTheirDocument
<1>1. ViewsInv => ViewsFollowTheirDocument
  BY ViewsInvImplies
<1> QED BY <1>1, ViewsStart, ViewsGoOn, PTL DEF ViewSpec

-----------------------------------------------------------------------------
(* The import of an outline (OutlineImport)                                *)

Levels == 1 .. 4

\* The loop stops at the last heading of the stack that has a lower level.
LEMMA PoppedIs ==
    ASSUME NEW o \in Seq(Levels), NEW stack \in Seq(1 .. Len(o)), NEW level \in Levels
    PROVE  \E k \in 0 .. Len(stack) :
              /\ Popped(o, stack, level) = SubSeq(stack, 1, k)
              /\ \A l \in 1 .. Len(stack) : o[stack[l]] < level => l <= k
              /\ k # 0 => o[stack[k]] < level
<1> DEFINE lower == {0} \union {k \in DOMAIN stack : o[stack[k]] < level}
<1>1. Len(stack) \in Nat /\ DOMAIN stack = 1 .. Len(stack)
  OBVIOUS
<1>2. lower \in SUBSET (0 .. Len(stack)) /\ lower # {}
  BY <1>1
<1>3. Max(lower) \in lower /\ \A l \in lower : l <= Max(lower)
  <2> HIDE DEF lower
  <2> QED BY <1>1, <1>2, GreatestNumber
<1>4. Popped(o, stack, level) = SubSeq(stack, 1, Max(lower))
  BY DEF Popped
<1> DEFINE k == Max(lower)
<1>5. k \in lower /\ \A l \in lower : l <= k
  BY <1>3
<1> HIDE DEF k
<1>6. k \in 0 .. Len(stack) /\ (k # 0 => o[stack[k]] < level)
  BY <1>1, <1>5
<1>7. \A l \in 1 .. Len(stack) : o[stack[l]] < level => l <= k
  BY <1>1, <1>5
<1>8. Popped(o, stack, level) = SubSeq(stack, 1, k)
  BY <1>4 DEF k
<1> QED BY <1>6, <1>7, <1>8

\* The recursive function of StackBefore exists,
LEMMA StackExists ==
    ASSUME NEW o, NEW n \in Nat
    PROVE  \E s : s = [i \in 1 .. n + 1 |->
                         IF i = 1 THEN <<>>
                         ELSE IF o[i - 1] = 1 THEN s[i - 1]
                         ELSE Append(Popped(o, s[i - 1], o[i - 1]), i - 1)]
<1> DEFINE Next1(t, i) == IF o[i - 1] = 1 THEN t ELSE Append(Popped(o, t, o[i - 1]), i - 1)
           Makes(s, k) == s = [i \in 1 .. k + 1 |-> IF i = 1 THEN <<>> ELSE Next1(s[i - 1], i)]
           S == {k \in Nat : \E s : Makes(s, k)}
<1> HIDE DEF Next1
<1>1. 0 \in S
  <2> DEFINE s == [i \in 1 .. 0 + 1 |-> <<>>]
  <2>1. s = [i \in 1 .. 0 + 1 |-> IF i = 1 THEN <<>> ELSE Next1(s[i - 1], i)]
    OBVIOUS
  <2>2. Makes(s, 0)
    BY <2>1
  <2> QED BY <2>2
<1>2. ASSUME NEW k \in Nat, k \in S PROVE k + 1 \in S
  <2>1. PICK s : Makes(s, k)
    BY <1>2
  <2>2. \A i \in 1 .. k + 1 : s[i] = IF i = 1 THEN <<>> ELSE Next1(s[i - 1], i)
    <3>1. s = [i \in 1 .. k + 1 |-> IF i = 1 THEN <<>> ELSE Next1(s[i - 1], i)]
      BY <2>1
    <3> QED BY <3>1
  <2> DEFINE t == [i \in 1 .. (k + 1) + 1 |->
                     IF i <= k + 1 THEN s[i] ELSE Next1(s[k + 1], i)]
  <2>3. ASSUME NEW i \in 1 .. (k + 1) + 1
        PROVE  t[i] = IF i = 1 THEN <<>> ELSE Next1(t[i - 1], i)
    <3>1. CASE i <= k + 1
      <4>1. i \in 1 .. k + 1 /\ t[i] = s[i]
        BY <3>1
      <4>2. i # 1 => t[i - 1] = s[i - 1]
        BY <4>1
      <4> QED BY <2>2, <4>1, <4>2
    <3>2. CASE ~(i <= k + 1)
      <4>1. i = (k + 1) + 1 /\ i # 1 /\ i - 1 = k + 1
        BY <3>2
      <4>2. t[i] = Next1(s[k + 1], i) /\ t[i - 1] = s[k + 1]
        BY <3>2, <4>1
      <4> QED BY <4>1, <4>2
    <3> QED BY <3>1, <3>2
  <2>4. t = [i \in 1 .. (k + 1) + 1 |-> IF i = 1 THEN <<>> ELSE Next1(t[i - 1], i)]
    BY <2>3
  <2>5. Makes(t, k + 1)
    BY <2>4
  <2> HIDE DEF t, Makes
  <2>6. \E u : Makes(u, k + 1)
    BY <2>5
  <2> QED BY <2>6
<1>3. n \in S
  <2> HIDE DEF S
  <2> QED BY <1>1, <1>2, NatSetInduction
<1> QED BY <1>3 DEF Next1

\* and this is what it does at each heading.
LEMMA StackIs ==
    ASSUME NEW o \in Seq(Levels)
    PROVE  /\ StackBefore(o)[1] = <<>>
           /\ \A i \in 1 .. Len(o) :
                 StackBefore(o)[i + 1] =
                    IF o[i] = 1 THEN StackBefore(o)[i]
                    ELSE Append(Popped(o, StackBefore(o)[i], o[i]), i)
<1> DEFINE s == CHOOSE s : s = [i \in 1 .. Len(o) + 1 |->
                                  IF i = 1 THEN <<>>
                                  ELSE IF o[i - 1] = 1 THEN s[i - 1]
                                  ELSE Append(Popped(o, s[i - 1], o[i - 1]), i - 1)]
<1>1. Len(o) \in Nat
  OBVIOUS
<1>2. s = [i \in 1 .. Len(o) + 1 |->
             IF i = 1 THEN <<>>
             ELSE IF o[i - 1] = 1 THEN s[i - 1]
             ELSE Append(Popped(o, s[i - 1], o[i - 1]), i - 1)]
  BY <1>1, StackExists
<1>3. StackBefore(o) = s
  BY DEF StackBefore
<1> HIDE DEF s
<1>4. s[1] = <<>>
  BY <1>1, <1>2
<1>5. ASSUME NEW i \in 1 .. Len(o)
      PROVE  s[i + 1] = IF o[i] = 1 THEN s[i] ELSE Append(Popped(o, s[i], o[i]), i)
  <2>1. i + 1 \in 1 .. Len(o) + 1 /\ i + 1 # 1 /\ (i + 1) - 1 = i
    BY <1>1
  <2>2. s[i + 1] = IF i + 1 = 1 THEN <<>>
                   ELSE IF o[(i + 1) - 1] = 1 THEN s[(i + 1) - 1]
                   ELSE Append(Popped(o, s[(i + 1) - 1], o[(i + 1) - 1]), (i + 1) - 1)
    BY <1>2, <2>1
  <2> QED BY <2>1, <2>2
<1> QED BY <1>3, <1>4, <1>5

\* The stack holds headings in their order, and each heading that has left it
\* made room for a later one that is not deeper.
StackHolds(o, i, stack) ==
    /\ stack \in Seq(1 .. Len(o))
    /\ \A k \in 1 .. Len(stack) : stack[k] \in Headings(o) /\ stack[k] < i
    /\ \A k, l \in 1 .. Len(stack) : k < l => stack[k] < stack[l]
    /\ \A j \in Headings(o) : j < i =>
          \/ \E k \in 1 .. Len(stack) : stack[k] = j
          \/ \E h \in Headings(o) : j < h /\ h < i /\ o[h] <= o[j]

LEMMA StackGoesOn ==
    ASSUME NEW o \in Seq(Levels), NEW i \in 1 .. Len(o), NEW stack, StackHolds(o, i, stack)
    PROVE  StackHolds(o, i + 1, IF o[i] = 1 THEN stack
                                ELSE Append(Popped(o, stack, o[i]), i))
<1>1. /\ Len(o) \in Nat /\ \A j \in 1 .. Len(o) : o[j] \in 1 .. 4
      /\ Headings(o) = {j \in 1 .. Len(o) : o[j] # 1}
  BY DEF Headings, Levels
<1>2. stack \in Seq(1 .. Len(o)) /\ Len(stack) \in Nat
  BY DEF StackHolds
<1>3. CASE o[i] = 1
  <2>1. \A j \in Headings(o) : j < i + 1 => j < i
    BY <1>1, <1>3
  <2>2. \A k \in 1 .. Len(stack) : stack[k] \in Headings(o) /\ stack[k] < i + 1
    BY <1>1 DEF StackHolds
  <2>3. \A j, h \in Headings(o) : h < i => h < i + 1
    BY <1>1
  <2>4. StackHolds(o, i + 1, stack)
    <3>1. \A j \in Headings(o) : j < i + 1 =>
            \/ \E k \in 1 .. Len(stack) : stack[k] = j
            \/ \E h \in Headings(o) : j < h /\ h < i + 1 /\ o[h] <= o[j]
      BY <2>1, <2>3 DEF StackHolds
    <3> QED BY <2>2, <3>1 DEF StackHolds
  <2> QED BY <1>3, <2>4
<1>4. CASE o[i] # 1
  <2>1. PICK k \in 0 .. Len(stack) :
           /\ Popped(o, stack, o[i]) = SubSeq(stack, 1, k)
           /\ \A l \in 1 .. Len(stack) : o[stack[l]] < o[i] => l <= k
    BY <1>1, <1>2, PoppedIs DEF Levels
  <2> DEFINE rest == SubSeq(stack, 1, k)
             more == Append(rest, i)
  <2>2. /\ rest \in Seq(1 .. Len(o)) /\ Len(rest) = k
        /\ \A l \in 1 .. k : rest[l] = stack[l]
    <3>1. k \in 0 .. Len(stack) /\ 1 \in 1 .. Len(stack) + 1
      BY <1>2
    <3>2. /\ rest \in Seq(1 .. Len(o)) /\ Len(rest) = k
          /\ \A l \in 1 .. k : rest[l] = stack[1 + l - 1]
      BY <1>2, <3>1, SubSeqProperties
    <3>3. \A l \in 1 .. k : 1 + l - 1 = l
      OBVIOUS
    <3> QED BY <3>2, <3>3
  <2> HIDE DEF rest
  <2>3. /\ more \in Seq(1 .. Len(o)) /\ Len(more) = k + 1 /\ more[k + 1] = i
        /\ \A l \in 1 .. k : more[l] = stack[l]
    <3>1. /\ more \in Seq(1 .. Len(o)) /\ Len(more) = Len(rest) + 1
          /\ more[Len(rest) + 1] = i
          /\ \A l \in 1 .. Len(rest) : more[l] = rest[l]
      BY <2>2, AppendProperties
    <3> HIDE DEF more
    <3> QED BY <2>2, <3>1
  <2> HIDE DEF more
  <2>4. \A l \in 1 .. k : stack[l] \in Headings(o) /\ stack[l] < i
    BY <1>2 DEF StackHolds
  <2>5. ASSUME NEW l \in 1 .. Len(more) PROVE more[l] \in Headings(o) /\ more[l] < i + 1
    <3>1. CASE l <= k
      <4>1. l \in 1 .. k
        BY <3>1
      <4>2. stack[l] \in 1 .. Len(o)
        BY <1>1, <2>4, <4>1
      <4> QED BY <2>3, <2>4, <4>1, <4>2
    <3>2. CASE ~(l <= k)
      BY <1>1, <1>4, <2>3, <3>2
    <3> QED BY <3>1, <3>2
  <2>6. ASSUME NEW l \in 1 .. Len(more), NEW m \in 1 .. Len(more), l < m
        PROVE  more[l] < more[m]
    <3>1. l \in 1 .. k
      BY <2>3, <2>6
    <3>2. CASE m <= k
      <4>1. m \in 1 .. k
        BY <3>2
      <4>2. more[l] = stack[l] /\ more[m] = stack[m]
        BY <2>3, <3>1, <4>1
      <4>3. l \in 1 .. Len(stack) /\ m \in 1 .. Len(stack)
        BY <1>2, <3>1, <4>1
      <4>4. stack[l] < stack[m]
        BY <2>6, <4>3 DEF StackHolds
      <4> QED BY <4>2, <4>4
    <3>3. CASE ~(m <= k)
      <4>1. m = k + 1 /\ more[m] = i
        BY <2>3, <3>3
      <4>2. more[l] = stack[l] /\ stack[l] < i
        BY <2>3, <2>4, <3>1
      <4> QED BY <4>1, <4>2
    <3> QED BY <3>2, <3>3
  <2>7. ASSUME NEW j \in Headings(o), j < i + 1
        PROVE  \/ \E l \in 1 .. Len(more) : more[l] = j
               \/ \E h \in Headings(o) : j < h /\ h < i + 1 /\ o[h] <= o[j]
    <3>1. CASE j = i
      BY <2>3, <3>1
    <3>2. CASE j # i
      <4>1. j < i
        BY <1>1, <2>7, <3>2
      <4>2. CASE \E l \in 1 .. Len(stack) : stack[l] = j
        <5>1. PICK l \in 1 .. Len(stack) : stack[l] = j
          BY <4>2
        <5>2. CASE l <= k
          <6>1. l \in 1 .. k /\ l \in 1 .. Len(more)
            BY <2>3, <5>2
          <6> QED BY <2>3, <5>1, <6>1
        <5>3. CASE ~(l <= k)
          <6>1. ~(o[j] < o[i]) /\ i \in Headings(o)
            BY <1>1, <1>4, <2>1, <5>1, <5>3
          <6>2. o[i] <= o[j] /\ i < i + 1
            <7>1. o[i] \in 1 .. 4 /\ o[j] \in 1 .. 4
              BY <1>1
            <7> QED BY <6>1, <7>1
          <6> QED BY <4>1, <6>1, <6>2
        <5> QED BY <5>2, <5>3
      <4>3. CASE \E h \in Headings(o) : j < h /\ h < i /\ o[h] <= o[j]
        BY <1>1, <4>3
      <4> QED BY <4>1, <4>2, <4>3 DEF StackHolds
    <3> QED BY <3>1, <3>2
  <2>8. StackHolds(o, i + 1, more)
    BY <2>3, <2>5, <2>6, <2>7 DEF StackHolds
  <2> QED BY <1>4, <2>1, <2>8 DEF more, rest
<1> QED BY <1>3, <1>4

LEMMA StacksHold ==
    ASSUME NEW o \in Seq(Levels), NEW i \in 1 .. Len(o) + 1
    PROVE  StackHolds(o, i, StackBefore(o)[i])
<1> DEFINE S == {k \in Nat : k + 1 <= Len(o) + 1 => StackHolds(o, k + 1, StackBefore(o)[k + 1])}
<1>1. Len(o) \in Nat
  OBVIOUS
<1>2. 0 \in S
  <2>1. StackHolds(o, 1, <<>>)
    <3>1. <<>> \in Seq(1 .. Len(o)) /\ Len(<<>>) = 0
      OBVIOUS
    <3>2. \A j \in Headings(o) : ~(j < 1)
      BY <1>1 DEF Headings
    <3> QED BY <3>1, <3>2 DEF StackHolds
  <2> QED BY <2>1, StackIs
<1>3. ASSUME NEW k \in Nat, k \in S, (k + 1) + 1 <= Len(o) + 1
      PROVE  StackHolds(o, (k + 1) + 1, StackBefore(o)[(k + 1) + 1])
  <2>1. k + 1 \in 1 .. Len(o) /\ k + 1 <= Len(o) + 1
    BY <1>1, <1>3
  <2>2. StackHolds(o, k + 1, StackBefore(o)[k + 1])
    BY <1>3, <2>1
  <2> DEFINE n == k + 1
  <2>3. n \in 1 .. Len(o) /\ StackHolds(o, n, StackBefore(o)[n])
    BY <2>1, <2>2
  <2> HIDE DEF n
  <2>4. StackHolds(o, n + 1, StackBefore(o)[n + 1])
    BY <2>3, StackGoesOn, StackIs
  <2> QED BY <2>4 DEF n
<1>4. Nat \subseteq S
  <2>1. ASSUME NEW k \in Nat, k \in S PROVE k + 1 \in S
    <3>1. (k + 1) + 1 <= Len(o) + 1
             => StackHolds(o, (k + 1) + 1, StackBefore(o)[(k + 1) + 1])
      BY <1>3, <2>1
    <3>2. k + 1 \in Nat
      OBVIOUS
    <3> QED BY <3>1, <3>2
  <2> HIDE DEF S
  <2> QED BY <1>2, <2>1, NatSetInduction
<1>5. i - 1 \in Nat /\ (i - 1) + 1 = i /\ i <= Len(o) + 1
  BY <1>1
<1>6. i - 1 \in S
  BY <1>4, <1>5
<1> QED BY <1>5, <1>6

\* A heading is put under the nearest one before it that has a lower level
\* (the stack of parseMarkdownOutline).
THEOREM ParentIsNearest ==
    ASSUME NEW o \in Seq(Levels), NEW i \in 1 .. Len(o)
    PROVE  /\ ParentIn(o, i) \in {0} \union Headings(o)
           /\ ParentIn(o, i) \in 0 .. i - 1
           /\ i \in Headings(o) => ParentIn(o, i) = NearestLower(o, i)
<1>1. /\ Len(o) \in Nat /\ \A j \in 1 .. Len(o) : o[j] \in 1 .. 4
      /\ Headings(o) = {j \in 1 .. Len(o) : o[j] # 1}
  BY DEF Headings, Levels
<1> DEFINE stack == StackBefore(o)[i]
<1>2. StackHolds(o, i, stack)
  BY <1>1, StacksHold
<1> HIDE DEF stack
<1>3. stack \in Seq(1 .. Len(o)) /\ Len(stack) \in Nat
  BY <1>2 DEF StackHolds
<1>4. \A k \in 1 .. Len(stack) : stack[k] \in Headings(o) /\ stack[k] < i
  BY <1>2 DEF StackHolds
<1>5. PICK k \in 0 .. Len(stack) :
         /\ Popped(o, stack, o[i]) = SubSeq(stack, 1, k)
         /\ \A l \in 1 .. Len(stack) : o[stack[l]] < o[i] => l <= k
         /\ k # 0 => o[stack[k]] < o[i]
  BY <1>1, <1>3, PoppedIs DEF Levels
<1> DEFINE below == SubSeq(stack, 1, k)
<1>6. ParentIn(o, i) = IF below = <<>> THEN 0 ELSE below[Len(below)]
  BY <1>5 DEF ParentIn, stack
<1>7. ParentIn(o, i) = IF k = 0 THEN 0 ELSE stack[k]
  <2>1. Len(below) = k /\ (k # 0 => below[k] = stack[k])
    BY <1>3
  <2>2. below = <<>> <=> k = 0
    BY <1>3
  <2> HIDE DEF below
  <2> QED BY <1>6, <2>1, <2>2
<1>8. k # 0 => stack[k] \in Headings(o) /\ stack[k] < i /\ stack[k] \in 1 .. i - 1
  <2> SUFFICES ASSUME k # 0 PROVE stack[k] \in Headings(o) /\ stack[k] < i /\ stack[k] \in 1 .. i - 1
    OBVIOUS
  <2>1. k \in 1 .. Len(stack)
    BY <1>3
  <2> QED BY <1>1, <1>4, <2>1
<1>9. ASSUME i \in Headings(o) PROVE ParentIn(o, i) = NearestLower(o, i)
  <2> DEFINE above == {0} \union {j \in Headings(o) : j < i /\ o[j] < o[i]}
             nearest == Max(above)
  <2>1. above \in SUBSET (0 .. Len(o)) /\ above # {}
    BY <1>1
  <2>2. nearest \in above /\ \A j \in above : j <= nearest
    <3> HIDE DEF above
    <3> QED BY <1>1, <2>1, GreatestNumber
  <2>3. NearestLower(o, i) = nearest
    BY DEF NearestLower
  <2> HIDE DEF nearest
  <2>4. k # 0 => stack[k] <= nearest
    BY <1>5, <1>8, <2>2
  <2>5. ASSUME nearest # 0 PROVE \E l \in 1 .. Len(stack) : stack[l] = nearest /\ l <= k
    <3>1. nearest \in Headings(o) /\ nearest < i /\ o[nearest] < o[i]
      BY <2>2, <2>5
    <3>2. ~ \E h \in Headings(o) : nearest < h /\ h < i /\ o[h] <= o[nearest]
      <4> SUFFICES ASSUME NEW h \in Headings(o), nearest < h, h < i, o[h] <= o[nearest]
                   PROVE  FALSE
        OBVIOUS
      <4>1. o[h] \in 1 .. 4 /\ o[nearest] \in 1 .. 4 /\ o[i] \in 1 .. 4
        BY <1>1, <3>1
      <4>2. o[h] < o[i]
        BY <3>1, <4>1
      <4>3. h <= nearest
        BY <2>2, <4>2
      <4>4. h \in Nat /\ nearest \in Nat
        BY <1>1, <3>1
      <4> QED BY <4>3, <4>4
    <3>3. PICK l \in 1 .. Len(stack) : stack[l] = nearest
      BY <1>2, <3>1, <3>2 DEF StackHolds
    <3> QED BY <1>5, <3>1, <3>3
  <2>6. CASE k = 0
    <3>1. nearest = 0
      BY <2>5, <2>6
    <3> QED BY <1>7, <2>3, <2>6, <3>1
  <2>7. CASE k # 0
    <3>1. /\ stack[k] <= nearest /\ stack[k] \in Nat /\ stack[k] # 0 /\ nearest \in Nat
      BY <1>1, <1>8, <2>1, <2>2, <2>4, <2>7
    <3>2. nearest # 0
      BY <3>1
    <3>3. PICK l \in 1 .. Len(stack) : stack[l] = nearest /\ l <= k
      BY <2>5, <3>2
    <3>4. nearest <= stack[k]
      <4>1. CASE l = k
        BY <3>1, <3>3, <4>1
      <4>2. CASE l # k
        <5>1. l < k /\ k \in 1 .. Len(stack)
          BY <1>3, <3>3, <4>2
        <5>2. stack[l] < stack[k]
          BY <1>2, <5>1 DEF StackHolds
        <5> QED BY <3>1, <3>3, <5>2
      <4> QED BY <4>1, <4>2
    <3>5. nearest = stack[k]
      BY <3>1, <3>4
    <3> QED BY <1>7, <2>3, <2>7, <3>5
  <2> QED BY <2>6, <2>7
<1>10. ParentIn(o, i) \in {0} \union Headings(o) /\ ParentIn(o, i) \in 0 .. i - 1
  BY <1>7, <1>8
<1> QED BY <1>9, <1>10

\* The recursive function of AncestorsIn exists.
LEMMA AncestorsExist ==
    ASSUME NEW P, NEW n \in Nat, \A i \in 1 .. n : P[i] \in 0 .. i - 1
    PROVE  \E a : a = [j \in 0 .. n |-> IF j = 0 \/ P[j] = 0 THEN {} ELSE {P[j]} \union a[P[j]]]
<1> DEFINE Makes(a, k) ==
              a = [j \in 0 .. k |-> IF j = 0 \/ P[j] = 0 THEN {} ELSE {P[j]} \union a[P[j]]]
           S == {k \in Nat : k <= n => \E a : Makes(a, k)}
<1>1. 0 \in S
  <2> DEFINE a == [j \in 0 .. 0 |-> {}]
  <2>1. a = [j \in 0 .. 0 |-> IF j = 0 \/ P[j] = 0 THEN {} ELSE {P[j]} \union a[P[j]]]
    OBVIOUS
  <2>2. Makes(a, 0)
    BY <2>1
  <2> QED BY <2>2
<1>2. ASSUME NEW k \in Nat, k \in S, k + 1 <= n PROVE \E a : Makes(a, k + 1)
  <2>1. PICK a : Makes(a, k)
    BY <1>2
  <2>2. \A j \in 0 .. k : a[j] = IF j = 0 \/ P[j] = 0 THEN {} ELSE {P[j]} \union a[P[j]]
    <3>1. a = [j \in 0 .. k |-> IF j = 0 \/ P[j] = 0 THEN {} ELSE {P[j]} \union a[P[j]]]
      BY <2>1
    <3> QED BY <3>1
  <2> DEFINE last == IF P[k + 1] = 0 THEN {} ELSE {P[k + 1]} \union a[P[k + 1]]
             b == [j \in 0 .. k + 1 |-> IF j <= k THEN a[j] ELSE last]
  <2>3. \A j \in 1 .. k + 1 : P[j] \in 0 .. j - 1
    BY <1>2
  <2> HIDE DEF last
  <2>4. \A j \in 0 .. k : b[j] = a[j]
    OBVIOUS
  <2>5. b[k + 1] = last
    OBVIOUS
  <2> HIDE DEF b
  <2>6. ASSUME NEW j \in 0 .. k + 1
        PROVE  b[j] = IF j = 0 \/ P[j] = 0 THEN {} ELSE {P[j]} \union b[P[j]]
    <3>1. CASE j = 0
      <4>1. 0 \in 0 .. k
        OBVIOUS
      <4>2. a[0] = {} /\ b[0] = a[0]
        BY <2>2, <2>4, <4>1
      <4> QED BY <3>1, <4>2
    <3>2. CASE j # 0 /\ j <= k
      <4>1. j \in 0 .. k /\ P[j] \in 0 .. k
        BY <2>3, <3>2
      <4> QED BY <2>2, <2>4, <4>1
    <3>3. CASE ~(j <= k)
      <4>1. j = k + 1 /\ P[k + 1] \in 0 .. k
        BY <2>3, <3>3
      <4>2. b[P[k + 1]] = a[P[k + 1]]
        BY <2>4, <4>1
      <4> QED BY <2>5, <4>1, <4>2 DEF last
    <3> QED BY <3>1, <3>2, <3>3
  <2>7. b = [j \in 0 .. k + 1 |-> IF j = 0 \/ P[j] = 0 THEN {} ELSE {P[j]} \union b[P[j]]]
    <3>1. b = [j \in 0 .. k + 1 |-> b[j]]
      BY DEF b
    <3> QED BY <2>6, <3>1
  <2>8. Makes(b, k + 1)
    BY <2>7
  <2> HIDE DEF Makes
  <2> QED BY <2>8
<1>3. n \in S
  <2>1. ASSUME NEW k \in Nat, k \in S PROVE k + 1 \in S
    <3>1. CASE k + 1 <= n
      <4> HIDE DEF Makes
      <4> QED BY <1>2, <2>1, <3>1
    <3>2. CASE ~(k + 1 <= n)
      BY <3>2
    <3> QED BY <3>1, <3>2
  <2> HIDE DEF S
  <2> QED BY <1>1, <2>1, NatSetInduction
<1>4. PICK a : Makes(a, n)
  <2> HIDE DEF Makes
  <2> QED BY <1>3
<1> QED BY <1>4

\* The headings above one are its parent and those above that.
LEMMA AncestorsAre ==
    ASSUME NEW o \in Seq(Levels), NEW i \in 1 .. Len(o)
    PROVE  /\ AncestorsIn(o, 0) = {}
           /\ AncestorsIn(o, i) = IF ParentIn(o, i) = 0 THEN {}
                                  ELSE {ParentIn(o, i)} \union AncestorsIn(o, ParentIn(o, i))
<1> DEFINE a == CHOOSE a : a = [j \in 0 .. Len(o) |->
                                  IF j = 0 \/ ParentIn(o, j) = 0 THEN {}
                                  ELSE {ParentIn(o, j)} \union a[ParentIn(o, j)]]
           P == [j \in 0 .. Len(o) |-> ParentIn(o, j)]
<1>1. Len(o) \in Nat
  OBVIOUS
<1>2. \A j \in 1 .. Len(o) : P[j] \in 0 .. j - 1
  BY <1>1, ParentIsNearest
<1>3. \E f : f = [j \in 0 .. Len(o) |-> IF j = 0 \/ P[j] = 0 THEN {} ELSE {P[j]} \union f[P[j]]]
  <2> HIDE DEF P
  <2> QED BY <1>1, <1>2, AncestorsExist
<1>4. \E f : f = [j \in 0 .. Len(o) |->
                    IF j = 0 \/ ParentIn(o, j) = 0 THEN {}
                    ELSE {ParentIn(o, j)} \union f[ParentIn(o, j)]]
  <2>1. PICK f : f = [j \in 0 .. Len(o) |->
                        IF j = 0 \/ P[j] = 0 THEN {} ELSE {P[j]} \union f[P[j]]]
    BY <1>3
  <2>2. \A j \in 0 .. Len(o) : P[j] = ParentIn(o, j)
    OBVIOUS
  <2> HIDE DEF P
  <2>3. f = [j \in 0 .. Len(o) |->
               IF j = 0 \/ ParentIn(o, j) = 0 THEN {}
               ELSE {ParentIn(o, j)} \union f[ParentIn(o, j)]]
    BY <2>1, <2>2
  <2> QED BY <2>3
<1>5. a = [j \in 0 .. Len(o) |->
             IF j = 0 \/ ParentIn(o, j) = 0 THEN {}
             ELSE {ParentIn(o, j)} \union a[ParentIn(o, j)]]
  BY <1>4
<1>6. \A j : AncestorsIn(o, j) = a[j]
  BY DEF AncestorsIn
<1> HIDE DEF a
<1>7. 0 \in 0 .. Len(o) /\ i \in 0 .. Len(o) /\ i # 0
  BY <1>1
<1>8. a[0] = {} /\ a[i] = IF ParentIn(o, i) = 0 THEN {}
                          ELSE {ParentIn(o, i)} \union a[ParentIn(o, i)]
  BY <1>5, <1>7
<1> QED BY <1>6, <1>8

\* A space is created below one whose own path is part of this one.
LEMMA PathGoesOn ==
    ASSUME NEW o \in Seq(Levels), NEW i \in Headings(o), ParentIn(o, i) # 0
    PROVE  /\ ParentIn(o, i) \in Headings(o) /\ ParentIn(o, i) < i
           /\ ParentIn(o, i) \in AncestorsIn(o, i)
           /\ AncestorsIn(o, ParentIn(o, i)) \subseteq AncestorsIn(o, i)
<1>1. i \in 1 .. Len(o) /\ Len(o) \in Nat
  BY DEF Headings
<1>2. ParentIn(o, i) \in Headings(o) /\ ParentIn(o, i) < i
  BY <1>1, ParentIsNearest
<1>3. AncestorsIn(o, i) = {ParentIn(o, i)} \union AncestorsIn(o, ParentIn(o, i))
  BY <1>1, AncestorsAre
<1> QED BY <1>2, <1>3

\* The import passes over the headings below one that failed, and no other.
LEMMA NextIs ==
    ASSUME NEW o \in Seq(Levels), NEW i \in Nat, NEW refused
    PROVE  LET next == NextHeading(o, i, refused) IN
           /\ next \in {0} \union Headings(o)
           /\ next # 0 => next > i /\ AncestorsIn(o, next) \intersect refused = {}
           /\ \A j \in Headings(o) : j > i /\ (next = 0 \/ j < next)
                 => AncestorsIn(o, j) \intersect refused # {}
<1> DEFINE rest == {j \in Headings(o) : j > i /\ AncestorsIn(o, j) \intersect refused = {}}
           next == NextHeading(o, i, refused)
<1>1. next = IF rest = {} THEN 0 ELSE Min(rest)
  BY DEF NextHeading
<1>2. rest \in SUBSET Nat
  BY DEF Headings
<1>3. \A j \in Headings(o) : j \in Nat /\ j # 0
  BY DEF Headings
<1>4. CASE rest = {}
  BY <1>1, <1>4
<1>5. CASE rest # {}
  <2>1. Min(rest) \in rest /\ \A j \in rest : Min(rest) <= j
    <3> HIDE DEF rest
    <3> QED BY <1>2, <1>5, SmallestNumber
  <2>2. next \in rest /\ \A j \in rest : next <= j
    BY <1>1, <1>5, <2>1
  <2> HIDE DEF next
  <2>3. next \in Headings(o) /\ next \in Nat /\ next # 0
    BY <1>3, <2>2
  <2>4. next > i /\ AncestorsIn(o, next) \intersect refused = {}
    BY <2>2
  <2>5. ASSUME NEW j \in Headings(o), j > i, next = 0 \/ j < next
        PROVE  AncestorsIn(o, j) \intersect refused # {}
    <3>1. j \in Nat /\ ~(next <= j)
      BY <1>3, <2>3, <2>5
    <3>2. j \notin rest
      BY <2>2, <3>1
    <3> QED BY <2>5, <3>2
  <2> QED BY <2>3, <2>4, <2>5 DEF next
<1> QED BY <1>4, <1>5

\* Headings that leave one out are fewer than all.
LEMMA FewerHeadings ==
    ASSUME NEW o \in Seq(Levels), NEW T \in SUBSET Headings(o)
    PROVE  /\ Cardinality(T) \in Nat
           /\ \A h \in Headings(o) : h \notin T => Cardinality(T) < Cardinality(Headings(o))
<1>1. Len(o) \in Nat /\ Headings(o) \in SUBSET (1 .. Len(o))
  BY DEF Headings
<1>2. IsFiniteSet(1 .. Len(o))
  BY <1>1, FS_Interval
<1>3. IsFiniteSet(Headings(o)) /\ IsFiniteSet(T)
  BY <1>1, <1>2, FS_Subset
<1>4. Cardinality(T) \in Nat /\ Cardinality(Headings(o)) \in Nat
  BY <1>3, FS_CardinalityType
<1>5. ASSUME NEW h \in Headings(o), h \notin T
      PROVE  Cardinality(T) < Cardinality(Headings(o))
  <2>1. T \union {h} \subseteq Headings(o)
    BY <1>5
  <2>2. Cardinality(T \union {h}) = Cardinality(T) + 1
    BY <1>3, <1>5, FS_AddElement
  <2>3. Cardinality(T \union {h}) <= Cardinality(Headings(o))
    BY <1>3, <2>1, FS_Subset
  <2> QED BY <1>4, <2>2, <2>3
<1> QED BY <1>4, <1>5

ImportRecord ==
    [outline : Outline \union {<<>>}, at : Nat, made : SUBSET Nat, refused : SUBSET Nat]

\* An import has dealt with the headings before the one it is at: it has
\* created them, been refused, or passed them over for one above.
InOrder(m) ==
    /\ m.outline = <<>> => m = NoImportYet
    /\ m.at \in {0} \union Headings(m.outline)
    /\ m.at # 0 => AncestorsIn(m.outline, m.at) \intersect m.refused = {}
    /\ \A j \in m.made \union m.refused : j \in Headings(m.outline) /\ (m.at # 0 => j < m.at)
    /\ \A j \in Headings(m.outline) : m.at = 0 \/ j < m.at =>
          \/ j \in m.made \union m.refused
          \/ AncestorsIn(m.outline, j) \intersect m.refused # {}

LEMMA OutlinesAreLevels ==
    ASSUME OutlineAssumption
    PROVE  \A o \in Outline \union {<<>>} : o \in Seq(Levels)
<1>1. <<>> \in Seq(Levels)
  OBVIOUS
<1>2. \A o \in Outline : o \in Seq(Levels)
  BY DEF OutlineAssumption, Levels
<1> QED BY <1>1, <1>2

LEMMA FirstInOrder ==
    ASSUME NEW o \in Seq(Levels), Headings(o) # {}
    PROVE  /\ Min(Headings(o)) \in Headings(o)
           /\ InOrder([outline |-> o, at |-> Min(Headings(o)), made |-> {}, refused |-> {}])
<1>1. Headings(o) \in SUBSET Nat
  BY DEF Headings
<1> DEFINE first == Min(Headings(o))
<1>2. first \in Headings(o) /\ \A j \in Headings(o) : first <= j
  BY <1>1, SmallestNumber
<1> HIDE DEF first
<1>3. o # <<>> /\ first # 0
  BY <1>2 DEF Headings
<1>4. \A j \in Headings(o) : ~(first = 0 \/ j < first)
  <2> SUFFICES ASSUME NEW j \in Headings(o) PROVE ~(j < first)
    BY <1>3
  <2>1. j \in Nat /\ first \in Nat
    BY <1>1, <1>2
  <2> QED BY <1>2, <2>1
<1>5. InOrder([outline |-> o, at |-> first, made |-> {}, refused |-> {}])
  BY <1>2, <1>3, <1>4 DEF InOrder
<1> QED BY <1>2, <1>5 DEF first

LEMMA OrderGoesOn ==
    ASSUME NEW m \in ImportRecord, m.outline \in Seq(Levels), InOrder(m), m.at # 0,
           NEW made, NEW refused,
           made \union refused = m.made \union m.refused \union {m.at},
           m.refused \subseteq refused
    PROVE  InOrder([outline |-> m.outline, at |-> NextHeading(m.outline, m.at, refused),
                    made |-> made, refused |-> refused])
<1> DEFINE o == m.outline
           next == NextHeading(o, m.at, refused)
           new == [outline |-> o, at |-> next, made |-> made, refused |-> refused]
<1>1. /\ m.at \in Headings(o) /\ o # <<>> /\ o \in Seq(Levels)
      /\ \A j \in Headings(o) : j \in Nat
  BY DEF InOrder, NoImportYet, Headings
<1>2. /\ next \in {0} \union Headings(o)
      /\ next # 0 => next > m.at /\ AncestorsIn(o, next) \intersect refused = {}
      /\ \A j \in Headings(o) : j > m.at /\ (next = 0 \/ j < next)
            => AncestorsIn(o, j) \intersect refused # {}
  BY <1>1, NextIs
<1> HIDE DEF next
<1>3. ASSUME NEW j \in made \union refused
      PROVE  j \in Headings(o) /\ (next # 0 => j < next)
  <2>1. j \in m.made \union m.refused \/ j = m.at
    BY <1>3
  <2>2. j \in Headings(o) /\ (j < m.at \/ j = m.at)
    BY <1>1, <2>1 DEF InOrder
  <2>3. j \in Nat /\ m.at \in Nat /\ (next # 0 => next \in Nat /\ next > m.at)
    BY <1>1, <1>2, <2>2
  <2> QED BY <2>2, <2>3
<1>4. ASSUME NEW j \in Headings(o), next = 0 \/ j < next
      PROVE  j \in made \union refused \/ AncestorsIn(o, j) \intersect refused # {}
  <2>1. CASE j < m.at
    <3>1. j \in m.made \union m.refused \/ AncestorsIn(o, j) \intersect m.refused # {}
      BY <2>1 DEF InOrder
    <3> QED BY <3>1
  <2>2. CASE j = m.at
    BY <2>2
  <2>3. CASE j > m.at
    BY <1>2, <1>4, <2>3
  <2> QED BY <1>1, <2>1, <2>2, <2>3
<1>5. /\ new.outline = o /\ new.at = next /\ new.made = made /\ new.refused = refused
  OBVIOUS
<1> HIDE DEF new
<1>6. InOrder(new)
  BY <1>1, <1>2, <1>3, <1>4, <1>5 DEF InOrder
<1> QED BY <1>6 DEF new, next

\* The spaces on the server hang below those of the nearest headings above.
SpacesHang ==
    \A s \in DOMAIN spaceParent :
       LET above == NearestLower(imports[s[1]].outline, s[2])
       IN /\ s[1] \in Import /\ s[2] \in Headings(imports[s[1]].outline)
          /\ s = <<s[1], s[2]>> /\ spaceParent[s] = <<s[1], above>>
          /\ above # 0 => spaceParent[s] \in DOMAIN spaceParent

CreatedAreThere ==
    \A k \in Import : \A i \in imports[k].made : <<k, i>> \in DOMAIN spaceParent

\* As long as no import began while a file was being read, none meets another.
AloneUnlessCrossed ==
    ~readCrossed => \A k \in Running :
        /\ step = "importing" /\ Running = {k} /\ reading = <<>>
        /\ progress < Cardinality(Headings(imports[k].outline))

OutlineInv ==
    /\ OutlineTypeOK
    /\ imports \in [Import -> ImportRecord]
    /\ \A k \in Import : InOrder(imports[k])
    /\ CreatedAreThere
    /\ SpacesHang
    /\ \A k \in importResult : imports[k].at = 0 /\ imports[k].outline # <<>>
    /\ step = "preview" => Headings(outlineNodes) # {}
    /\ AloneUnlessCrossed

LEMMA OutlineInvImplies == OutlineInv => ImportMakesTheOutline
<1> SUFFICES ASSUME OutlineInv PROVE SpacesMirrorTheOutline /\ ImportIsShown
  BY DEF ImportMakesTheOutline
<1>1. ASSUME NEW k \in importResult, imports[k].refused = {},
             NEW i \in Headings(imports[k].outline)
      PROVE  <<k, i>> \in DOMAIN spaceParent
  <2>1. k \in Import /\ imports[k].at = 0 /\ InOrder(imports[k])
    BY <1>1 DEF OutlineInv, OutlineTypeOK
  <2>2. i \in imports[k].made
    BY <1>1, <2>1 DEF InOrder
  <2> QED BY <2>1, <2>2 DEF OutlineInv, CreatedAreThere
<1>2. SpacesMirrorTheOutline
  BY <1>1 DEF SpacesMirrorTheOutline, OutlineInv, SpacesHang
<1>3. ImportIsShown
  <2>1. step = "importing" => Render = RenderImporting
    BY DEF Render
  <2> QED BY <2>1 DEF ImportIsShown, RenderImporting, OutlineInv, AloneUnlessCrossed
<1> QED BY <1>2, <1>3

LEMMA OutlineInitInv == ASSUME OutlineAssumption PROVE OutlineInit => OutlineInv
<1> SUFFICES ASSUME OutlineInit PROVE OutlineInv
  OBVIOUS
<1> USE DEF OutlineInit
<1>1. <<>> \in Seq(Outline) /\ Len(<<>>) = 0 /\ MaxReads \in Nat /\ 0 <= MaxReads
  BY DEF OutlineAssumption
<1>2. \A k \in Import : imports[k] = NoImportYet
  OBVIOUS
<1>3. /\ NoImportYet.outline = <<>> /\ NoImportYet.at = 0
      /\ NoImportYet.made = {} /\ NoImportYet.refused = {} /\ NoImportYet \in ImportRecord
  BY DEF NoImportYet, ImportRecord
<1>4. Headings(<<>>) = {}
  BY DEF Headings
<1>5. DOMAIN spaceParent = {}
  OBVIOUS
<1>6. OutlineTypeOK
  <2>1. ASSUME NEW k \in Import
        PROVE  /\ imports[k].outline \in Outline \union {<<>>}
               /\ imports[k].at \in 0 .. Len(imports[k].outline)
               /\ imports[k].made \union imports[k].refused \subseteq Headings(imports[k].outline)
    <3>1. /\ imports[k].outline = <<>> /\ imports[k].at = 0
          /\ imports[k].made = {} /\ imports[k].refused = {}
      BY <1>2, <1>3
    <3> QED BY <1>1, <3>1
  <2> QED BY <1>1, <1>5, <2>1 DEF OutlineTypeOK
<1>7. InOrder(NoImportYet)
  BY <1>3, <1>4 DEF InOrder
<1>8. imports \in [Import -> ImportRecord]
  BY <1>3
<1>9. CreatedAreThere /\ SpacesHang
  BY <1>2, <1>3, <1>5 DEF CreatedAreThere, SpacesHang
<1>10. AloneUnlessCrossed
  BY <1>2, <1>3 DEF AloneUnlessCrossed, Running
<1> QED BY <1>2, <1>6, <1>7, <1>8, <1>9, <1>10 DEF OutlineInv

\* What the server and the imports say is kept by a step that leaves them alone.
LEMMA PageStepKeeps ==
    ASSUME OutlineInv, imports' = imports, spaceParent' = spaceParent
    PROVE  /\ (imports \in [Import -> ImportRecord])' /\ (\A k \in Import : InOrder(imports[k]))'
           /\ CreatedAreThere' /\ SpacesHang' /\ Running' = Running
BY DEF OutlineInv, CreatedAreThere, SpacesHang, InOrder, Running

LEMMA HandleFileInv ==
    ASSUME OutlineAssumption, OutlineInv, NEW o \in Outline, HandleFile(o)
    PROVE  OutlineInv'
<1> USE DEF HandleFile, handleFileVars
<1>1. reading \in Seq(Outline) /\ Len(reading) < MaxReads /\ MaxReads \in Nat
  BY DEF OutlineInv, OutlineTypeOK, OutlineAssumption
<1>2. reading' \in Seq(Outline) /\ Len(reading') <= MaxReads
  BY <1>1
<1>3. OutlineTypeOK'
  BY <1>2 DEF OutlineInv, OutlineTypeOK
<1>4. step # "importing"
  BY DEF Render, RenderImporting
<1>5. AloneUnlessCrossed'
  BY <1>4, PageStepKeeps DEF OutlineInv, AloneUnlessCrossed
<1> QED BY <1>3, <1>5, PageStepKeeps DEF OutlineInv

LEMMA FileReadInv ==
    ASSUME OutlineAssumption, OutlineInv, NEW i \in 1 .. MaxReads, FileRead(i)
    PROVE  OutlineInv'
<1> USE DEF FileRead, handleFileVars
<1>1. reading \in Seq(Outline) /\ Len(reading) <= MaxReads /\ MaxReads \in Nat
  BY DEF OutlineInv, OutlineTypeOK, OutlineAssumption
<1>2. i \in 1 .. Len(reading) /\ reading[i] \in Outline
  <2>1. i \in 1 .. Len(reading)
    OBVIOUS
  <2> QED BY <1>1, <2>1
<1>3. reading' \in Seq(Outline) /\ Len(reading') <= MaxReads
  <2> DEFINE before == SubSeq(reading, 1, i - 1)
             after  == SubSeq(reading, i + 1, Len(reading))
  <2>1. before \in Seq(Outline) /\ Len(before) = i - 1
    <3> DEFINE n == Len(reading)
    <3>1. n \in Nat /\ i \in 1 .. n
      BY <1>1, <1>2
    <3> HIDE DEF n
    <3>2. 1 \in Nat /\ i - 1 \in Nat /\ i - 1 <= n
      BY <3>1
    <3>3. \A j \in 1 .. n : reading[j] \in Outline
      BY <1>1 DEF n
    <3>4. \A j \in 1 .. i - 1 : reading[j] \in Outline
      BY <3>1, <3>2, <3>3
    <3>5. Len(SubSeq(reading, 1, i - 1)) = IF 1 <= i - 1 THEN (i - 1) - 1 + 1 ELSE 0
      BY <3>2, <3>4, SubSeqProperties
    <3>6. SubSeq(reading, 1, i - 1) \in Seq(Outline)
      BY <3>2, <3>4, SubSeqProperties
    <3> QED BY <3>2, <3>5, <3>6
  <2>2. after \in Seq(Outline) /\ Len(after) = Len(reading) - i
    <3> DEFINE n == Len(reading)
    <3>1. n \in Nat /\ i \in 1 .. n
      BY <1>1, <1>2
    <3> HIDE DEF n
    <3>2. n \in Int /\ i + 1 \in Int /\ i + 1 >= 1 /\ i <= n
      BY <3>1
    <3>3. \A j \in 1 .. n : reading[j] \in Outline
      BY <1>1 DEF n
    <3>4. \A j \in i + 1 .. n : reading[j] \in Outline
      BY <3>1, <3>2, <3>3
    <3>5. Len(SubSeq(reading, i + 1, n)) = IF i + 1 <= n THEN n - (i + 1) + 1 ELSE 0
      BY <3>2, <3>4, SubSeqProperties
    <3>6. SubSeq(reading, i + 1, n) \in Seq(Outline)
      BY <3>2, <3>4, SubSeqProperties
    <3>7. Len(SubSeq(reading, i + 1, n)) = n - i
      BY <3>1, <3>5
    <3> QED BY <3>6, <3>7 DEF n
  <2>3. reading' = before \o after
    OBVIOUS
  <2> HIDE DEF before, after
  <2>4. reading' \in Seq(Outline) /\ Len(reading') = Len(before) + Len(after)
    BY <2>1, <2>2, <2>3, ConcatProperties
  <2>5. Len(before) + Len(after) <= MaxReads
    <3> DEFINE n == Len(reading)
    <3>1. n \in Nat /\ n <= MaxReads /\ i \in 1 .. n
      BY <1>1, <1>2
    <3>2. Len(before) + Len(after) = (i - 1) + (n - i)
      BY <2>1, <2>2
    <3> HIDE DEF n
    <3> QED BY <1>1, <3>1, <3>2
  <2> QED BY <2>4, <2>5
<1>4. /\ step' \in {"upload", "preview", "importing", "done"}
      /\ outlineNodes' \in Outline \union {<<>>}
      /\ step' = "preview" => Headings(outlineNodes') # {}
  BY <1>2 DEF OutlineInv, OutlineTypeOK
<1>5. OutlineTypeOK'
  BY <1>3, <1>4 DEF OutlineInv, OutlineTypeOK
<1>6. reading # <<>>
  BY <1>2
<1>7. AloneUnlessCrossed'
  BY <1>6, PageStepKeeps DEF OutlineInv, AloneUnlessCrossed
<1>8. (\A k \in importResult : imports[k].at = 0 /\ imports[k].outline # <<>>)'
  BY DEF OutlineInv
<1> QED BY <1>4, <1>5, <1>7, <1>8, PageStepKeeps DEF OutlineInv

LEMMA HandleResetInv ==
    ASSUME OutlineAssumption, OutlineInv, HandleReset
    PROVE  OutlineInv'
<1> USE DEF HandleReset
<1>1. OutlineTypeOK'
  BY DEF OutlineInv, OutlineTypeOK
<1>2. step # "importing"
  BY DEF Render, RenderImporting
<1>3. AloneUnlessCrossed'
  BY <1>2, PageStepKeeps DEF OutlineInv, AloneUnlessCrossed
<1> QED BY <1>1, <1>3, PageStepKeeps DEF OutlineInv

\* What is recorded of an import, and of one that begins.
LEMMA RecordIs ==
    ASSUME NEW m \in ImportRecord
    PROVE  m = [outline |-> m.outline, at |-> m.at, made |-> m.made, refused |-> m.refused]
BY DEF ImportRecord

LEMMA StartedImport ==
    ASSUME NEW o \in Outline \union {<<>>}, NEW i \in Nat
    PROVE  [NoImportYet EXCEPT !.outline = o, !.at = i]
              = [outline |-> o, at |-> i, made |-> {}, refused |-> {}]
<1> DEFINE v == [NoImportYet EXCEPT !.outline = o, !.at = i]
<1>1. NoImportYet \in ImportRecord /\ NoImportYet.made = {} /\ NoImportYet.refused = {}
  BY DEF ImportRecord, NoImportYet
<1>2. v \in ImportRecord
  BY <1>1 DEF ImportRecord
<1>3. v.outline = o /\ v.at = i /\ v.made = {} /\ v.refused = {}
  BY <1>1 DEF ImportRecord
<1> HIDE DEF v
<1>4. v = [outline |-> v.outline, at |-> v.at, made |-> v.made, refused |-> v.refused]
  BY <1>2, RecordIs
<1>5. v = [outline |-> o, at |-> i, made |-> {}, refused |-> {}]
  BY <1>3, <1>4
<1> QED BY <1>5 DEF v

LEMMA HandleImportInv ==
    ASSUME OutlineAssumption, OutlineInv, NEW k \in Import, HandleImport(k)
    PROVE  OutlineInv'
<1> DEFINE o == outlineNodes
           new == [outline |-> o, at |-> Min(Headings(o)), made |-> {}, refused |-> {}]
<1>1. step = "preview"
  BY DEF HandleImport, Render, RenderUpload, RenderImporting, RenderDone, OutlineInv, OutlineTypeOK
<1>2. /\ o \in Outline \union {<<>>} /\ o \in Seq(Levels) /\ Headings(o) # {}
      /\ imports \in [Import -> ImportRecord]
  BY <1>1, OutlinesAreLevels DEF OutlineInv, OutlineTypeOK
<1>3. Min(Headings(o)) \in Headings(o) /\ InOrder(new)
  BY <1>2, FirstInOrder
<1>4. /\ o # <<>> /\ Min(Headings(o)) \in 0 .. Len(o) /\ Min(Headings(o)) \in Nat \ {0}
  BY <1>2, <1>3 DEF Headings
<1>5. /\ new.outline = o /\ new.at = Min(Headings(o)) /\ new.made = {} /\ new.refused = {}
      /\ new \in ImportRecord
  BY <1>2, <1>4 DEF ImportRecord
<1>6. /\ imports[k] = NoImportYet /\ step' = "importing" /\ progress' = 0
      /\ imports' = [imports EXCEPT ![k] = new]
      /\ readCrossed' = (readCrossed \/ reading # <<>>)
      /\ UNCHANGED <<outlineNodes, reading, importResult, spaceParent>>
  <2>1. [NoImportYet EXCEPT !.outline = outlineNodes, !.at = Min(Headings(outlineNodes))] = new
    BY <1>2, <1>4, StartedImport
  <2> HIDE DEF new
  <2> QED BY <2>1 DEF HandleImport
<1> HIDE DEF new
<1>7. /\ imports' \in [Import -> ImportRecord] /\ imports'[k] = new
      /\ \A l \in Import : l # k => imports'[l] = imports[l]
  BY <1>2, <1>5, <1>6
<1>8. \A l \in Import : InOrder(imports'[l])
  BY <1>3, <1>7 DEF OutlineInv
<1>9. OutlineTypeOK'
  <2>1. ASSUME NEW l \in Import
        PROVE  /\ imports'[l].outline \in Outline \union {<<>>}
               /\ imports'[l].at \in 0 .. Len(imports'[l].outline)
               /\ imports'[l].made \union imports'[l].refused \subseteq Headings(imports'[l].outline)
    <3>1. CASE l = k
      BY <1>2, <1>4, <1>5, <1>7, <3>1
    <3>2. CASE l # k
      BY <1>7, <3>2 DEF OutlineInv, OutlineTypeOK
    <3> QED BY <3>1, <3>2
  <2>2. readCrossed' \in BOOLEAN
    BY <1>6 DEF OutlineInv, OutlineTypeOK
  <2> QED BY <1>6, <2>1, <2>2 DEF OutlineInv, OutlineTypeOK
<1>10. NoImportYet.outline = <<>> /\ NoImportYet.at = 0 /\ NoImportYet.made = {}
  BY DEF NoImportYet
<1>11. CreatedAreThere'
  BY <1>6, <1>5, <1>7 DEF OutlineInv, CreatedAreThere
<1>12. SpacesHang'
  <2>1. \A s \in DOMAIN spaceParent : s[1] # k
    BY <1>6, <1>10 DEF OutlineInv, SpacesHang, Headings
  <2> QED BY <1>6, <1>7, <2>1 DEF OutlineInv, SpacesHang
<1>13. \A l \in importResult' : imports'[l].at = 0 /\ imports'[l].outline # <<>>
  <2>1. k \notin importResult /\ importResult \subseteq Import
    BY <1>6, <1>10 DEF OutlineInv, OutlineTypeOK
  <2> QED BY <1>6, <1>7, <2>1 DEF OutlineInv
<1>14. AloneUnlessCrossed'
  <2> SUFFICES ASSUME ~readCrossed', NEW l \in Running'
               PROVE  /\ step' = "importing" /\ Running' = {l} /\ reading' = <<>>
                      /\ progress' < Cardinality(Headings(imports'[l].outline))
    BY DEF AloneUnlessCrossed
  <2>1. ~readCrossed /\ reading = <<>>
    BY <1>6
  <2>2. Running = {}
    BY <1>1, <2>1 DEF OutlineInv, AloneUnlessCrossed
  <2>3. Running' = {k}
    BY <1>4, <1>5, <1>7, <2>2 DEF Running
  <2>4. 0 < Cardinality(Headings(o))
    <3>1. Cardinality({}) = 0
      BY FS_EmptySet
    <3>2. Cardinality({}) < Cardinality(Headings(o))
      BY <1>2, FewerHeadings
    <3> QED BY <3>1, <3>2
  <2> QED BY <1>6, <1>5, <1>7, <2>1, <2>3, <2>4
<1>15. step' # "preview"
  BY <1>6
<1> QED BY <1>7, <1>8, <1>9, <1>11, <1>12, <1>13, <1>14, <1>15 DEF OutlineInv

LEMMA SpaceAnsweredInv ==
    ASSUME OutlineAssumption, OutlineInv, NEW k \in Import,
           NEW created \in BOOLEAN, NEW answered \in BOOLEAN, SpaceAnswered(k, created, answered)
    PROVE  OutlineInv'
<1> DEFINE m == imports[k]
           o == m.outline
           i == m.at
           made == m.made \union (IF answered THEN {i} ELSE {})
           refused == m.refused \union (IF answered THEN {} ELSE {i})
           next == NextHeading(o, i, refused)
           new == [outline |-> o, at |-> next, made |-> made, refused |-> refused]
           tree == [s \in DOMAIN spaceParent \union {<<k, i>>} |->
                         IF s = <<k, i>> THEN <<k, ParentIn(o, i)>> ELSE spaceParent[s]]
<1>1. /\ m \in ImportRecord /\ InOrder(m) /\ o \in Outline \union {<<>>} /\ o \in Seq(Levels)
      /\ imports \in [Import -> ImportRecord]
  BY OutlinesAreLevels DEF OutlineInv, OutlineTypeOK
<1>2. /\ i # 0 /\ k \in Running
      /\ answered => created
      /\ spaceParent' = IF ~created THEN spaceParent ELSE tree
      /\ progress' = Completed(o, made \union refused, next)
      /\ IF next = 0 THEN step' = "done" /\ importResult' = {k}
                     ELSE UNCHANGED <<step, importResult>>
      /\ UNCHANGED <<outlineNodes, reading, readCrossed>>
  BY DEF SpaceAnswered, Running
<1>3. /\ i \in Headings(o) /\ o # <<>> /\ Len(o) \in Nat /\ i \in 1 .. Len(o) /\ i \in Nat
      /\ \A h \in Headings(o) : h \in 1 .. Len(o) /\ h \in Nat
      /\ AncestorsIn(o, i) \intersect m.refused = {}
  BY <1>1, <1>2 DEF InOrder, NoImportYet, Headings
<1>4. /\ made \union refused = m.made \union m.refused \union {i}
      /\ m.made \subseteq made /\ m.refused \subseteq refused
      /\ \A h \in made : h \in m.made \/ (h = i /\ answered)
      /\ made \union refused \subseteq Headings(o)
      /\ made \subseteq Nat /\ refused \subseteq Nat
  <2>1. m.made \union m.refused \subseteq Headings(o)
    BY <1>1 DEF InOrder
  <2> QED BY <1>3, <2>1
<1> HIDE DEF made, refused
<1>5. /\ next \in {0} \union Headings(o)
      /\ next # 0 => next > i /\ AncestorsIn(o, next) \intersect refused = {}
  BY <1>1, <1>3, NextIs
<1>6. InOrder(new)
  BY <1>1, <1>2, <1>4, OrderGoesOn
<1> HIDE DEF next
<1>7. /\ new.outline = o /\ new.at = next /\ new.made = made /\ new.refused = refused
      /\ new \in ImportRecord /\ next \in Nat /\ made \in SUBSET Nat /\ refused \in SUBSET Nat
  <2>1. next \in Nat
    BY <1>3, <1>5
  <2> QED BY <1>1, <1>4, <2>1 DEF ImportRecord
<1>8. imports' = [imports EXCEPT ![k] = new]
  <2>1. imports' = [imports EXCEPT ![k] = [m EXCEPT !.at = next, !.made = made, !.refused = refused]]
    BY <1>1 DEF SpaceAnswered, next, made, refused
  <2>2. [m EXCEPT !.at = next, !.made = made, !.refused = refused] = new
    <3> DEFINE v == [m EXCEPT !.at = next, !.made = made, !.refused = refused]
    <3>1. v \in ImportRecord
      BY <1>1, <1>7 DEF ImportRecord
    <3>2. v.outline = o /\ v.at = next /\ v.made = made /\ v.refused = refused
      BY <1>1, <1>7 DEF ImportRecord
    <3> HIDE DEF v
    <3>3. v = [outline |-> v.outline, at |-> v.at, made |-> v.made, refused |-> v.refused]
      BY <3>1, RecordIs
    <3>4. v = new
      BY <3>2, <3>3 DEF new
    <3> QED BY <3>4 DEF v
  <2> QED BY <2>1, <2>2
<1> HIDE DEF new
<1>9. /\ imports' \in [Import -> ImportRecord] /\ imports'[k] = new
      /\ \A l \in Import : l # k => imports'[l] = imports[l]
      /\ \A l \in Import : imports'[l].outline = imports[l].outline
  BY <1>1, <1>8, <1>7
<1>10. \A l \in Import : InOrder(imports'[l])
  BY <1>6, <1>9 DEF OutlineInv
<1>11. /\ DOMAIN tree = DOMAIN spaceParent \union {<<k, i>>}
       /\ tree[<<k, i>>] = <<k, ParentIn(o, i)>>
       /\ \A s \in DOMAIN spaceParent : s # <<k, i>> => tree[s] = spaceParent[s]
  OBVIOUS
<1> HIDE DEF tree
<1>12. /\ DOMAIN spaceParent \subseteq DOMAIN spaceParent'
       /\ created => <<k, i>> \in DOMAIN spaceParent'
       /\ DOMAIN spaceParent' \subseteq DOMAIN spaceParent \union {<<k, i>>}
  BY <1>2, <1>11
<1>13. (made \union refused) \ (IF next = 0 THEN {} ELSE AncestorsIn(o, next)) \in SUBSET Headings(o)
  BY <1>4
<1>14. OutlineTypeOK'
  <2>1. ASSUME NEW l \in Import
        PROVE  /\ imports'[l].outline \in Outline \union {<<>>}
               /\ imports'[l].at \in 0 .. Len(imports'[l].outline)
               /\ imports'[l].made \union imports'[l].refused \subseteq Headings(imports'[l].outline)
    <3>1. CASE l = k
      <4>1. next \in 0 .. Len(o)
        BY <1>3, <1>5
      <4> QED BY <1>1, <1>4, <1>7, <1>9, <3>1, <4>1
    <3>2. CASE l # k
      BY <1>9, <3>2 DEF OutlineInv, OutlineTypeOK
    <3> QED BY <3>1, <3>2
  <2>2. progress' \in Nat
    BY <1>1, <1>2, <1>13, FewerHeadings DEF Completed
  <2>3. importResult' \subseteq Import /\ step' \in {"upload", "preview", "importing", "done"}
    BY <1>2 DEF OutlineInv, OutlineTypeOK
  <2>4. <<k, i>> \in Import \X Nat /\ DOMAIN spaceParent \subseteq Import \X Nat
    BY <1>3 DEF OutlineInv, OutlineTypeOK
  <2>5. DOMAIN spaceParent' \subseteq Import \X Nat
    BY <1>12, <2>4
  <2> QED BY <1>2, <2>1, <2>2, <2>3, <2>5 DEF OutlineInv, OutlineTypeOK
<1>15. CreatedAreThere'
  <2> SUFFICES ASSUME NEW l \in Import, NEW h \in imports'[l].made
               PROVE  <<l, h>> \in DOMAIN spaceParent'
    BY DEF CreatedAreThere
  <2>1. h \in imports[l].made \/ (l = k /\ h = i /\ created)
    BY <1>2, <1>4, <1>7, <1>9
  <2> QED BY <1>12, <2>1 DEF OutlineInv, CreatedAreThere
<1>16. SpacesHang'
  <2>1. ASSUME NEW s \in DOMAIN spaceParent', s \in DOMAIN spaceParent, s # <<k, i>>
        PROVE  LET above == NearestLower(imports'[s[1]].outline, s[2])
               IN /\ s[1] \in Import /\ s[2] \in Headings(imports'[s[1]].outline)
                  /\ s = <<s[1], s[2]>> /\ spaceParent'[s] = <<s[1], above>>
                  /\ above # 0 => spaceParent'[s] \in DOMAIN spaceParent'
    <3>1. spaceParent'[s] = spaceParent[s]
      BY <1>2, <1>11, <2>1
    <3> QED BY <1>9, <1>12, <2>1, <3>1 DEF OutlineInv, SpacesHang
  <2>2. ASSUME NEW s \in DOMAIN spaceParent', s = <<k, i>>
        PROVE  LET above == NearestLower(imports'[s[1]].outline, s[2])
               IN /\ s[1] \in Import /\ s[2] \in Headings(imports'[s[1]].outline)
                  /\ s = <<s[1], s[2]>> /\ spaceParent'[s] = <<s[1], above>>
                  /\ above # 0 => spaceParent'[s] \in DOMAIN spaceParent'
    <3> DEFINE above == NearestLower(o, i)
    <3>1. s[1] = k /\ s[2] = i /\ imports'[k].outline = o
      BY <1>9, <2>2
    <3>2. ParentIn(o, i) = above
      BY <1>1, <1>3, ParentIsNearest
    <3>3. spaceParent'[s] = <<k, above>>
      <4>1. CASE created
        BY <1>2, <1>11, <2>2, <3>2, <4>1
      <4>2. CASE ~created
        <5>1. s \in DOMAIN spaceParent /\ spaceParent'[s] = spaceParent[s]
          BY <1>2, <2>2, <4>2
        <5> QED BY <3>1, <5>1 DEF OutlineInv, SpacesHang
      <4> QED BY <4>1, <4>2
    <3>4. ASSUME above # 0 PROVE <<k, above>> \in DOMAIN spaceParent
      <4>1. /\ above \in Headings(o) /\ above < i /\ above \in AncestorsIn(o, i)
            /\ AncestorsIn(o, above) \subseteq AncestorsIn(o, i)
        BY <1>1, <1>3, <3>2, <3>4, PathGoesOn
      <4>2. above \notin m.refused /\ AncestorsIn(o, above) \intersect m.refused = {}
        BY <1>3, <4>1
      <4> HIDE DEF above
      <4>3. above \in m.made
        BY <1>1, <4>1, <4>2 DEF InOrder
      <4> QED BY <4>3 DEF OutlineInv, CreatedAreThere
    <3> HIDE DEF above
    <3>5. above = NearestLower(imports'[s[1]].outline, s[2])
      BY <3>1 DEF above
    <3> QED BY <1>3, <1>12, <2>2, <3>1, <3>3, <3>4, <3>5
  <2> QED BY <1>12, <2>1, <2>2 DEF SpacesHang
<1>17. \A l \in importResult' : imports'[l].at = 0 /\ imports'[l].outline # <<>>
  <2>1. CASE next = 0
    BY <1>2, <1>3, <1>7, <1>9, <2>1
  <2>2. CASE next # 0
    <3>1. k \notin importResult /\ importResult' = importResult /\ importResult \subseteq Import
      BY <1>2, <2>2 DEF OutlineInv, OutlineTypeOK
    <3> QED BY <1>9, <3>1 DEF OutlineInv
  <2> QED BY <2>1, <2>2
<1>18. AloneUnlessCrossed'
  <2> SUFFICES ASSUME ~readCrossed', NEW l \in Running'
               PROVE  /\ step' = "importing" /\ Running' = {l} /\ reading' = <<>>
                      /\ progress' < Cardinality(Headings(imports'[l].outline))
    BY DEF AloneUnlessCrossed
  <2>1. Running = {k} /\ step = "importing" /\ reading = <<>>
    BY <1>2 DEF OutlineInv, AloneUnlessCrossed
  <2>2. l \in Import /\ imports'[l].at # 0
    BY DEF Running
  <2>3. l = k
    <3>1. l # k => imports[l].at # 0
      BY <1>9, <2>2
    <3> QED BY <2>1, <2>2, <3>1 DEF Running
  <2>4. next # 0 /\ next \in Headings(o)
    BY <1>5, <1>7, <1>9, <2>2, <2>3
  <2>5. Running' = {k}
    <3>1. \A h \in Import : h \in Running' => h = k
      <4> SUFFICES ASSUME NEW h \in Import, imports'[h].at # 0, h # k PROVE FALSE
        BY DEF Running
      <4>1. imports[h].at # 0
        BY <1>9
      <4> QED BY <2>1, <4>1 DEF Running
    <3>2. k \in Running'
      BY <2>3
    <3> QED BY <3>1, <3>2 DEF Running
  <2>6. next \notin made \union refused
    BY <1>3, <1>6, <1>7, <2>4 DEF InOrder
  <2>7. progress' < Cardinality(Headings(o))
    BY <1>1, <1>2, <1>13, <2>4, <2>6, FewerHeadings DEF Completed
  <2> QED BY <1>2, <1>9, <2>1, <2>3, <2>4, <2>5, <2>7
<1>19. step' = "preview" => Headings(outlineNodes') # {}
  BY <1>2 DEF OutlineInv
<1> QED BY <1>9, <1>10, <1>14, <1>15, <1>16, <1>17, <1>18, <1>19 DEF OutlineInv

LEMMA OutlineNextInv ==
    ASSUME OutlineAssumption, OutlineInv, [OutlineNext]_outlineVars
    PROVE  OutlineInv'
<1>1. CASE UNCHANGED outlineVars
  <2> USE <1>1 DEF outlineVars
  <2>1. OutlineTypeOK'
    BY DEF OutlineInv, OutlineTypeOK
  <2>2. AloneUnlessCrossed'
    BY PageStepKeeps DEF OutlineInv, AloneUnlessCrossed
  <2> QED BY <2>1, <2>2, PageStepKeeps DEF OutlineInv
<1>2. CASE OutlineNext
  <2>1. CASE \E o \in Outline : HandleFile(o)
    BY <2>1, HandleFileInv
  <2>2. CASE \E i \in 1 .. MaxReads : FileRead(i)
    BY <2>2, FileReadInv
  <2>3. CASE \E k \in Import, created, answered \in BOOLEAN :
                HandleImport(k) \/ SpaceAnswered(k, created, answered)
    BY <2>3, HandleImportInv, SpaceAnsweredInv
  <2>4. CASE HandleReset
    BY <2>4, HandleResetInv
  <2> QED BY <1>2, <2>1, <2>2, <2>3, <2>4 DEF OutlineNext
<1> QED BY <1>1, <1>2

\* The spaces an import has created mirror its outline, one under the space of the
\* nearest heading above it, also when calls fail or answers are lost; and a page
\* that is importing shows so (parseMarkdownOutline and batchCreateSpaces).
THEOREM ImportStaysTrue == OutlineSpec => []ImportMakesTheOutline
<1>1. OutlineInit => OutlineInv
  BY OutlineInitInv, OutlineAssumption
<1>2. OutlineInv /\ [OutlineNext]_outlineVars => OutlineInv'
  BY OutlineNextInv, OutlineAssumption
<1> QED BY <1>1, <1>2, OutlineInvImplies, PTL DEF OutlineSpec

-----------------------------------------------------------------------------
(* The comparison of two files (FileCompare)                               *)

ChangeSet == [kind : {"same", "removed", "added"}, value : Seq(Unit)]
RowSet    == {"same", "removed", "added", "placeholder"} \X Seq(Unit)

\* The rows of the one view, for any sequence of changes: UnifiedRows is this of Diffs.
UnifiedOf(changes) == [i \in DOMAIN changes |-> <<changes[i].kind, changes[i].value>>]

\* What rows say, row by row.
TextsOf(rows, kinds) == [i \in DOMAIN rows |-> IF rows[i][1] \in kinds THEN rows[i][2] ELSE <<>>]

LEMMA TextConcat ==
    ASSUME NEW a \in Seq(RowSet), NEW b \in Seq(RowSet), NEW kinds
    PROVE  TextOfRows(a \o b, kinds) = TextOfRows(a, kinds) \o TextOfRows(b, kinds)
<1>1. ASSUME NEW rows \in Seq(RowSet)
      PROVE  TextsOf(rows, kinds) \in Seq(Seq(Unit)) /\ Len(TextsOf(rows, kinds)) = Len(rows)
  <2>1. \A i \in DOMAIN rows : rows[i][2] \in Seq(Unit)
    BY DEF RowSet
  <2>2. DOMAIN rows = 1 .. Len(rows) /\ Len(rows) \in Nat /\ <<>> \in Seq(Unit)
    OBVIOUS
  <2> QED BY <2>1, <2>2 DEF TextsOf
<1> DEFINE ta == TextsOf(a, kinds)
           tb == TextsOf(b, kinds)
           tc == TextsOf(a \o b, kinds)
<1>2. /\ a \o b \in Seq(RowSet) /\ Len(a \o b) = Len(a) + Len(b)
      /\ Len(a) \in Nat /\ Len(b) \in Nat
      /\ DOMAIN a = 1 .. Len(a) /\ DOMAIN b = 1 .. Len(b) /\ DOMAIN (a \o b) = 1 .. Len(a) + Len(b)
      /\ \A i \in 1 .. Len(a) : (a \o b)[i] = a[i]
      /\ \A i \in 1 .. Len(b) : (a \o b)[Len(a) + i] = b[i]
  OBVIOUS
<1>3. /\ ta \in Seq(Seq(Unit)) /\ Len(ta) = Len(a) /\ tb \in Seq(Seq(Unit)) /\ Len(tb) = Len(b)
      /\ tc \in Seq(Seq(Unit)) /\ Len(tc) = Len(a) + Len(b)
  BY <1>1, <1>2
<1>4. /\ \A i \in 1 .. Len(a) : tc[i] = ta[i]
      /\ \A i \in 1 .. Len(b) : tc[Len(a) + i] = tb[i]
  BY <1>2 DEF TextsOf
<1>5. FlattenSeq(ta \o tb) = FlattenSeq(ta) \o FlattenSeq(tb)
  BY <1>3, FlattenConcat
<1>6. tc = ta \o tb
  <2> HIDE DEF ta, tb, tc
  <2>0. ta \in Seq(Seq(Unit)) /\ tb \in Seq(Seq(Unit))
    BY <1>3
  <2>1. /\ ta \o tb \in Seq(Seq(Unit)) /\ Len(ta \o tb) = Len(a) + Len(b)
        /\ \A i \in 1 .. Len(a) : (ta \o tb)[i] = ta[i]
        /\ \A i \in 1 .. Len(b) : (ta \o tb)[Len(a) + i] = tb[i]
    <3>1. /\ ta \o tb \in Seq(Seq(Unit)) /\ Len(ta \o tb) = Len(ta) + Len(tb)
          /\ \A i \in 1 .. Len(ta) : (ta \o tb)[i] = ta[i]
          /\ \A i \in 1 .. Len(tb) : (ta \o tb)[Len(ta) + i] = tb[i]
      BY <2>0
    <3>2. Len(ta) = Len(a) /\ Len(tb) = Len(b)
      BY <1>3
    <3> QED BY <3>1, <3>2
  <2>2. ASSUME NEW i \in 1 .. Len(a) + Len(b) PROVE tc[i] = (ta \o tb)[i]
    <3>1. CASE i <= Len(a)
      BY <1>2, <1>4, <2>1, <3>1
    <3>2. CASE ~(i <= Len(a))
      <4>1. i - Len(a) \in 1 .. Len(b) /\ Len(a) + (i - Len(a)) = i
        BY <1>2, <3>2
      <4> QED BY <1>4, <2>1, <4>1
    <3> QED BY <3>1, <3>2
  <2>3. Len(tc) = Len(ta \o tb) /\ \A i \in 1 .. Len(tc) : tc[i] = (ta \o tb)[i]
    BY <1>3, <2>1, <2>2
  <2> QED BY <1>3, <2>1, <2>3, SeqEqual
<1> QED BY <1>5, <1>6 DEF TextOfRows, TextsOf

LEMMA TextOfOneRow ==
    ASSUME NEW row \in RowSet, NEW kinds
    PROVE  TextOfRows(<<row>>, kinds) = IF row[1] \in kinds THEN row[2] ELSE <<>>
<1> DEFINE text == IF row[1] \in kinds THEN row[2] ELSE <<>>
<1>1. text \in Seq(Unit)
  BY DEF RowSet
<1>2. [i \in DOMAIN <<row>> |-> IF <<row>>[i][1] \in kinds THEN <<row>>[i][2] ELSE <<>>] = <<text>>
  OBVIOUS
<1>3. FlattenSeq(<<text>>) = text
  <2> HIDE DEF text
  <2> QED BY <1>1, FlattenOne
<1> QED BY <1>2, <1>3 DEF TextOfRows

LEMMA TextOfNoRow == ASSUME NEW kinds PROVE TextOfRows(<<>>, kinds) = <<>>
<1>1. [i \in DOMAIN <<>> |-> IF <<>>[i][1] \in kinds THEN <<>>[i][2] ELSE <<>>] = <<>>
  OBVIOUS
<1> QED BY <1>1, FlattenEmpty DEF TextOfRows

\* The rows of one change.
LEMMA ColumnRowsOf ==
    ASSUME NEW c \in ChangeSet, NEW self \in {"removed", "added"}
    PROVE  /\ ColumnRows(c, self) \in Seq(RowSet)
           /\ TextOfRows(ColumnRows(c, self), {"same", self}) =
                 IF c.kind \in {"same", self} THEN c.value ELSE <<>>
           /\ Len(ColumnRows(c, self)) = IF c.kind = "same" THEN Len(c.value) ELSE 1
<1>1. /\ c.kind \in {"same", "removed", "added"} /\ c.value \in Seq(Unit)
      /\ DOMAIN c.value = 1 .. Len(c.value) /\ Len(c.value) \in Nat
      /\ \A i \in DOMAIN c.value : c.value[i] \in Unit
  BY DEF ChangeSet
<1>2. CASE c.kind = "same"
  <2> DEFINE rows == [i \in DOMAIN c.value |-> <<"same", <<c.value[i]>> >>]
  <2>1. ColumnRows(c, self) = rows
    BY <1>2 DEF ColumnRows
  <2>2. ASSUME NEW i \in DOMAIN c.value PROVE <<"same", <<c.value[i]>> >> \in RowSet
    <3> DEFINE line == <<c.value[i]>>
    <3>1. line \in Seq(Unit)
      BY <1>1
    <3> HIDE DEF line
    <3>2. <<"same", line>> \in RowSet
      BY <3>1 DEF RowSet
    <3> QED BY <3>2 DEF line
  <2>3. rows \in Seq(RowSet) /\ Len(rows) = Len(c.value) /\ DOMAIN rows = DOMAIN c.value
    BY <1>1, <2>2
  <2>4. \A i \in DOMAIN rows : /\ rows[i][1] = "same" /\ rows[i][2] = <<c.value[i]>>
    BY <2>3
  <2>5. [i \in DOMAIN rows |-> IF rows[i][1] \in {"same", self} THEN rows[i][2] ELSE <<>>]
           = [i \in DOMAIN c.value |-> <<c.value[i]>>]
    BY <2>3, <2>4
  <2>6. TextOfRows(rows, {"same", self}) = FlattenSeq([i \in DOMAIN c.value |-> <<c.value[i]>>])
    BY <2>5 DEF TextOfRows
  <2>7. TextOfRows(rows, {"same", self}) = c.value
    BY <1>1, <2>6, FlattenUnits
  <2> HIDE DEF rows
  <2> QED BY <1>2, <2>1, <2>3, <2>7
<1>3. CASE c.kind # "same"
  <2> DEFINE row == IF c.kind = self THEN <<self, c.value>> ELSE <<"placeholder", <<>> >>
  <2>1. ColumnRows(c, self) = <<row>>
    BY <1>3 DEF ColumnRows
  <2>2. /\ row \in RowSet /\ row[1] = (IF c.kind = self THEN self ELSE "placeholder")
        /\ row[2] = IF c.kind = self THEN c.value ELSE <<>>
    <3>1. <<>> \in Seq(Unit)
      OBVIOUS
    <3>2. CASE c.kind = self
      BY <1>1, <3>2 DEF RowSet
    <3>3. CASE c.kind # self
      BY <3>1, <3>3 DEF RowSet
    <3> QED BY <3>2, <3>3
  <2> HIDE DEF row
  <2>3. TextOfRows(<<row>>, {"same", self}) = IF row[1] \in {"same", self} THEN row[2] ELSE <<>>
    BY <2>2, TextOfOneRow
  <2>4. TextOfRows(<<row>>, {"same", self}) = IF c.kind \in {"same", self} THEN c.value ELSE <<>>
    BY <1>3, <2>2, <2>3
  <2>5. <<row>> \in Seq(RowSet) /\ Len(<<row>>) = 1
    BY <2>2
  <2> QED BY <1>3, <2>1, <2>4, <2>5
<1> QED BY <1>2, <1>3

\* A column is made change by change, and so is the other view.
LEMMA ColumnConcat ==
    ASSUME NEW a \in Seq(ChangeSet), NEW c \in ChangeSet, NEW self \in {"removed", "added"}
    PROVE  /\ ColumnOf(a, self) \in Seq(RowSet)
           /\ ColumnOf(a \o <<c>>, self) = ColumnOf(a, self) \o ColumnRows(c, self)
           /\ UnifiedOf(a) \in Seq(RowSet)
           /\ UnifiedOf(a \o <<c>>) = UnifiedOf(a) \o << <<c.kind, c.value>> >>
<1> DEFINE n == Len(a)
           ra == [i \in DOMAIN a |-> ColumnRows(a[i], self)]
           rc == [i \in DOMAIN (a \o <<c>>) |-> ColumnRows((a \o <<c>>)[i], self)]
           last == ColumnRows(c, self)
<1>1. /\ n \in Nat /\ DOMAIN a = 1 .. n /\ DOMAIN (a \o <<c>>) = 1 .. n + 1
      /\ \A i \in 1 .. n : a[i] \in ChangeSet /\ (a \o <<c>>)[i] = a[i]
      /\ (a \o <<c>>)[n + 1] = c
  OBVIOUS
<1>2. last \in Seq(RowSet) /\ \A i \in 1 .. n : ColumnRows(a[i], self) \in Seq(RowSet)
  BY <1>1, ColumnRowsOf
<1>3. /\ ra \in Seq(Seq(RowSet)) /\ Len(ra) = n /\ DOMAIN rc = 1 .. n + 1
      /\ rc \in Seq(Seq(RowSet)) /\ Len(rc) = n + 1
      /\ \A i \in 1 .. n : rc[i] = ra[i]
      /\ rc[n + 1] = last
  BY <1>1, <1>2
<1> HIDE DEF n, ra, rc, last
<1>4. rc = ra \o <<last>>
  <2>1. /\ ra \o <<last>> \in Seq(Seq(RowSet)) /\ Len(ra \o <<last>>) = n + 1
        /\ \A i \in 1 .. n : (ra \o <<last>>)[i] = ra[i]
        /\ (ra \o <<last>>)[n + 1] = last
    BY <1>2, <1>3
  <2>2. \A i \in 1 .. n + 1 : rc[i] = (ra \o <<last>>)[i]
    BY <1>1, <1>3, <2>1
  <2>3. rc \in Seq(Seq(RowSet)) /\ Len(rc) = Len(ra \o <<last>>)
    BY <1>3, <2>1
  <2>4. \A i \in 1 .. Len(rc) : rc[i] = (ra \o <<last>>)[i]
    BY <1>3, <2>2
  <2> QED BY <2>1, <2>3, <2>4, SeqEqual
<1>5. FlattenSeq(ra \o <<last>>) = FlattenSeq(ra) \o last
  <2>1. <<last>> \in Seq(Seq(RowSet))
    BY <1>2
  <2>2. FlattenSeq(ra \o <<last>>) = FlattenSeq(ra) \o FlattenSeq(<<last>>)
    BY <1>3, <2>1, FlattenConcat
  <2>3. FlattenSeq(<<last>>) = last
    BY <1>2, FlattenOne
  <2> QED BY <2>2, <2>3
<1>6. FlattenSeq(ra) \in Seq(RowSet)
  BY <1>3, FlattenType
<1>7. ColumnOf(a, self) \in Seq(RowSet) /\ ColumnOf(a \o <<c>>, self) = ColumnOf(a, self) \o last
  BY <1>4, <1>5, <1>6 DEF ColumnOf, ra, rc
<1>8. ASSUME NEW e \in ChangeSet PROVE <<e.kind, e.value>> \in RowSet
  BY <1>8 DEF ChangeSet, RowSet
<1> DEFINE ua == UnifiedOf(a)
           uc == UnifiedOf(a \o <<c>>)
           row == <<c.kind, c.value>>
<1>9. /\ ua \in Seq(RowSet) /\ Len(ua) = n /\ row \in RowSet
      /\ uc = [i \in 1 .. n + 1 |-> <<(a \o <<c>>)[i].kind, (a \o <<c>>)[i].value>>]
      /\ ua = [i \in 1 .. n |-> <<a[i].kind, a[i].value>>]
  BY <1>1, <1>8 DEF UnifiedOf
<1>10. /\ \A i \in 1 .. n : uc[i] = ua[i]
       /\ uc[n + 1] = row
  <2> DEFINE more == a \o <<c>>
  <2>1. /\ \A i \in 1 .. n : more[i] = a[i]
        /\ more[n + 1] = c /\ n \in Nat
        /\ uc = [i \in 1 .. n + 1 |-> <<more[i].kind, more[i].value>>]
    BY <1>1, <1>9
  <2> HIDE DEF more, uc, ua
  <2>2. \A i \in 1 .. n + 1 : uc[i] = <<more[i].kind, more[i].value>>
    BY <2>1
  <2>3. \A i \in 1 .. n : ua[i] = <<a[i].kind, a[i].value>> /\ i \in 1 .. n + 1
    BY <1>9, <2>1
  <2>4. n + 1 \in 1 .. n + 1
    BY <2>1
  <2> QED BY <2>1, <2>2, <2>3, <2>4
<1>11. \A i \in 1 .. n + 1 : uc[i] \in RowSet
  BY <1>1, <1>9, <1>10
<1> HIDE DEF ua, uc, row
<1>12. uc \in Seq(RowSet) /\ Len(uc) = n + 1
  <2>1. DOMAIN uc = 1 .. n + 1 /\ uc = [i \in 1 .. n + 1 |-> uc[i]]
    BY <1>9
  <2>2. uc \in [1 .. n + 1 -> RowSet]
    BY <1>11, <2>1
  <2>3. n + 1 \in Nat
    BY <1>1
  <2> QED BY <2>2, <2>3
<1>13. uc = ua \o <<row>>
  <2>0. ua \in Seq(RowSet) /\ Len(ua) = n /\ <<row>> \in Seq(RowSet) /\ Len(<<row>>) = 1
        /\ <<row>>[1] = row
    BY <1>9
  <2>1. /\ ua \o <<row>> \in Seq(RowSet) /\ Len(ua \o <<row>>) = n + 1
        /\ \A i \in 1 .. n : (ua \o <<row>>)[i] = ua[i]
        /\ (ua \o <<row>>)[n + 1] = row
    BY <1>1, <2>0
  <2>2. \A i \in 1 .. n + 1 : uc[i] = (ua \o <<row>>)[i]
    BY <1>1, <1>10, <2>1
  <2> QED BY <1>12, <2>1, <2>2, SeqEqual
<1> QED BY <1>7, <1>9, <1>13 DEF last, ua, uc, row

\* Whatever the changes: both columns have the same length, and a column says
\* what the other view says of its side (renderSideBySideDiff).
THEOREM ColumnsShowTheChanges ==
    ASSUME NEW changes \in Seq(ChangeSet)
    PROVE  /\ Len(ColumnOf(changes, "removed")) = Len(ColumnOf(changes, "added"))
           /\ \A self \in {"removed", "added"} :
                 TextOfRows(ColumnOf(changes, self), {"same", self}) =
                    TextOfRows(UnifiedOf(changes), {"same", self})
<1> DEFINE Shows(cs) ==
              /\ Len(ColumnOf(cs, "removed")) = Len(ColumnOf(cs, "added"))
              /\ \A self \in {"removed", "added"} :
                    TextOfRows(ColumnOf(cs, self), {"same", self}) =
                       TextOfRows(UnifiedOf(cs), {"same", self})
           S == {k \in Nat : k <= Len(changes) => Shows(SubSeq(changes, 1, k))}
<1>1. 0 \in S
  <2>1. SubSeq(changes, 1, 0) = <<>>
    OBVIOUS
  <2>2. \A self \in {"removed", "added"} : ColumnOf(<<>>, self) = <<>> /\ UnifiedOf(<<>>) = <<>>
    <3>1. \A self : [i \in DOMAIN <<>> |-> ColumnRows(<<>>[i], self)] = <<>>
      OBVIOUS
    <3>2. [i \in DOMAIN <<>> |-> <<(<<>>)[i].kind, (<<>>)[i].value>>] = <<>>
      OBVIOUS
    <3> QED BY <3>1, <3>2, FlattenEmpty DEF ColumnOf, UnifiedOf
  <2>3. Shows(<<>>)
    BY <2>2
  <2> HIDE DEF Shows
  <2> QED BY <2>1, <2>3
<1>2. ASSUME NEW k \in Nat, k \in S PROVE k + 1 \in S
  <2> SUFFICES ASSUME k + 1 <= Len(changes) PROVE Shows(SubSeq(changes, 1, k + 1))
    OBVIOUS
  <2> DEFINE cs == SubSeq(changes, 1, k)
             c == changes[k + 1]
  <2>1. /\ cs \in Seq(ChangeSet) /\ c \in ChangeSet
        /\ SubSeq(changes, 1, k + 1) = cs \o <<c>>
    OBVIOUS
  <2>2. Shows(cs)
    BY <1>2
  <2> HIDE DEF cs, c
  <2>3. ASSUME NEW self \in {"removed", "added"}
        PROVE  TextOfRows(ColumnOf(cs \o <<c>>, self), {"same", self}) =
                  TextOfRows(UnifiedOf(cs \o <<c>>), {"same", self})
    <3> DEFINE kinds == {"same", self}
               text == IF c.kind \in kinds THEN c.value ELSE <<>>
    <3>1. /\ ColumnOf(cs, self) \in Seq(RowSet) /\ UnifiedOf(cs) \in Seq(RowSet)
          /\ ColumnOf(cs \o <<c>>, self) = ColumnOf(cs, self) \o ColumnRows(c, self)
          /\ UnifiedOf(cs \o <<c>>) = UnifiedOf(cs) \o << <<c.kind, c.value>> >>
      BY <2>1, ColumnConcat
    <3>2. /\ ColumnRows(c, self) \in Seq(RowSet)
          /\ TextOfRows(ColumnRows(c, self), kinds) = text
      BY <2>1, ColumnRowsOf
    <3>3. <<c.kind, c.value>> \in RowSet
      BY <2>1 DEF ChangeSet, RowSet
    <3>4. /\ << <<c.kind, c.value>> >> \in Seq(RowSet)
          /\ TextOfRows(<< <<c.kind, c.value>> >>, kinds) = text
      <4>1. TextOfRows(<< <<c.kind, c.value>> >>, kinds) =
               IF <<c.kind, c.value>>[1] \in kinds THEN <<c.kind, c.value>>[2] ELSE <<>>
        BY <3>3, TextOfOneRow
      <4> QED BY <3>3, <4>1
    <3> HIDE DEF kinds, text
    <3>5. TextOfRows(ColumnOf(cs, self) \o ColumnRows(c, self), kinds) =
             TextOfRows(ColumnOf(cs, self), kinds) \o text
      BY <3>1, <3>2, TextConcat
    <3>6. TextOfRows(UnifiedOf(cs) \o << <<c.kind, c.value>> >>, kinds) =
             TextOfRows(UnifiedOf(cs), kinds) \o text
      BY <3>1, <3>4, TextConcat
    <3>7. TextOfRows(ColumnOf(cs, self), kinds) = TextOfRows(UnifiedOf(cs), kinds)
      BY <2>2 DEF kinds
    <3> QED BY <3>1, <3>5, <3>6, <3>7 DEF kinds
  <2>4. Len(ColumnOf(cs \o <<c>>, "removed")) = Len(ColumnOf(cs \o <<c>>, "added"))
    <3>1. ASSUME NEW self \in {"removed", "added"}
          PROVE  Len(ColumnOf(cs \o <<c>>, self)) =
                    Len(ColumnOf(cs, self)) + (IF c.kind = "same" THEN Len(c.value) ELSE 1)
      <4> DEFINE rows == ColumnOf(cs, self)
                 more == ColumnRows(c, self)
      <4>1. rows \in Seq(RowSet) /\ ColumnOf(cs \o <<c>>, self) = rows \o more
        BY <2>1, ColumnConcat
      <4>2. more \in Seq(RowSet) /\ Len(more) = IF c.kind = "same" THEN Len(c.value) ELSE 1
        BY <2>1, ColumnRowsOf
      <4> HIDE DEF rows, more
      <4>3. Len(rows \o more) = Len(rows) + Len(more)
        <5>1. rows \in Seq(RowSet) /\ more \in Seq(RowSet)
          BY <4>1, <4>2
        <5> QED BY <5>1, ConcatProperties
      <4> QED BY <4>1, <4>2, <4>3 DEF rows
    <3> QED BY <2>2, <3>1
  <2>5. Shows(cs \o <<c>>)
    BY <2>3, <2>4
  <2> HIDE DEF Shows
  <2> QED BY <2>1, <2>5
<1>3. Len(changes) \in S
  <2>1. Len(changes) \in Nat
    OBVIOUS
  <2> HIDE DEF S
  <2> QED BY <1>1, <1>2, <2>1, NatSetInduction
<1>4. SubSeq(changes, 1, Len(changes)) = changes /\ Len(changes) <= Len(changes)
  OBVIOUS
<1>5. Shows(changes)
  <2> HIDE DEF Shows
  <2> QED BY <1>3, <1>4
<1> QED BY <1>5

Piece(kind, units) == IF units = <<>> THEN <<>> ELSE <<[kind |-> kind, value |-> units]>>

LEMMA PieceOf ==
    ASSUME NEW units \in Seq(Unit), NEW kind \in {"same", "removed", "added"}, NEW kinds
    PROVE  /\ Piece(kind, units) \in Seq(ChangeSet) /\ UnifiedOf(Piece(kind, units)) \in Seq(RowSet)
           /\ Len(Piece(kind, units)) = IF units = <<>> THEN 0 ELSE 1
           /\ units # <<>> => Piece(kind, units)[1].kind = kind
           /\ TextOfRows(UnifiedOf(Piece(kind, units)), kinds) =
                 IF kind \in kinds THEN units ELSE <<>>
<1>1. CASE units = <<>>
  <2>1. Piece(kind, units) = <<>>
    BY <1>1 DEF Piece
  <2>2. UnifiedOf(<<>>) = <<>>
    BY DEF UnifiedOf
  <2>3. TextOfRows(UnifiedOf(Piece(kind, units)), kinds) = <<>>
    BY <2>1, <2>2, TextOfNoRow
  <2>4. <<>> \in Seq(ChangeSet) /\ <<>> \in Seq(RowSet) /\ Len(<<>>) = 0
    OBVIOUS
  <2>5. UnifiedOf(Piece(kind, units)) = <<>>
    BY <2>1, <2>2
  <2>6. TextOfRows(UnifiedOf(Piece(kind, units)), kinds) = IF kind \in kinds THEN units ELSE <<>>
    BY <1>1, <2>3
  <2>7. Piece(kind, units) \in Seq(ChangeSet) /\ Len(Piece(kind, units)) = 0
    BY <2>1, <2>4
  <2>8. UnifiedOf(Piece(kind, units)) \in Seq(RowSet)
    BY <2>4, <2>5
  <2> QED BY <1>1, <2>6, <2>7, <2>8
<1>2. CASE units # <<>>
  <2> DEFINE c == [kind |-> kind, value |-> units]
  <2>1. Piece(kind, units) = <<c>> /\ c \in ChangeSet
    BY <1>2 DEF Piece, ChangeSet
  <2>2. UnifiedOf(<<c>>) = << <<kind, units>> >>
    BY DEF UnifiedOf
  <2>3. <<kind, units>> \in RowSet
    BY DEF RowSet
  <2>4. TextOfRows(<< <<kind, units>> >>, kinds) = IF kind \in kinds THEN units ELSE <<>>
    BY <2>3, TextOfOneRow
  <2>5. UnifiedOf(Piece(kind, units)) = << <<kind, units>> >>
    BY <2>1, <2>2
  <2>6. /\ <<c>> \in Seq(ChangeSet) /\ Len(<<c>>) = 1 /\ <<c>>[1].kind = kind
        /\ << <<kind, units>> >> \in Seq(RowSet)
    BY <2>1, <2>3
  <2> HIDE DEF c
  <2> QED BY <1>2, <2>1, <2>4, <2>5, <2>6
<1> QED BY <1>1, <1>2

LEMMA UnifiedConcat ==
    ASSUME NEW a \in Seq(ChangeSet), NEW b \in Seq(ChangeSet), NEW kinds
    PROVE  /\ UnifiedOf(a) \in Seq(RowSet)
           /\ UnifiedOf(a \o b) = UnifiedOf(a) \o UnifiedOf(b)
           /\ TextOfRows(UnifiedOf(a \o b), kinds) =
                 TextOfRows(UnifiedOf(a), kinds) \o TextOfRows(UnifiedOf(b), kinds)
<1>1. ASSUME NEW cs \in Seq(ChangeSet)
      PROVE  /\ UnifiedOf(cs) \in Seq(RowSet) /\ Len(UnifiedOf(cs)) = Len(cs)
             /\ \A i \in 1 .. Len(cs) : UnifiedOf(cs)[i] = <<cs[i].kind, cs[i].value>>
  <2>1. DOMAIN cs = 1 .. Len(cs) /\ Len(cs) \in Nat /\ \A i \in 1 .. Len(cs) : cs[i] \in ChangeSet
    OBVIOUS
  <2>2. \A c \in ChangeSet : <<c.kind, c.value>> \in RowSet
    BY DEF ChangeSet, RowSet
  <2> QED BY <2>1, <2>2 DEF UnifiedOf
<1>2. /\ a \o b \in Seq(ChangeSet) /\ Len(a \o b) = Len(a) + Len(b)
      /\ Len(a) \in Nat /\ Len(b) \in Nat
      /\ \A i \in 1 .. Len(a) : (a \o b)[i] = a[i]
      /\ \A i \in 1 .. Len(b) : (a \o b)[Len(a) + i] = b[i]
  OBVIOUS
<1> DEFINE ua == UnifiedOf(a)
           ub == UnifiedOf(b)
           uc == UnifiedOf(a \o b)
<1>3. /\ ua \in Seq(RowSet) /\ ub \in Seq(RowSet) /\ uc \in Seq(RowSet)
      /\ Len(ua) = Len(a) /\ Len(ub) = Len(b) /\ Len(uc) = Len(a) + Len(b)
  BY <1>1, <1>2
<1>4. /\ \A i \in 1 .. Len(a) : uc[i] = ua[i]
      /\ \A i \in 1 .. Len(b) : uc[Len(a) + i] = ub[i]
  <2>1. ASSUME NEW i \in 1 .. Len(a) PROVE uc[i] = ua[i]
    <3>1. i \in 1 .. Len(a \o b) /\ (a \o b)[i] = a[i]
      BY <1>2
    <3> QED BY <1>1, <1>2, <3>1
  <2>2. ASSUME NEW i \in 1 .. Len(b) PROVE uc[Len(a) + i] = ub[i]
    <3>1. Len(a) + i \in 1 .. Len(a \o b) /\ (a \o b)[Len(a) + i] = b[i]
      BY <1>2
    <3> QED BY <1>1, <1>2, <3>1
  <2> QED BY <2>1, <2>2
<1> HIDE DEF ua, ub, uc
<1>5. uc = ua \o ub
  <2>0. ua \in Seq(RowSet) /\ ub \in Seq(RowSet)
    BY <1>3
  <2>1. /\ ua \o ub \in Seq(RowSet) /\ Len(ua \o ub) = Len(ua) + Len(ub)
        /\ \A i \in 1 .. Len(ua) : (ua \o ub)[i] = ua[i]
        /\ \A i \in 1 .. Len(ub) : (ua \o ub)[Len(ua) + i] = ub[i]
    BY <2>0
  <2>2. ASSUME NEW i \in 1 .. Len(uc) PROVE uc[i] = (ua \o ub)[i]
    <3>1. CASE i <= Len(a)
      BY <1>2, <1>3, <1>4, <2>1, <3>1
    <3>2. CASE ~(i <= Len(a))
      <4>1. i - Len(a) \in 1 .. Len(b) /\ Len(a) + (i - Len(a)) = i
        BY <1>2, <1>3, <3>2
      <4>2. uc[i] = ub[i - Len(a)] /\ (ua \o ub)[i] = ub[i - Len(a)]
        BY <1>3, <1>4, <2>1, <4>1
      <4> QED BY <4>2
    <3> QED BY <3>1, <3>2
  <2>3. Len(uc) = Len(ua \o ub)
    BY <1>3, <2>1
  <2> QED BY <1>3, <2>1, <2>2, <2>3, SeqEqual
<1>6. TextOfRows(ua \o ub, kinds) = TextOfRows(ua, kinds) \o TextOfRows(ub, kinds)
  BY <1>3, TextConcat
<1> QED BY <1>3, <1>5, <1>6 DEF ua, ub, uc

\* The changes the library finds: what both texts begin with, then what is left
\* of each.
LEMMA DiffIs ==
    ASSUME NEW old \in Seq(Unit), NEW new \in Seq(Unit)
    PROVE  \E same \in 0 .. Len(old) :
              /\ same <= Len(new) /\ \A i \in 1 .. same : old[i] = new[i]
              /\ old = new => same = Len(old)
              /\ ComputeDiff(old, new) =
                    Piece("same", SubSeq(old, 1, same))
                    \o Piece("removed", SubSeq(old, same + 1, Len(old)))
                    \o Piece("added", SubSeq(new, same + 1, Len(new)))
<1> DEFINE Common == {k \in 0 .. Len(old) : k <= Len(new) /\ \A i \in 1 .. k : old[i] = new[i]}
<1>1. Len(old) \in Nat /\ Len(new) \in Nat
  OBVIOUS
<1>2. 0 \in Common /\ Common \in SUBSET (0 .. Len(old))
  BY <1>1
<1>3. Max(Common) \in Common /\ \A k \in Common : k <= Max(Common)
  <2> HIDE DEF Common
  <2> QED BY <1>1, <1>2, GreatestNumber
<1>4. old = new => Max(Common) = Len(old)
  <2> SUFFICES ASSUME old = new PROVE Max(Common) = Len(old)
    OBVIOUS
  <2>1. Len(old) \in Common
    BY <1>1
  <2>2. Len(old) <= Max(Common) /\ Max(Common) \in 0 .. Len(old)
    BY <1>2, <1>3, <2>1
  <2> HIDE DEF Common
  <2> QED BY <1>1, <2>2
<1>5. ComputeDiff(old, new) =
         Piece("same", SubSeq(old, 1, Max(Common)))
         \o Piece("removed", SubSeq(old, Max(Common) + 1, Len(old)))
         \o Piece("added", SubSeq(new, Max(Common) + 1, Len(new)))
  BY DEF ComputeDiff, Piece
<1> DEFINE same == Max(Common)
<1>6. /\ same \in 0 .. Len(old) /\ same <= Len(new) /\ \A i \in 1 .. same : old[i] = new[i]
  BY <1>3
<1> HIDE DEF Common
<1> QED BY <1>4, <1>5, <1>6

\* Changes that lead from the one sequence to the other.
Leads(changes, old, new) ==
    /\ TextOfRows(UnifiedOf(changes), {"same", "removed"}) = old
    /\ TextOfRows(UnifiedOf(changes), {"same", "added"}) = new

\* Those found here do, and there is one only if there is something to change.
LEMMA DiffLeads ==
    ASSUME NEW old \in Seq(Unit), NEW new \in Seq(Unit)
    PROVE  /\ ComputeDiff(old, new) \in Seq(ChangeSet)
           /\ Leads(ComputeDiff(old, new), old, new)
           /\ (\E i \in DOMAIN ComputeDiff(old, new) : ComputeDiff(old, new)[i].kind # "same")
                 <=> old # new
<1>1. PICK same \in 0 .. Len(old) :
         /\ same <= Len(new) /\ \A i \in 1 .. same : old[i] = new[i]
         /\ old = new => same = Len(old)
         /\ ComputeDiff(old, new) =
               Piece("same", SubSeq(old, 1, same))
               \o Piece("removed", SubSeq(old, same + 1, Len(old)))
               \o Piece("added", SubSeq(new, same + 1, Len(new)))
  BY DiffIs
<1> DEFINE begin == SubSeq(old, 1, same)
           gone == SubSeq(old, same + 1, Len(old))
           come == SubSeq(new, same + 1, Len(new))
<1>2. /\ Len(old) \in Nat /\ Len(new) \in Nat /\ same \in Nat
      /\ begin \in Seq(Unit) /\ gone \in Seq(Unit) /\ come \in Seq(Unit)
      /\ Len(gone) = Len(old) - same /\ Len(come) = Len(new) - same
  BY <1>1
<1>3. begin \o gone = old
  BY CutInTwo
<1>4. begin \o come = new
  <2>1. begin = SubSeq(new, 1, same)
    BY <1>1, <1>2
  <2>2. SubSeq(new, 1, same) \o come = new
    <3>1. same \in 0 .. Len(new)
      BY <1>1, <1>2
    <3> QED BY <3>1, CutInTwo
  <2> QED BY <2>1, <2>2
<1>5. gone = <<>> /\ come = <<>> <=> old = new
  <2>1. ASSUME old = new PROVE gone = <<>> /\ come = <<>>
    BY <1>1, <1>2, <2>1
  <2>2. ASSUME gone = <<>>, come = <<>> PROVE old = new
    BY <1>3, <1>4, <2>2
  <2> QED BY <2>1, <2>2
<1> HIDE DEF begin, gone, come
<1> DEFINE p == Piece("same", begin)
           q == Piece("removed", gone)
           r == Piece("added", come)
<1>6. /\ p \in Seq(ChangeSet) /\ q \in Seq(ChangeSet) /\ r \in Seq(ChangeSet)
      /\ Len(p) = (IF begin = <<>> THEN 0 ELSE 1) /\ Len(q) = (IF gone = <<>> THEN 0 ELSE 1)
      /\ Len(r) = (IF come = <<>> THEN 0 ELSE 1)
      /\ begin # <<>> => p[1].kind = "same"
      /\ gone # <<>> => q[1].kind = "removed"
      /\ come # <<>> => r[1].kind = "added"
  BY <1>2, PieceOf
<1>7. ASSUME NEW kinds
      PROVE  TextOfRows(UnifiedOf(p \o q \o r), kinds) =
                (IF "same" \in kinds THEN begin ELSE <<>>)
                \o (IF "removed" \in kinds THEN gone ELSE <<>>)
                \o (IF "added" \in kinds THEN come ELSE <<>>)
  <2>1. /\ TextOfRows(UnifiedOf(p), kinds) = (IF "same" \in kinds THEN begin ELSE <<>>)
        /\ TextOfRows(UnifiedOf(q), kinds) = (IF "removed" \in kinds THEN gone ELSE <<>>)
        /\ TextOfRows(UnifiedOf(r), kinds) = (IF "added" \in kinds THEN come ELSE <<>>)
    BY <1>2, PieceOf
  <2> HIDE DEF p, q, r
  <2>2. p \o q \in Seq(ChangeSet)
    BY <1>6
  <2>3. TextOfRows(UnifiedOf((p \o q) \o r), kinds) =
           TextOfRows(UnifiedOf(p \o q), kinds) \o TextOfRows(UnifiedOf(r), kinds)
    BY <1>6, <2>2, UnifiedConcat
  <2>4. TextOfRows(UnifiedOf(p \o q), kinds) =
           TextOfRows(UnifiedOf(p), kinds) \o TextOfRows(UnifiedOf(q), kinds)
    BY <1>6, UnifiedConcat
  <2> QED BY <2>1, <2>3, <2>4
<1>8. ComputeDiff(old, new) = p \o q \o r
  BY <1>1 DEF begin, gone, come
<1> HIDE DEF p, q, r
<1>9. /\ TextOfRows(UnifiedOf(p \o q \o r), {"same", "removed"}) = begin \o gone \o <<>>
      /\ TextOfRows(UnifiedOf(p \o q \o r), {"same", "added"}) = begin \o <<>> \o come
  <2>1. TextOfRows(UnifiedOf(p \o q \o r), {"same", "removed"}) =
           (IF "same" \in {"same", "removed"} THEN begin ELSE <<>>)
           \o (IF "removed" \in {"same", "removed"} THEN gone ELSE <<>>)
           \o (IF "added" \in {"same", "removed"} THEN come ELSE <<>>)
    BY <1>7
  <2>2. TextOfRows(UnifiedOf(p \o q \o r), {"same", "added"}) =
           (IF "same" \in {"same", "added"} THEN begin ELSE <<>>)
           \o (IF "removed" \in {"same", "added"} THEN gone ELSE <<>>)
           \o (IF "added" \in {"same", "added"} THEN come ELSE <<>>)
    BY <1>7
  <2> QED BY <2>1, <2>2
<1>10. begin \o gone \o <<>> = old /\ begin \o <<>> \o come = new
  <2>1. begin \o <<>> = begin /\ begin \o gone \in Seq(Unit)
    BY <1>2
  <2>2. (begin \o gone) \o <<>> = begin \o gone
    BY <2>1
  <2> QED BY <1>3, <1>4, <2>1, <2>2
<1>11. p \o q \o r \in Seq(ChangeSet)
  <2>1. p \o q \in Seq(ChangeSet)
    BY <1>6
  <2> QED BY <1>6, <2>1
<1>12. (\E i \in DOMAIN (p \o q \o r) : (p \o q \o r)[i].kind # "same") <=> old # new
  <2> DEFINE s == p \o q
             all == s \o r
  <2>0. p \in Seq(ChangeSet) /\ q \in Seq(ChangeSet)
    BY <1>6
  <2>1. /\ s \in Seq(ChangeSet) /\ Len(s) = Len(p) + Len(q)
        /\ \A i \in 1 .. Len(p) : s[i] = p[i]
        /\ \A i \in 1 .. Len(q) : s[Len(p) + i] = q[i]
    BY <2>0, ConcatParts
  <2> HIDE DEF s
  <2>2. /\ DOMAIN all = 1 .. Len(s) + Len(r)
        /\ \A i \in 1 .. Len(s) : all[i] = s[i]
        /\ \A i \in 1 .. Len(r) : all[Len(s) + i] = r[i]
    <3>1. s \in Seq(ChangeSet) /\ r \in Seq(ChangeSet)
      BY <1>6, <2>1
    <3> QED BY <3>1, ConcatParts
  <2> HIDE DEF all
  <2>3. ASSUME gone = <<>>, come = <<>>, NEW i \in DOMAIN all PROVE all[i].kind = "same"
    <3>1. Len(q) = 0 /\ Len(r) = 0 /\ DOMAIN all = 1 .. Len(p)
      BY <1>6, <2>1, <2>2, <2>3
    <3>2. i = 1 /\ begin # <<>> /\ Len(p) = 1 /\ Len(s) = 1
      BY <1>6, <2>1, <2>3, <3>1
    <3>3. all[1] = p[1]
      BY <2>1, <2>2, <3>2
    <3> QED BY <1>6, <3>2, <3>3
  <2>4. ASSUME gone # <<>> PROVE \E i \in DOMAIN all : all[i].kind # "same"
    <3>1. Len(q) = 1 /\ Len(p) \in Nat /\ Len(r) \in Nat /\ Len(s) = Len(p) + 1
      BY <1>6, <2>1, <2>4
    <3>2. s[Len(p) + 1] = q[1] /\ Len(p) + 1 \in 1 .. Len(s) /\ Len(p) + 1 \in DOMAIN all
      BY <2>1, <2>2, <3>1
    <3>3. all[Len(p) + 1] = q[1]
      BY <2>2, <3>2
    <3>4. all[Len(p) + 1].kind # "same"
      BY <1>6, <2>4, <3>3
    <3> QED BY <3>2, <3>4
  <2>5. ASSUME come # <<>> PROVE \E i \in DOMAIN all : all[i].kind # "same"
    <3>1. Len(r) = 1 /\ Len(s) \in Nat
      BY <1>6, <2>1, <2>5
    <3>2. all[Len(s) + 1] = r[1] /\ Len(s) + 1 \in DOMAIN all
      BY <2>2, <3>1
    <3>3. all[Len(s) + 1].kind # "same"
      BY <1>6, <2>5, <3>2
    <3> QED BY <3>2, <3>3
  <2>6. (\E i \in DOMAIN all : all[i].kind # "same") <=> old # new
    BY <1>5, <2>3, <2>4, <2>5
  <2> QED BY <2>6 DEF all, s
<1> QED BY <1>8, <1>9, <1>10, <1>11, <1>12 DEF Leads

\* Whatever changes a library finds, as long as they lead from the one sequence
\* to the other: both columns have the same length, each shows all of its side,
\* and nothing is left out of account when no change is shown (computeDiff,
\* renderUnifiedDiff and renderSideBySideDiff, by lines or by words).
THEOREM DiffShowsTheTexts ==
    ASSUME NEW changes \in Seq(ChangeSet), NEW old, NEW new, Leads(changes, old, new)
    PROVE  /\ Len(ColumnOf(changes, "removed")) = Len(ColumnOf(changes, "added"))
           /\ TextOfRows(ColumnOf(changes, "removed"), {"same", "removed"}) = old
           /\ TextOfRows(ColumnOf(changes, "added"), {"same", "added"}) = new
           /\ (\A i \in DOMAIN changes : changes[i].kind = "same") => old = new
<1>1. /\ Len(ColumnOf(changes, "removed")) = Len(ColumnOf(changes, "added"))
      /\ TextOfRows(ColumnOf(changes, "removed"), {"same", "removed"}) = old
      /\ TextOfRows(ColumnOf(changes, "added"), {"same", "added"}) = new
  BY ColumnsShowTheChanges DEF Leads
<1>2. ASSUME \A i \in DOMAIN changes : changes[i].kind = "same"
      PROVE  old = new
  <2> DEFINE rows == UnifiedOf(changes)
  <2>1. DOMAIN rows = DOMAIN changes /\ \A i \in DOMAIN rows : rows[i][1] = "same"
    BY <1>2 DEF UnifiedOf
  <2> HIDE DEF rows
  <2>2. [i \in DOMAIN rows |-> IF rows[i][1] \in {"same", "removed"} THEN rows[i][2] ELSE <<>>]
           = [i \in DOMAIN rows |-> IF rows[i][1] \in {"same", "added"} THEN rows[i][2] ELSE <<>>]
    BY <2>1
  <2>3. TextOfRows(rows, {"same", "removed"}) = TextOfRows(rows, {"same", "added"})
    BY <2>2 DEF TextOfRows
  <2> QED BY <2>3 DEF Leads, rows
<1> QED BY <1>1, <1>2

-----------------------------------------------------------------------------

CompareInv ==
    /\ CompareTypeOK
    /\ beingRead \in [Side -> Seq(TextFile)]
    /\ ComparedAreTheNamed

LEMMA CompareStarts == CompareInit => CompareInv
<1> SUFFICES ASSUME CompareInit PROVE CompareInv
  OBVIOUS
<1>1. /\ beingRead = [d \in Side |-> <<>>] /\ misread = {} /\ diffMode = "side-by-side"
      /\ granularity = "lines"
      /\ named = [d \in Side |-> NoTextFile] /\ content = [d \in Side |-> NoTextFile]
  BY DEF CompareInit
<1>2. MaxPicks \in Nat /\ Len(<<>>) = 0 /\ <<>> \in Seq(TextFile)
  BY CompareAssumption
<1>3. beingRead \in [Side -> Seq(TextFile)]
  BY <1>1, <1>2
<1>4. \A d \in Side : beingRead[d] \in Seq(TextFile) /\ Len(beingRead[d]) <= MaxPicks
  BY <1>1, <1>2
<1>5. CompareTypeOK
  BY <1>1, <1>4 DEF CompareTypeOK
<1>6. ComparedAreTheNamed
  BY <1>1 DEF ComparedAreTheNamed
<1> QED BY <1>3, <1>5, <1>6 DEF CompareInv

LEMMA CompareGoesOn == CompareInv /\ [CompareNext]_compareVars => CompareInv'
<1> SUFFICES ASSUME CompareInv, [CompareNext]_compareVars PROVE CompareInv'
  OBVIOUS
<1>0. /\ named \in [Side -> TextFile \union {NoTextFile}]
      /\ content \in [Side -> TextFile \union {NoTextFile}]
      /\ beingRead \in [Side -> Seq(TextFile)] /\ misread \subseteq Side
      /\ diffMode \in {"unified", "side-by-side"} /\ granularity \in {"lines", "words"}
      /\ MaxPicks \in Nat
      /\ \A d \in Side : beingRead[d] \in Seq(TextFile) /\ Len(beingRead[d]) <= MaxPicks
      /\ \A d \in Side : beingRead[d] = <<>> /\ d \notin misread => content[d] = named[d]
  BY CompareAssumption DEF CompareInv, CompareTypeOK, ComparedAreTheNamed
<1>1. ASSUME NEW d \in Side, NEW f \in TextFile, HandlePick(d, f) PROVE CompareInv'
  <2>1. /\ named' = [named EXCEPT ![d] = f] /\ UNCHANGED <<content, diffMode, granularity, misread>>
        /\ beingRead' = [beingRead EXCEPT ![d] = Append(beingRead[d], f)]
        /\ Len(beingRead[d]) < MaxPicks
    BY <1>1 DEF HandlePick
  <2> DEFINE more == Append(beingRead[d], f)
  <2>2. more \in Seq(TextFile) /\ Len(more) <= MaxPicks /\ more # <<>>
    <3> DEFINE s == beingRead[d]
    <3>1. s \in Seq(TextFile) /\ Len(s) < MaxPicks
      BY <1>0, <2>1
    <3> HIDE DEF s
    <3>2. /\ Append(s, f) \in Seq(TextFile) /\ Len(Append(s, f)) = Len(s) + 1
          /\ Len(s) \in Nat /\ Append(s, f) # <<>>
      BY <3>1
    <3> QED BY <1>0, <3>1, <3>2 DEF s
  <2> HIDE DEF more
  <2>3. beingRead' = [beingRead EXCEPT ![d] = more]
    BY <2>1 DEF more
  <2>4. beingRead' \in [Side -> Seq(TextFile)]
    BY <1>0, <2>2, <2>3
  <2>5. \A e \in Side : /\ beingRead'[e] \in Seq(TextFile) /\ Len(beingRead'[e]) <= MaxPicks
                        /\ beingRead'[e] = <<>> => e # d /\ beingRead[e] = <<>>
    BY <1>0, <2>2, <2>3
  <2>6. CompareTypeOK'
    BY <1>0, <2>1, <2>5 DEF CompareTypeOK
  <2>7. ComparedAreTheNamed'
    BY <1>0, <2>1, <2>5 DEF ComparedAreTheNamed
  <2> QED BY <2>4, <2>6, <2>7 DEF CompareInv
<1>2. ASSUME NEW d \in Side, NEW i \in 1 .. MaxPicks, ReadAsText(d, i) PROVE CompareInv'
  <2> DEFINE rest == SubSeq(beingRead[d], 1, i - 1)
                     \o SubSeq(beingRead[d], i + 1, Len(beingRead[d]))
             f == beingRead[d][i]
  <2>1. /\ i \in DOMAIN beingRead[d] /\ UNCHANGED <<named, diffMode, granularity>>
        /\ beingRead' = [beingRead EXCEPT ![d] = rest]
        /\ \/ /\ content' = [content EXCEPT ![d] = f]
              /\ misread' = IF f = named[d] THEN misread \ {d} ELSE misread \union {d}
           \/ content' = content /\ misread' = misread \union {d}
    BY <1>2 DEF ReadAsText
  <2>2. f \in TextFile
    BY <1>0, <2>1
  <2>3. rest \in Seq(TextFile) /\ Len(rest) <= MaxPicks
    <3> DEFINE s == beingRead[d]
               left == SubSeq(s, 1, i - 1)
               right == SubSeq(s, i + 1, Len(s))
    <3>1. s \in Seq(TextFile) /\ Len(s) <= MaxPicks /\ Len(s) \in Nat /\ i \in 1 .. Len(s)
      BY <1>0, <2>1
    <3> HIDE DEF s
    <3>2. /\ left \in Seq(TextFile) /\ Len(left) = i - 1
          /\ right \in Seq(TextFile) /\ Len(right) = Len(s) - i
      BY <3>1
    <3> HIDE DEF left, right
    <3>3. left \o right \in Seq(TextFile) /\ Len(left \o right) = Len(left) + Len(right)
      BY <3>2, ConcatProperties
    <3>4. Len(left \o right) <= MaxPicks
      BY <1>0, <3>1, <3>2, <3>3
    <3> QED BY <3>3, <3>4 DEF left, right, s
  <2> HIDE DEF rest, f
  <2>4. beingRead' \in [Side -> Seq(TextFile)]
    BY <1>0, <2>1, <2>3
  <2>5. \A e \in Side : /\ beingRead'[e] \in Seq(TextFile) /\ Len(beingRead'[e]) <= MaxPicks
                        /\ e # d => beingRead'[e] = beingRead[e]
    BY <1>0, <2>1, <2>3
  <2>6. /\ content' \in [Side -> TextFile \union {NoTextFile}] /\ misread' \subseteq Side
        /\ \A e \in Side \ {d} : content'[e] = content[e] /\ (e \in misread' <=> e \in misread)
        /\ d \notin misread' => content'[d] = named[d]
    BY <1>0, <2>1, <2>2
  <2>7. CompareTypeOK'
    BY <1>0, <2>1, <2>5, <2>6 DEF CompareTypeOK
  <2>8. ComparedAreTheNamed'
    BY <1>0, <2>1, <2>5, <2>6 DEF ComparedAreTheNamed
  <2> QED BY <2>4, <2>7, <2>8 DEF CompareInv
<1>3. ASSUME NEW d \in Side, RemovePicked(d) PROVE CompareInv'
  <2>1. /\ named' = [named EXCEPT ![d] = NoTextFile]
        /\ content' = [content EXCEPT ![d] = NoTextFile]
        /\ misread' = misread \ {d} /\ UNCHANGED <<beingRead, diffMode, granularity>>
    BY <1>3 DEF RemovePicked
  <2>2. CompareTypeOK'
    BY <1>0, <2>1 DEF CompareTypeOK
  <2>3. ComparedAreTheNamed'
    BY <1>0, <2>1 DEF ComparedAreTheNamed
  <2> QED BY <1>0, <2>1, <2>2, <2>3 DEF CompareInv
<1>4. ASSUME NEW m \in {"unified", "side-by-side"}, SetDiffMode(m) PROVE CompareInv'
  <2>1. diffMode' = m /\ UNCHANGED <<named, content, beingRead, granularity, misread>>
    BY <1>4 DEF SetDiffMode
  <2> QED BY <1>0, <2>1 DEF CompareInv, CompareTypeOK, ComparedAreTheNamed
<1>5. ASSUME NEW g \in {"lines", "words"}, SetGranularity(g) PROVE CompareInv'
  <2>1. granularity' = g /\ UNCHANGED <<named, content, beingRead, diffMode, misread>>
    BY <1>5 DEF SetGranularity
  <2> QED BY <1>0, <2>1 DEF CompareInv, CompareTypeOK, ComparedAreTheNamed
<1>6. CASE UNCHANGED compareVars
  BY <1>6 DEF compareVars, CompareInv, CompareTypeOK, ComparedAreTheNamed
<1> QED BY <1>1, <1>2, <1>3, <1>4, <1>5, <1>6 DEF CompareNext

\* What is compared of a text is a sequence of lines, or of words.
LEMMA UnitsOfAText == ASSUME NEW text \in Seq(Line) PROVE Units(text) \in Seq(Unit)
<1>1. DOMAIN text = 1 .. Len(text) /\ Len(text) \in Nat /\ \A i \in DOMAIN text : text[i] \in Line
  OBVIOUS
<1>2. text \in Seq(Unit)
  BY <1>1 DEF Unit
<1> DEFINE words == [i \in DOMAIN text |-> WordsIn[text[i]]]
<1>3. \A i \in DOMAIN text : WordsIn[text[i]] \in Seq(Unit)
  <2>1. ASSUME NEW w \in Seq(Word) PROVE w \in Seq(Unit)
    BY <2>1 DEF Unit
  <2> QED BY <1>1, <2>1, CompareAssumption
<1>4. words \in Seq(Seq(Unit))
  BY <1>1, <1>3
<1>5. FlattenSeq(words) \in Seq(Unit)
  <2> HIDE DEF words
  <2> QED BY <1>4, FlattenType
<1> QED BY <1>2, <1>5 DEF Units

LEMMA CompareInvImplies == ASSUME CompareInv PROVE ComparisonIsOfTheFiles
<1>1. ComparedAreTheNamed
  BY DEF CompareInv
<1>2. \A d \in Side : Text(d) \in Seq(Line)
  <2>1. \A f \in TextFile : TextOf[f] \in Seq(Line)
    BY CompareAssumption
  <2>2. \A d \in Side : content[d] \in TextFile \union {NoTextFile}
    BY DEF CompareInv, CompareTypeOK
  <2>3. <<>> \in Seq(Line)
    OBVIOUS
  <2> QED BY <2>1, <2>2, <2>3 DEF Text
<1> DEFINE old == Units(Text("file1"))
           new == Units(Text("file2"))
<1>3. old \in Seq(Unit) /\ new \in Seq(Unit)
  BY <1>2, UnitsOfAText DEF Side
<1> HIDE DEF old, new
<1>4. /\ ComputeDiff(old, new) \in Seq(ChangeSet)
      /\ TextOfRows(UnifiedOf(ComputeDiff(old, new)), {"same", "removed"}) = old
      /\ TextOfRows(UnifiedOf(ComputeDiff(old, new)), {"same", "added"}) = new
      /\ (\E i \in DOMAIN ComputeDiff(old, new) : ComputeDiff(old, new)[i].kind # "same")
            <=> old # new
  BY <1>3, DiffLeads DEF Leads
<1>5. Diffs = ComputeDiff(old, new) /\ UnifiedRows = UnifiedOf(Diffs)
  BY DEF Diffs, old, new, UnifiedRows, UnifiedOf
<1>6. /\ Len(ColumnOf(Diffs, "removed")) = Len(ColumnOf(Diffs, "added"))
      /\ TextOfRows(ColumnOf(Diffs, "removed"), {"same", "removed"}) = old
      /\ TextOfRows(ColumnOf(Diffs, "added"), {"same", "added"}) = new
  BY <1>3, <1>5, DiffLeads, DiffShowsTheTexts
<1>7. /\ RenderSideBySide.left = ColumnOf(Diffs, "removed")
      /\ RenderSideBySide.right = ColumnOf(Diffs, "added")
  BY DEF RenderSideBySide
<1>8. HasDiff <=> old # new
  BY <1>4, <1>5 DEF HasDiff
<1>9. RowsAreTheTexts
  BY <1>4, <1>5, <1>6, <1>7, <1>8 DEF RowsAreTheTexts, old, new
<1> QED BY <1>1, <1>9 DEF ComparisonIsOfTheFiles

\* The texts compared are those of the files named, and either view shows all
\* that is compared of them: every line, or every word and none of the blanks
\* between the words (tools/file-compare, computeDiff and the two renderings).
THEOREM ComparisonStaysTrue == CompareSpec => []ComparisonIsOfTheFiles
<1>1. CompareInv => ComparisonIsOfTheFiles
  BY CompareInvImplies
<1> QED BY <1>1, CompareStarts, CompareGoesOn, PTL DEF CompareSpec

-----------------------------------------------------------------------------
(* The permissions of the spaces (SpacePermissions)                        *)

\* What a save has written so far, and what is left to write, is the matrix of
\* the page, unless something else touched it meanwhile.
SavingInv ==
    saving /\ spaceTreeKnown =>
        \A s \in Leaf \ touched :
            /\ savedMatrix[s] = bindingMatrix[s]
            /\ s \notin unsaved => storedAcl[s] = bindingMatrix[s]

PermissionsInv == PermissionsTypeOK /\ SavingInv /\ SavedMatrixIsStored

LEMMA PermissionsStart == PermissionsInit => PermissionsInv
BY DEF PermissionsInit, PermissionsInv, PermissionsTypeOK, SavingInv,
       SavedMatrixIsStored, Binding, NoBinding

LEMMA PermissionsGoOn ==
    PermissionsInv /\ [PermissionsNext]_permissionVars => PermissionsInv'
<1> SUFFICES ASSUME PermissionsInv, [PermissionsNext]_permissionVars PROVE PermissionsInv'
  OBVIOUS
<1> USE PermissionsAssumption
        DEF PermissionsInv, PermissionsTypeOK, Binding, NoBinding, serverVars, treeVars,
            saveVars
<1>1. CASE HandleResetMatrix \/ AclIsRead
  BY <1>1 DEF HandleResetMatrix, AclIsRead, SavingInv, SavedMatrixIsStored
<1>2. CASE LoadEnds
  <2>1. touched' = AclSpace /\ bindingMatrix' = aclData /\ aclData' = NoBinding
        /\ UNCHANGED <<storedAcl, otherEntries, saving, unsaved, savedMatrix, saveMessage>>
        /\ firstLoad' = FALSE /\ spaceTreeKnown' \in BOOLEAN /\ loadingAcl' = "no"
    BY <1>2 DEF LoadEnds
  <2> QED BY <2>1 DEF SavingInv, SavedMatrixIsStored
<1>3. CASE LoadFails
  BY <1>3 DEF LoadFails, SavingInv, SavedMatrixIsStored
<1>4. CASE HandleSaveMatrix
  BY <1>4 DEF HandleSaveMatrix, SavingInv, SavedMatrixIsStored
<1>5. CASE SaveEnds
  BY <1>5 DEF SaveEnds, SavingInv, SavedMatrixIsStored
<1>6. ASSUME NEW s \in Leaf, UpdateSpaceAcl(s) PROVE PermissionsInv'
  BY <1>6 DEF UpdateSpaceAcl, SpaceIsWritten, SavingInv, SavedMatrixIsStored
<1>7. ASSUME NEW s \in Leaf, UpdateFails(s) PROVE PermissionsInv'
  BY <1>7 DEF UpdateFails, SpaceIsWritten, SavingInv, SavedMatrixIsStored
<1>8. ASSUME NEW s \in AclSpace, NEW p \in Permission \union {Unbound}, UpdateBinding(s, p)
      PROVE  PermissionsInv'
  BY <1>8 DEF UpdateBinding, SavingInv, SavedMatrixIsStored
<1>9. ASSUME NEW s \in AclSpace, NEW p \in Permission \union {Unbound}, AnotherSave(s, p)
      PROVE  PermissionsInv'
  BY <1>9 DEF AnotherSave, SavingInv, SavedMatrixIsStored
<1>10. CASE UNCHANGED permissionVars
  BY <1>10 DEF permissionVars, SavingInv, SavedMatrixIsStored
<1> QED
  BY <1>1, <1>2, <1>3, <1>4, <1>5, <1>6, <1>7, <1>8, <1>9, <1>10 DEF PermissionsNext

\* Once the page says that the matrix has been saved, what it shows of a leaf is
\* what the server has, unless the user, a load or another administrator changed
\* that leaf since (settings/permissions, handleSave).
THEOREM SavedStaysStored == PermissionsSpec => []SavedMatrixIsStored
<1>1. PermissionsInv => SavedMatrixIsStored
  BY DEF PermissionsInv
<1> QED BY <1>1, PermissionsStart, PermissionsGoOn, PTL DEF PermissionsSpec

-----------------------------------------------------------------------------
(* All the pages                                                           *)

\* A page keeps its invariant while it is at work, and rests as it was opened while
\* another one is, which may move the statuses of the service.
PageInv ==
    /\ screen \in Screen
    /\ FormInv /\ OutlineInv /\ CompareInv /\ PermissionsInv
    /\ IF screen = "upload" THEN UploadInv ELSE UploadFresh
    /\ IF screen = "list" THEN ListInv ELSE ListFresh
    /\ IF screen = "views" THEN ViewsInv ELSE ViewFresh

LEMMA PagesStart == Init => PageInv
<1> SUFFICES ASSUME Init PROVE PageInv
  OBVIOUS
<1>1. /\ screen \in Screen /\ status \in FirstStatuses
      /\ UploadFresh /\ FormInit /\ ListFresh /\ ViewFresh
      /\ OutlineInit /\ CompareInit /\ PermissionsInit
  BY DEF Init
<1>2. ASSUME screen = "upload" PROVE UploadInv
  <2>1. UploadInit
    BY <1>1, <1>2 DEF FirstStatuses, UploadInit
  <2> QED BY <2>1, UploadStarts
<1>3. ASSUME screen = "list" PROVE ListInv
  <2>1. ListInit
    BY <1>1, <1>3 DEF FirstStatuses, ListInit
  <2> QED BY <2>1, ListStarts
<1>4. ASSUME screen = "views" PROVE ViewsInv
  <2>1. ViewInit
    BY <1>1, <1>4 DEF FirstStatuses, ViewInit
  <2> QED BY <2>1, ViewsStart
<1>5. FormInv /\ OutlineInv /\ CompareInv /\ PermissionsInv
  BY <1>1, FormStarts, OutlineInitInv, OutlineAssumption, CompareStarts, PermissionsStart
<1> QED BY <1>1, <1>2, <1>3, <1>4, <1>5 DEF PageInv

LEMMA PagesGoOn == PageInv /\ [Next]_vars => PageInv'
<1> SUFFICES ASSUME PageInv, [Next]_vars PROVE PageInv'
  OBVIOUS
<1>1. screen' = screen
  BY DEF Next, vars, OnUpload, OnForm, OnList, OnViews, OnOutline, OnCompare, OnPermissions
<1>2. /\ [FormNext]_formVars /\ [OutlineNext]_outlineVars
      /\ [CompareNext]_compareVars /\ [PermissionsNext]_permissionVars
  BY DEF Next, vars, OnUpload, OnForm, OnList, OnViews, OnOutline, OnCompare, OnPermissions
<1>3. /\ screen = "upload" => [UploadNext]_uploadVars
      /\ screen # "upload" => UNCHANGED pageVars
  BY DEF Next, vars, uploadVars, OnUpload, OnForm, OnList, OnViews, OnOutline, OnCompare,
         OnPermissions
<1>4. /\ screen = "list" => [ListNext]_listVars
      /\ screen # "list" => UNCHANGED listPageVars
  BY DEF Next, vars, listVars, OnUpload, OnForm, OnList, OnViews, OnOutline, OnCompare,
         OnPermissions
<1>5. /\ screen = "views" => [ViewNext]_viewVars
      /\ screen # "views" => UNCHANGED viewPageVars
  BY DEF Next, vars, viewVars, OnUpload, OnForm, OnList, OnViews, OnOutline, OnCompare,
         OnPermissions
<1>6. FormInv' /\ OutlineInv' /\ CompareInv' /\ PermissionsInv'
  BY <1>2, FormGoesOn, OutlineNextInv, OutlineAssumption, CompareGoesOn, PermissionsGoOn
     DEF PageInv
<1>7. IF screen = "upload" THEN UploadInv' ELSE UploadFresh'
  <2>1. CASE screen = "upload"
    BY <1>3, <2>1, UploadGoesOnSo DEF PageInv
  <2>2. CASE screen # "upload"
    <3>1. UploadFresh
      BY <2>2 DEF PageInv
    <3>2. /\ currentStep' = currentStep /\ chosen' = chosen /\ isProcessing' = isProcessing
          /\ mock' = mock /\ own' = own /\ current' = current /\ chain' = chain
          /\ ticking' = ticking /\ pollingRef' = pollingRef /\ polls' = polls
          /\ toldReady' = toldReady
      BY <1>3, <2>2 DEF pageVars, shownVars, pollVars
    <3>3. UploadFresh'
      BY <3>1, <3>2 DEF UploadFresh
    <3> QED BY <2>2, <3>3
  <2> QED BY <2>1, <2>2
<1>8. IF screen = "list" THEN ListInv' ELSE ListFresh'
  <2>1. CASE screen = "list"
    BY <1>4, <2>1, ListGoesOnSo DEF PageInv
  <2>2. CASE screen # "list"
    BY <1>4, <2>2 DEF PageInv, ListFresh, ListEmpty, listPageVars
  <2> QED BY <2>1, <2>2
<1>9. IF screen = "views" THEN ViewsInv' ELSE ViewFresh'
  <2>1. CASE screen = "views"
    BY <1>5, <2>1, ViewsGoOn DEF PageInv
  <2>2. CASE screen # "views"
    BY <1>5, <2>2 DEF PageInv, ViewFresh, viewPageVars
  <2> QED BY <2>1, <2>2
<1> QED BY <1>1, <1>6, <1>7, <1>8, <1>9 DEF PageInv

\* Every variable of the pages of documents keeps its type, and the bounds of what
\* may be under way are kept, whichever of the pages is at work.
THEOREM DocumentPagesStayTyped == Spec => []DocumentPagesTypeOK
<1>1. PageInv => DocumentPagesTypeOK
  BY DEF PageInv, DocumentPagesTypeOK, UploadInv, FormInv, ListInv, ViewsInv, OutlineInv,
         CompareInv, PermissionsInv
<1> QED BY <1>1, PagesStart, PagesGoOn, PTL DEF Spec

\* What the pages of documents say is true whichever of them is at work: also of a
\* page that rests while another one moves the documents it would show.
THEOREM DocumentPagesStayTrue ==
    Spec => [](/\ UploadIsTold /\ RequestIsOfTheChoice /\ ListIsTrue
               /\ ViewsFollowTheirDocument /\ ImportMakesTheOutline
               /\ SavedMatrixIsStored /\ ComparisonIsOfTheFiles)
<1>1. (IF screen = "upload" THEN UploadInv ELSE UploadFresh) => UploadIsTold
  <2>1. ASSUME UploadFresh PROVE UploadIsTold
    <3>1. Shown("rest") # "finish"
      BY <2>1 DEF UploadFresh, Shown, MockPipelineSteps, Step
    <3>2. ~Card
      BY <3>1 DEF Card, Step
    <3> QED BY <2>1, <3>2 DEF UploadFresh, UploadIsTold, CardNeedsAReadyDocument, WorkHasATask
  <2> QED BY <2>1, UploadInvImplies
<1>2. (IF screen = "list" THEN ListInv ELSE ListFresh) => ListIsTrue
  <2>1. ListFresh => ListIsTrue
    BY DEF ListFresh, ListEmpty, ListIsTrue, ReadyIsReal, FailedIsReal, RetryingHasCall
  <2> QED BY <2>1, ListInvImplies
<1>3. (IF screen = "views" THEN ViewsInv ELSE ViewFresh) => ViewsFollowTheirDocument
  <2>1. ViewFresh => ViewsFollowTheirDocument
    BY DEF ViewFresh, ViewsFollowTheirDocument, ShownIsOpened, StepsAreFollowed
  <2> QED BY <2>1, ViewsInvImplies
<1>4. FormInv /\ OutlineInv /\ CompareInv /\ PermissionsInv
      => /\ RequestIsOfTheChoice /\ ImportMakesTheOutline
         /\ ComparisonIsOfTheFiles /\ SavedMatrixIsStored
  BY FormInvImplies, OutlineInvImplies, CompareInvImplies DEF PermissionsInv
<1>5. PageInv => /\ UploadIsTold /\ RequestIsOfTheChoice /\ ListIsTrue
                 /\ ViewsFollowTheirDocument /\ ImportMakesTheOutline
                 /\ SavedMatrixIsStored /\ ComparisonIsOfTheFiles
  BY <1>1, <1>2, <1>3, <1>4 DEF PageInv
<1> QED BY <1>5, PagesStart, PagesGoOn, PTL DEF Spec
=============================================================================
