------------------------------ MODULE MCProgress ------------------------------
(***************************************************************************)
(* The pages that wait for something, for TLC's temporal checks.  An       *)
(* initial state chooses one of them; the others rest in a state in which  *)
(* none of their fair actions can happen.  TLC's cost doubles with every   *)
(* strongly fair action, and only the page that is open acts: so the       *)
(* strongly fair actions of the pages are joined, one of each page.        *)
(***************************************************************************)
EXTENDS RagChat, QuickIngest, UploadPage, DocumentList, DocumentViews,
        OutlineImport, Evaluation, TLC

CONSTANTS d1, c1

VARIABLE screen   \* what the portal shows

Screen == {"conversation", "files", "upload", "list", "views", "outline",
           "evaluation"}

\* The documents are new to the pages that store them; of those that are shown
\* one is on its way or waits for a retry, and the other one has been deleted or
\* is not registered yet.
OneIs(d1Status, other) == [d \in Doc |-> IF d = d1 THEN d1Status ELSE other]

FirstStatuses ==
    CASE screen \in {"files", "upload"} -> {OneIs("none", "none")}
      [] screen = "list"  -> {OneIs("FAILED", "gone")}
      [] screen = "views" -> {OneIs("PROCESSING", "none")}
      [] OTHER            -> {OneIs("READY", "READY")}

FirstCalls ==
    IF screen = "list" THEN ListFresh
    ELSE ListEmpty /\ call = [c \in Slot |-> NoCall]

FirstFetch ==
    IF screen = "evaluation" THEN EvaluationInit
    ELSE EvaluationIdle /\ datasetFetch = [c \in DatasetFetch |-> "none"]

Init ==
    /\ screen \in Screen
    /\ status \in FirstStatuses
    /\ ChatInit
    /\ QuickFresh
    /\ UploadFresh
    /\ FirstCalls
    /\ ViewFresh /\ view # "preview"
    /\ screen = "views" \/ view = "page"
    /\ OutlineInit
    /\ FirstFetch

AtConversation(A) ==
    /\ screen = "conversation"
    /\ UNCHANGED <<screen, status, quickPageVars, pageVars, listPageVars,
                  viewPageVars, outlineVars, evaluationVars>>
    /\ A

AtFiles(A) ==
    /\ screen = "files"
    /\ UNCHANGED <<screen, chatVars, pageVars, listPageVars, viewPageVars,
                  outlineVars, evaluationVars>>
    /\ A

AtUpload(A) ==
    /\ screen = "upload"
    /\ UNCHANGED <<screen, chatVars, quickPageVars, listPageVars, viewPageVars,
                  outlineVars, evaluationVars>>
    /\ A

AtList(A) ==
    /\ screen = "list"
    /\ UNCHANGED <<screen, chatVars, quickPageVars, pageVars, viewPageVars,
                  outlineVars, evaluationVars>>
    /\ A

AtViews(A) ==
    /\ screen = "views"
    /\ UNCHANGED <<screen, chatVars, quickPageVars, pageVars, listPageVars,
                  outlineVars, evaluationVars>>
    /\ A

AtOutline(A) ==
    /\ screen = "outline"
    /\ UNCHANGED <<screen, status, chatVars, quickPageVars, pageVars,
                  listPageVars, viewPageVars, evaluationVars>>
    /\ A

AtEvaluation(A) ==
    /\ screen = "evaluation"
    /\ UNCHANGED <<screen, status, chatVars, quickPageVars, pageVars,
                  listPageVars, viewPageVars, outlineVars>>
    /\ A

Next ==
    \/ AtConversation(ChatNext) \/ AtFiles(QuickNext)
    \/ AtUpload(UploadNext) \/ AtList(ListNext)
    \/ AtViews(ViewNext) \/ AtOutline(OutlineNext)
    \/ AtEvaluation(EvaluationNext)

vars == <<screen, status, chatVars, quickPageVars, pageVars, listPageVars,
          viewPageVars, outlineVars, evaluationVars>>

Spec == Init /\ [][Next]_vars

\* A level is skipped, and a heading fails with those below it.
MCOutlines == {<<2, 4, 3>>}

-----------------------------------------------------------------------------
(* Fairness: the pages, and the calls.  Nothing is asked of the services   *)
(* behind a document: it may never settle, and may begin again.            *)

\* Intervals, and a fetch that is repeated.
Ticks ==
    \/ AtList(ListTick) \/ AtViews(ViewTick) \/ AtEvaluation(EvaluationTick)

\* The server reads what is asked for again and again.
Reads(d) ==
    \/ AtUpload(UploadRead(d)) \/ AtList(ListRead(d)) \/ AtViews(ViewRead(d))
    \/ AtEvaluation(ServerReadsDataset(c1))

\* Its answer arrives.
Answers(d) ==
    \/ AtUpload(UploadAnswer(d)) \/ AtViews(ViewAnswer(d))
    \/ AtEvaluation(DatasetArrives(c1))

Fairness ==
    /\ ChatFairness /\ QuickFairness /\ OutlineFairness
    /\ UploadGoesOn /\ ListGoesOn /\ EvaluationGoesOn /\ SF_vars(Ticks)
    /\ SF_vars(\E d \in Doc : Reads(d)) /\ SF_vars(\E d \in Doc : Answers(d))

FairSpec == Spec /\ Fairness

-----------------------------------------------------------------------------
(* Properties                                                              *)

\* No page stays busy for ever with what is over: the indicator of the question
\* page, the dialog that cannot be closed, the upload page, once its document is
\* settled, and the import come back.
PagesComeToRest == IndicatorGoesOut /\ LoadingEnds /\ WorkEnds /\ ImportEnds

\* What has come to its end on the server is not shown at work for ever, and no
\* interval outlives it: a row of the list, the page and the dialog of a
\* document, a data set in generation.
WorkIsFollowed ==
    ShownProgressEnds /\ PageFollows /\ PollingEnds /\ ShownGenerationEnds
=============================================================================
