----------------------------- MODULE DocumentViews -----------------------------
(***************************************************************************)
(* The three views of one document: the dialog with the steps of its       *)
(* ingestion (PipelineDetailModal), the preview of its file (FilePreview), *)
(* and its own page.  They share no state, so an instance has one of them. *)
(* A call is made for a document; its answer arrives in a component that   *)
(* may show another document by then.                                      *)
(***************************************************************************)
EXTENDS DocumentService, Naturals, FiniteSets

CONSTANT MaxCalls   \* bound on the calls under way for a document

ASSUME DocumentViewsAssumption == MaxCalls \in Nat

VARIABLES
    view,       \* "dialog", "preview" or "page"
    opened,     \* the document the view is open for
    polling,    \* the dialog's interval runs
    shownDoc, shownStatus,  \* what the steps, the page, or the preview show
    blobDoc,    \* the file behind the download button of the preview
    cancelled,  \* cancelledRef of the preview
    calls,      \* calls under way: document, number, kind, answer
    late,       \* history: documents with calls under way when this one was opened
    mixed     \* history: since the dialog was opened, an answer overtook an
                \* older one, or came from an earlier opening

viewPageVars == <<view, opened, polling, shownDoc, shownStatus, blobDoc,
                  cancelled, calls, late, mixed>>
viewVars     == <<status, viewPageVars>>

Kinds      == {"status", "link", "file"}

ViewTypeOK ==
    /\ view \in {"dialog", "preview", "page"}
    /\ status \in [Doc -> DocStatus \union {"none"}]
    /\ {opened, shownDoc, blobDoc} \subseteq Doc \union {NoDoc}
    /\ shownStatus \in DocStatus \union {"none", "error"}
    /\ polling \in BOOLEAN /\ cancelled \in BOOLEAN /\ mixed \in BOOLEAN
    /\ calls \subseteq Doc \X (1 .. MaxCalls) \X Kinds
                 \X (DocStatus \union {"sent", "READ"})
    /\ late \subseteq Doc

ViewFresh ==
    /\ view \in {"dialog", "preview", "page"}
    /\ opened = NoDoc /\ polling = FALSE
    /\ shownDoc = NoDoc /\ shownStatus = "none" /\ blobDoc = NoDoc
    /\ cancelled = FALSE /\ calls = {} /\ late = {} /\ mixed = FALSE

ViewInit == ViewFresh /\ status \in [Doc -> {"DRAFT", "PROCESSING"}]

Free(d) == {n \in 1 .. MaxCalls : \A c \in calls : <<c[1], c[2]>> # <<d, n>>}

\* A new call, if the bound allows one more.
Asked(d, kind) ==
    IF Free(d) = {} THEN {}
    ELSE {<<d, CHOOSE n \in Free(d) : TRUE, kind, "sent">>}

\* A document that can be opened has a row in the list.
Registered(d) == status[d] \in DocStatus

WithCalls == {c[1] : c \in calls}

ViewedMoves(d) == ServerIngests(d) /\ UNCHANGED viewPageVars

CallServed(c) ==
    /\ c \in calls /\ c[4] = "sent"
    /\ calls' = (calls \ {c}) \union
          {<<c[1], c[2], c[3], IF c[3] = "status" THEN status[c[1]] ELSE "READ">>}
    /\ UNCHANGED <<view, status, opened, polling, shownDoc, shownStatus, blobDoc,
                   cancelled, late, mixed>>

\* The dialog and the page try again; the preview shows the error, if the
\* link could not be had and the component is open by then.
CallFails(c) ==
    /\ c \in calls /\ calls' = calls \ {c}
    /\ shownStatus' = IF c[3] = "link" /\ ~cancelled THEN "error" ELSE shownStatus
    /\ UNCHANGED <<view, status, opened, polling, shownDoc, blobDoc, cancelled,
                   late, mixed>>

-----------------------------------------------------------------------------
(* The dialog                                                              *)

\* Upload, parsing, cleaning, chunking, embedding; in what state a status of
\* the document shows them.  The steps of a draft are those of the template.
InferSteps(docStatus) ==
    [n \in 1 .. 5 |->
        CASE n = 1 \/ docStatus = "READY"          -> "finish"
          [] n = 2 /\ docStatus \in Polled         -> "process"
          [] n = 5 /\ docStatus = "FAILED"          -> "error"
          [] n \in 2 .. 4 /\ docStatus = "FAILED"   -> "finish"
          [] OTHER                                  -> "wait"]

\* inferStepsFromStatus names no stage of the processor: the steps stay as they
\* are, those of the template when the dialog is opened.
Inferred(docStatus, before) == IF docStatus \in Stage THEN before ELSE docStatus

StopPolling == polling' = FALSE

\* The list opens it with the status it shows, which may be an older one.
OpenDialog(d) ==
    /\ view = "dialog" /\ opened = NoDoc /\ Registered(d) /\ Free(d) # {}
    /\ opened' = d /\ shownDoc' = d /\ late' = WithCalls
    /\ \E docStatus \in DocStatus : shownStatus' = Inferred(docStatus, "DRAFT")
    /\ polling' = (shownStatus' \in Polled)
    /\ IF polling' THEN \E c \in Asked(d, "status") : calls' = calls \union {c}
                   ELSE UNCHANGED calls
    /\ mixed' = FALSE
    /\ UNCHANGED <<view, status, blobDoc, cancelled>>

CloseDialog ==
    /\ view = "dialog" /\ opened # NoDoc
    /\ opened' = NoDoc /\ StopPolling
    /\ UNCHANGED <<view, status, shownDoc, shownStatus, blobDoc, cancelled,
                   calls, late, mixed>>

DialogTick ==
    /\ view = "dialog" /\ polling
    /\ \E c \in Asked(opened, "status") : calls' = calls \union {c}
    /\ UNCHANGED <<view, status, opened, polling, shownDoc, shownStatus, blobDoc,
                   cancelled, late, mixed>>

Overtakes(c) == \E e \in calls : e # c /\ e[1] = c[1] /\ e[3] = c[3]

\* The interval is not cleared by a final status.
NeverStops(c) ==
    /\ view = "dialog" /\ c \in calls /\ c[4] # "sent"
    /\ calls' = calls \ {c} /\ shownDoc' = c[1]
    /\ shownStatus' = Inferred(c[4], shownStatus)
    /\ mixed' = (mixed \/ Overtakes(c) \/ c[1] \in late)
    /\ UNCHANGED <<view, status, opened, polling, blobDoc, cancelled, late>>

\* The steps take the answer, whichever document it is about; a final one
\* stops the interval that runs by then.
DialogAnswer(c) ==
    /\ view = "dialog" /\ c \in calls /\ c[4] # "sent"
    /\ calls' = calls \ {c}
    /\ shownDoc' = c[1] /\ shownStatus' = Inferred(c[4], shownStatus)
    /\ IF c[4] \in Settled THEN StopPolling ELSE UNCHANGED polling
    /\ mixed' = (mixed \/ Overtakes(c) \/ c[1] \in late)
    /\ UNCHANGED <<view, status, opened, blobDoc, cancelled, late>>

-----------------------------------------------------------------------------
(* The preview                                                             *)

\* The file of the last preview stays behind the button.
KeepsTheFile(d) ==
    /\ view = "preview" /\ opened = NoDoc /\ Registered(d)
    /\ opened' = d /\ cancelled' = FALSE
    /\ shownDoc' = NoDoc /\ shownStatus' = "none" /\ late' = WithCalls
    /\ \E c \in Asked(d, "link") : calls' = calls \union {c}
    /\ UNCHANGED <<view, status, polling, blobDoc, mixed>>

OpenPreview(d) ==
    /\ view = "preview" /\ opened = NoDoc /\ Registered(d)
    /\ opened' = d /\ cancelled' = FALSE
    /\ shownDoc' = NoDoc /\ shownStatus' = "none" /\ blobDoc' = NoDoc
    /\ late' = WithCalls
    /\ \E c \in Asked(d, "link") : calls' = calls \union {c}
    /\ UNCHANGED <<view, status, polling, mixed>>

ClosePreview ==
    /\ view = "preview" /\ opened # NoDoc
    /\ opened' = NoDoc /\ cancelled' = TRUE
    /\ UNCHANGED <<view, status, polling, shownDoc, shownStatus, blobDoc, calls,
                   late, mixed>>

\* The flag is common to all loads: a load that was cancelled goes on when
\* another file has been opened meanwhile.
LinkArrives(c) ==
    /\ view = "preview" /\ c \in calls /\ c[3] = "link" /\ c[4] = "READ"
    /\ IF cancelled
       THEN calls' = calls \ {c} /\ UNCHANGED <<shownDoc, shownStatus>>
       ELSE /\ calls' = (calls \ {c}) \union {<<c[1], c[2], "file", "sent">>}
            /\ shownDoc' = c[1] /\ shownStatus' = "none"
    /\ UNCHANGED <<view, status, opened, polling, blobDoc, cancelled, late, mixed>>

FileArrives(c) ==
    /\ view = "preview" /\ c \in calls /\ c[3] = "file" /\ c[4] = "READ"
    /\ calls' = calls \ {c}
    /\ blobDoc' = IF cancelled THEN blobDoc ELSE c[1]
    /\ UNCHANGED <<view, status, opened, polling, shownDoc, shownStatus,
                   cancelled, late, mixed>>

-----------------------------------------------------------------------------
(* The page of a document                                                  *)

\* The page is loaded and shows the document; without an answer it stays empty.
OpenPage(d) ==
    /\ view = "page" /\ opened = NoDoc /\ Registered(d)
    /\ opened' = d
    /\ shownDoc' = d /\ shownStatus' = status[d]
    /\ UNCHANGED <<view, status, polling, blobDoc, cancelled, calls, late, mixed>>

\* An interval runs while the status shown is none of TERMINAL_STATUSES.
PageTick ==
    /\ view = "page" /\ opened # NoDoc /\ shownStatus \in Polled \union Stage
    /\ \E c \in Asked(opened, "status") : calls' = calls \union {c}
    /\ UNCHANGED <<view, status, opened, polling, shownDoc, shownStatus, blobDoc,
                   cancelled, late, mixed>>

PageAnswer(c) ==
    /\ view = "page" /\ c \in calls /\ c[4] # "sent"
    /\ calls' = calls \ {c} /\ shownStatus' = c[4]
    /\ UNCHANGED <<view, status, opened, polling, shownDoc, blobDoc, cancelled,
                   late, mixed>>

-----------------------------------------------------------------------------
Arrives(c) == DialogAnswer(c) \/ LinkArrives(c) \/ FileArrives(c) \/ PageAnswer(c)

ViewNext ==
    \/ \E d \in Doc :
          ViewedMoves(d) \/ OpenDialog(d) \/ OpenPreview(d) \/ OpenPage(d)
    \/ CloseDialog \/ DialogTick \/ ClosePreview \/ PageTick
    \/ \E c \in calls : CallServed(c) \/ CallFails(c) \/ Arrives(c)

ViewSpec == ViewInit /\ [][ViewNext]_viewVars

\* The intervals tick, and a status that is asked for again and again arrives.
\* Nothing is said of the service: a document may never settle.
ViewTick      == DialogTick \/ PageTick
ViewRead(d)   == \E c \in calls : c[1] = d /\ CallServed(c)
ViewAnswer(d) == \E c \in calls : c[1] = d /\ Arrives(c)

ViewFairness ==
    /\ SF_viewVars(ViewTick)
    /\ \A d \in Doc : SF_viewVars(ViewRead(d)) /\ SF_viewVars(ViewAnswer(d))

-----------------------------------------------------------------------------
(* Properties                                                              *)

\* An open view shows its own document, or one whose calls were under way when
\* it was opened: closing a view does not take the calls back.
ShownIsOpened ==
    opened # NoDoc =>
        {shownDoc, blobDoc} \subseteq {opened, NoDoc} \union late

\* A step the dialog shows at work is followed until it is over, unless an answer
\* overtook an older one, or a call of an earlier opening was answered.  A dialog
\* opened at a stage of the processor shows no step at work and is not told
\* more; one that reads a stage while it polls goes on as it is.
StepsAreFollowed ==
    view = "dialog" /\ opened # NoDoc /\ ~mixed
    /\ (\E n \in 1 .. 5 : InferSteps(shownStatus)[n] = "process")
        => polling

\* A view belongs to the document it was opened for, and what it shows at work
\* it keeps asking for.
ViewsFollowTheirDocument == ShownIsOpened /\ StepsAreFollowed

\* The interval of the dialog ends once the document is settled, unless the
\* service begins with it again before the dialog has read that.
PollingEnds == []<>~(polling /\ status[opened] \in Settled)

\* The page of a document follows it through every stage to its end, in whatever
\* order the answers arrive, if it has one.
PageFollows ==
    []<>~(view = "page" /\ shownStatus \in Polled \union Stage
               /\ status[opened] \in Settled)
=============================================================================
