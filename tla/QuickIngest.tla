------------------------------ MODULE QuickIngest ------------------------------
(***************************************************************************)
(* The files of the question page: the quick-ingest dialog, which stores a *)
(* file and watches its ingestion for a bounded number of polls, and the   *)
(* attachment of a question, which is stored and never committed.          *)
(***************************************************************************)
EXTENDS DocumentService, Naturals, FiniteSets

CONSTANTS PollLimit,   \* 40 in the code
          AttachDoc    \* the documents attachments make; bounds their number

ASSUME QuickIngestAssumption == PollLimit \in Nat /\ AttachDoc \subseteq Doc

VARIABLES
    quickIngestOpen, quickIngestSpace, quickIngestFile,  \* BOOLEAN: chosen or not
    quickIngestLoading, quickIngestPhase, quickIngestDocId,
    command,        \* a command of the command bar is being interpreted
    submitted,      \* history: the document of the last submission
    submission,     \* where handleQuickIngestSubmit stands
    pollsLeft,
    takenBack,      \* history: documents that were READY and have been taken back
    isUploadingFile, attachedFile,
    attachment      \* where handleFileUpload stands

dialogVars == <<quickIngestOpen, quickIngestSpace, quickIngestFile,
                quickIngestPhase, quickIngestDocId>>
chainVars  == <<quickIngestLoading, submitted, submission, pollsLeft>>
attachVars == <<isUploadingFile, attachedFile, attachment>>
serviceVars   == <<status, takenBack>>
quickPageVars == <<dialogVars, command, chainVars, attachVars, takenBack>>
quickVars     == <<status, quickPageVars>>

Stored == {"hash", "init", "upload", "verify"}
Active == Stored \union {"commit", "ingest", "poll"}
Phase  == {"idle", "uploading", "processing", "ready", "failed"}

QuickTypeOK ==
    /\ status \in [Doc -> DocStatus \union {"none"}]
    /\ {quickIngestOpen, quickIngestSpace, quickIngestFile, quickIngestLoading,
        command, isUploadingFile} \subseteq BOOLEAN
    /\ quickIngestPhase \in Phase
    /\ {quickIngestDocId, submitted, attachedFile} \subseteq Doc \union {NoDoc}
    /\ submission \in [Doc -> Active \union {"no", "over"}]
    /\ attachment \in [Doc -> Stored \union {"no", "over"}]
    /\ pollsLeft \in 0 .. PollLimit /\ takenBack \subseteq Doc

QuickFresh ==
    /\ quickIngestOpen = FALSE /\ quickIngestSpace = FALSE
    /\ quickIngestFile = FALSE /\ quickIngestLoading = FALSE
    /\ quickIngestPhase = "idle" /\ quickIngestDocId = NoDoc
    /\ command = FALSE /\ submitted = NoDoc /\ pollsLeft = 0 /\ takenBack = {}
    /\ submission = [d \in Doc |-> "no"]
    /\ isUploadingFile = FALSE /\ attachedFile = NoDoc
    /\ attachment = [d \in Doc |-> "no"]

QuickInit == QuickFresh /\ status = [d \in Doc |-> "none"]

UnusedDoc(d) == submission[d] = "no" /\ attachment[d] = "no"

-----------------------------------------------------------------------------
(* The dialog                                                              *)

\* The first space of the tree that is open to smart parsing, if there is one.
PreselectSpace == quickIngestSpace' \in BOOLEAN

\* Nothing of an earlier use is kept, but what the submission of that use does
\* later is shown all the same.
OpenQuickIngest ==
    /\ quickIngestOpen' = TRUE /\ PreselectSpace
    /\ quickIngestFile' = FALSE /\ quickIngestPhase' = "idle"
    /\ quickIngestDocId' = NoDoc

\* A slash command or the button of the skill.
UserOpens ==
    /\ ~quickIngestOpen /\ OpenQuickIngest
    /\ UNCHANGED <<serviceVars, command, chainVars, attachVars>>

\* The command bar thinks for some hundred milliseconds before it calls
\* handleLUIAction, whatever has been opened meanwhile.
SubmitCommand ==
    /\ ~quickIngestOpen /\ ~command /\ command' = TRUE
    /\ UNCHANGED <<serviceVars, dialogVars, chainVars, attachVars>>

HandleLUIAction ==
    /\ command /\ command' = FALSE /\ OpenQuickIngest
    /\ UNCHANGED <<serviceVars, chainVars, attachVars>>

CloseQuickIngest ==
    /\ quickIngestOpen /\ ~quickIngestLoading /\ quickIngestOpen' = FALSE
    /\ UNCHANGED <<serviceVars, quickIngestSpace, quickIngestFile, quickIngestPhase,
                   quickIngestDocId, command, chainVars, attachVars>>

ChooseSpace ==
    /\ quickIngestOpen /\ ~quickIngestLoading
    /\ quickIngestSpace' = ~quickIngestSpace
    /\ UNCHANGED <<serviceVars, quickIngestOpen, quickIngestFile, quickIngestPhase,
                   quickIngestDocId, command, chainVars, attachVars>>

\* Another file, or none.
ChooseQuickFile ==
    /\ quickIngestOpen /\ ~quickIngestLoading
    /\ quickIngestFile' \in BOOLEAN /\ quickIngestPhase' = "idle"
    /\ UNCHANGED <<serviceVars, quickIngestOpen, quickIngestSpace, quickIngestDocId,
                   command, chainVars, attachVars>>

-----------------------------------------------------------------------------
(* handleQuickIngestSubmit                                                 *)

\* Without the loading flag.
NotDisabled ==
    quickIngestOpen /\ quickIngestSpace /\ quickIngestFile /\ quickIngestPhase # "ready"

\* The button is usable again after a failure and after the last poll.
SubmitButton ==
    /\ quickIngestOpen /\ quickIngestSpace /\ quickIngestFile
    /\ ~quickIngestLoading /\ quickIngestPhase # "ready"

HandleQuickIngestSubmit(d) ==
    /\ SubmitButton /\ UnusedDoc(d)
    /\ quickIngestLoading' = TRUE /\ quickIngestPhase' = "uploading"
    /\ submission' = [submission EXCEPT ![d] = "hash"] /\ submitted' = d
    /\ pollsLeft' = PollLimit
    /\ UNCHANGED <<serviceVars, quickIngestOpen, quickIngestSpace, quickIngestFile,
                   quickIngestDocId, command, attachVars>>

AfterCall(call) ==
    CASE call = "hash"   -> "init"   [] call = "init"   -> "upload"
      [] call = "upload" -> "verify" [] call = "verify" -> "commit"
      [] call = "commit" -> "ingest" [] call = "ingest" -> "poll"

SubmissionCall(d) ==
    LET call == submission[d] IN
    /\ call \in Active \ {"poll"}
    /\ call = "ingest" => status[d] # "PENDING"
    /\ submission' = [submission EXCEPT ![d] = AfterCall(call)]
    /\ quickIngestDocId' = IF call = "init" THEN d ELSE quickIngestDocId
    /\ quickIngestPhase' = IF call = "ingest" THEN "processing" ELSE quickIngestPhase
    /\ status' = IF call = "commit" THEN [status EXCEPT ![d] = "PENDING"] ELSE status
    /\ UNCHANGED <<quickIngestOpen, quickIngestSpace, quickIngestFile, command,
                   quickIngestLoading, submitted, pollsLeft, takenBack, attachVars>>

\* An exit that forgets the indicator.
KeepsLoading(d, phase) ==
    /\ submission' = [submission EXCEPT ![d] = "over"]
    /\ quickIngestPhase' = phase
    /\ UNCHANGED <<quickIngestOpen, quickIngestSpace, quickIngestFile, quickIngestLoading,
                   quickIngestDocId, command, submitted, pollsLeft, attachVars>>

\* Every exit of the handler takes the indicator away.
EndQuickIngest(d, phase) ==
    /\ submission' = [submission EXCEPT ![d] = "over"]
    /\ quickIngestLoading' = FALSE /\ quickIngestPhase' = phase
    /\ UNCHANGED <<quickIngestOpen, quickIngestSpace, quickIngestFile,
                   quickIngestDocId, command, submitted, pollsLeft, attachVars>>

\* pollQuickIngestStatus: a final status, or one more round.
PollStatus(d) ==
    /\ submission[d] = "poll" /\ pollsLeft > 0
    /\ \/ status[d] = "READY"  /\ EndQuickIngest(d, "ready") /\ UNCHANGED serviceVars
       \/ status[d] = "FAILED" /\ EndQuickIngest(d, "failed") /\ UNCHANGED serviceVars
       \/ /\ status[d] \notin Settled
          /\ pollsLeft' = pollsLeft - 1
          /\ UNCHANGED <<serviceVars, dialogVars, command, quickIngestLoading,
                         submitted, submission, attachVars>>

\* The document goes on without being watched.
PollsUsedUp(d) ==
    /\ submission[d] = "poll" /\ pollsLeft = 0
    /\ EndQuickIngest(d, "processing") /\ UNCHANGED serviceVars

\* A call throws, be it that only the answer of the commit is lost; a poll
\* that throws ends the watch too.
SubmissionFails(d) ==
    /\ submission[d] \in Active /\ EndQuickIngest(d, "failed") /\ UNCHANGED takenBack
    /\ \/ UNCHANGED status
       \/ submission[d] = "commit" /\ status' = [status EXCEPT ![d] = "PENDING"]

\* The service goes on with a document, or begins again with a finished one.
QuickMoves(d) ==
    /\ submission[d] \in {"ingest", "poll", "over"}
    /\ ServerIngests(d)
    /\ takenBack' = IF status'[d] = "READY" THEN takenBack \ {d}
                   ELSE IF status[d] = "READY" THEN takenBack \union {d} ELSE takenBack
    /\ UNCHANGED <<dialogVars, command, chainVars, attachVars>>

-----------------------------------------------------------------------------
(* The attachment                                                          *)

\* The button gives way to the file that is attached.
AttachButton == ~isUploadingFile /\ attachedFile = NoDoc

HandleFileUpload(d) ==
    /\ AttachButton /\ d \in AttachDoc /\ UnusedDoc(d)
    /\ isUploadingFile' = TRUE
    /\ attachment' = [attachment EXCEPT ![d] = "hash"]
    /\ UNCHANGED <<serviceVars, dialogVars, command, chainVars, attachedFile>>

AttachmentCall(d) ==
    /\ attachment[d] \in Stored
    /\ IF attachment[d] = "verify"
       THEN /\ attachment' = [attachment EXCEPT ![d] = "over"]
            /\ attachedFile' = d /\ isUploadingFile' = FALSE
       ELSE /\ attachment' = [attachment EXCEPT ![d] = AfterCall(@)]
            /\ UNCHANGED <<attachedFile, isUploadingFile>>
    /\ UNCHANGED <<serviceVars, dialogVars, command, chainVars>>

AttachmentFails(d) ==
    /\ attachment[d] \in Stored
    /\ attachment' = [attachment EXCEPT ![d] = "over"] /\ isUploadingFile' = FALSE
    /\ UNCHANGED <<serviceVars, dialogVars, command, chainVars, attachedFile>>

RemoveAttachment ==
    /\ attachedFile # NoDoc /\ attachedFile' = NoDoc
    /\ UNCHANGED <<serviceVars, dialogVars, command, chainVars, isUploadingFile, attachment>>

-----------------------------------------------------------------------------
SubmissionStep(d) == SubmissionCall(d) \/ PollStatus(d) \/ PollsUsedUp(d)
                     \/ SubmissionFails(d)

QuickNext ==
    \/ UserOpens \/ SubmitCommand \/ HandleLUIAction \/ CloseQuickIngest
    \/ ChooseSpace \/ ChooseQuickFile \/ RemoveAttachment
    \/ \E d \in Doc :
          \/ HandleQuickIngestSubmit(d) \/ SubmissionStep(d) \/ QuickMoves(d)
          \/ HandleFileUpload(d) \/ AttachmentCall(d) \/ AttachmentFails(d)

QuickSpec == QuickInit /\ [][QuickNext]_quickVars

\* Every call returns or throws.
QuickFairness == \A d \in Doc : WF_quickVars(SubmissionStep(d))

-----------------------------------------------------------------------------
(* Properties                                                              *)

\* The dialog says ready only of the document of the last submission, and only
\* when it is, or was and the service has begun with it again since: not of an
\* earlier one, however the dialog is reset meanwhile.
ReadyPhaseIsTrue ==
    quickIngestPhase = "ready" =>
        submitted # NoDoc /\ (status[submitted] = "READY" \/ submitted \in takenBack)

\* The dialog cannot be closed while it is busy, so it must not stay busy:
\* the number of polls is bounded.
LoadingEnds == []<>~quickIngestLoading
=============================================================================
