---------------------------- MODULE MessageActions ----------------------------
(***************************************************************************)
(* The actions on the answers of the question page: like, dislike and      *)
(* report with their dialog, the feedback restored with a stored session.  *)
(* Calls are answered in any order; the server keeps one feedback for an   *)
(* answer.                                                                 *)
(***************************************************************************)
EXTENDS Naturals

CONSTANTS
    Message,      \* answers on the screen, each with its trace
    FeedbackCall, \* submitFeedback and getFeedback calls
    NoMessage

ASSUME MessageActionsAssumption == NoMessage \notin Message

VARIABLES
    feedback,     \* the server's feedback of an answer
    accepted,     \* history: every feedback the server has stored
    feedbackType, liked,      \* the two fields of a message
    popover, submitting,      \* the dialog, and its button
    fbCall

messageVars == <<feedback, accepted, feedbackType, liked, popover, submitting,
                 fbCall>>

Negative == {"DISLIKE", "REPORT"}
Feedback == {"LIKE"} \union Negative
NoDialog == [msg |-> NoMessage, type |-> "none"]
UnusedCall == [pc |-> "idle", op |-> "none", msg |-> NoMessage, type |-> "none"]

MessageTypeOK ==
    /\ feedback \in [Message -> Feedback \union {"none"}]
    /\ accepted \subseteq Message \X Feedback
    /\ feedbackType \in [Message -> Feedback \union {"none"}]
    /\ liked \in [Message -> BOOLEAN]
    /\ popover \in [msg : Message, type : Negative] \union {NoDialog}
    /\ submitting \in BOOLEAN
    /\ \A c \in FeedbackCall :
          /\ fbCall[c].pc \in {"idle", "sent", "served", "over"}
          /\ fbCall[c].op \in {"none", "like", "negative", "restore"}

MessageInit ==
    /\ feedback \in [Message -> {"none", "DISLIKE"}]
    /\ accepted = {<<m, feedback[m]>> : m \in {n \in Message : feedback[n] # "none"}}
    /\ feedbackType = [m \in Message |-> "none"]
    /\ liked = [m \in Message |-> FALSE]
    /\ popover = NoDialog /\ submitting = FALSE
    /\ fbCall = [c \in FeedbackCall |-> UnusedCall]

-----------------------------------------------------------------------------
(* Feedback                                                                *)

SendCall(c, op, m, type) ==
    /\ fbCall[c].pc = "idle"
    /\ fbCall' = [fbCall EXCEPT
                    ![c] = [pc |-> "sent", op |-> op, msg |-> m, type |-> type]]

Mark(m, type, like) ==
    /\ feedbackType' = [feedbackType EXCEPT ![m] = type]
    /\ liked' = [liked EXCEPT ![m] = like]

\* A like is shown before it is sent.
HandleLike(c, m) ==
    /\ feedbackType[m] # "LIKE"
    /\ Mark(m, "LIKE", TRUE) /\ SendCall(c, "like", m, "LIKE")
    /\ UNCHANGED <<feedback, accepted, popover, submitting>>

\* Taking a like back is not told to the server.
HandleUnlike(m) ==
    /\ feedbackType[m] = "LIKE"
    /\ Mark(m, "none", FALSE)
    /\ UNCHANGED <<feedback, accepted, popover, submitting, fbCall>>

OpenFeedbackPopover(m, type) ==
    /\ popover' = [msg |-> m, type |-> type]
    /\ UNCHANGED <<feedback, accepted, feedbackType, liked, submitting, fbCall>>

OpenDislike(m) == OpenFeedbackPopover(m, "DISLIKE")
OpenReport(m)  == OpenFeedbackPopover(m, "REPORT")

ClosePopover ==
    /\ popover # NoDialog /\ popover' = NoDialog
    /\ UNCHANGED <<feedback, accepted, feedbackType, liked, submitting, fbCall>>

SubmitNegativeFeedback(c) ==
    /\ popover # NoDialog /\ ~submitting
    /\ SendCall(c, "negative", popover.msg, popover.type)
    /\ submitting' = TRUE
    /\ UNCHANGED <<feedback, accepted, feedbackType, liked, popover>>

\* loadSessionMessages asks for the feedback of each answer.
RestoreFeedback(c, m) ==
    /\ SendCall(c, "restore", m, "none")
    /\ UNCHANGED <<feedback, accepted, feedbackType, liked, popover, submitting>>

ServerFeedback(c) ==
    LET m == fbCall[c].msg IN
    /\ fbCall[c].pc = "sent"
    /\ IF fbCall[c].op = "restore"
       THEN /\ fbCall' = [fbCall EXCEPT ![c].pc = "served", ![c].type = feedback[m]]
            /\ UNCHANGED <<feedback, accepted>>
       ELSE /\ fbCall' = [fbCall EXCEPT ![c].pc = "served"]
            /\ feedback' = [feedback EXCEPT ![m] = fbCall[c].type]
            /\ accepted' = accepted \union {<<m, fbCall[c].type>>}
    /\ UNCHANGED <<feedbackType, liked, popover, submitting>>

\* The finally block closes the dialog that is open now, whichever it is.
EndFeedbackCall(c) ==
    IF fbCall[c].op = "negative"
    THEN submitting' = FALSE /\ popover' = NoDialog
    ELSE UNCHANGED <<submitting, popover>>

\* A negative feedback leaves the field liked as it is.
FeedbackCallSucceeds(c) ==
    LET m == fbCall[c].msg  type == fbCall[c].type IN
    /\ fbCall[c].pc = "served"
    /\ CASE fbCall[c].op = "negative" -> Mark(m, type, liked[m])
         [] fbCall[c].op = "restore" /\ type # "none" -> Mark(m, type, type = "LIKE")
         [] OTHER -> UNCHANGED <<feedbackType, liked>>
    /\ EndFeedbackCall(c)
    /\ fbCall' = [fbCall EXCEPT ![c] = [UnusedCall EXCEPT !.pc = "over"]]
    /\ UNCHANGED <<feedback, accepted>>

\* Without the rollback of a like.
KeepsFailedLike(c) ==
    /\ fbCall[c].pc \in {"sent", "served"} /\ EndFeedbackCall(c)
    /\ fbCall' = [fbCall EXCEPT ![c] = [UnusedCall EXCEPT !.pc = "over"]]
    /\ UNCHANGED <<feedback, accepted, feedbackType, liked>>

\* A failing like is taken back, to no feedback at all.
FeedbackCallFails(c) ==
    /\ fbCall[c].pc \in {"sent", "served"}
    /\ IF fbCall[c].op = "like"
       THEN Mark(fbCall[c].msg, "none", FALSE)
       ELSE UNCHANGED <<feedbackType, liked>>
    /\ EndFeedbackCall(c)
    /\ fbCall' = [fbCall EXCEPT ![c] = [UnusedCall EXCEPT !.pc = "over"]]
    /\ UNCHANGED <<feedback, accepted>>

-----------------------------------------------------------------------------
MessageNext ==
    \/ \E m \in Message :
          \/ HandleUnlike(m)
          \/ OpenDislike(m) \/ OpenReport(m)
          \/ \E c \in FeedbackCall : HandleLike(c, m) \/ RestoreFeedback(c, m)
    \/ ClosePopover
    \/ \E c \in FeedbackCall :
          \/ SubmitNegativeFeedback(c)
          \/ ServerFeedback(c) \/ FeedbackCallSucceeds(c) \/ FeedbackCallFails(c)

MessageSpec == MessageInit /\ [][MessageNext]_messageVars

-----------------------------------------------------------------------------
(* Properties                                                              *)

OnTheWay(m, type) ==
    \E c \in FeedbackCall :
        fbCall[c].pc # "over" /\ fbCall[c].msg = m /\ fbCall[c].type = type

\* What a message shows as the user's feedback was stored by the server at
\* some time, or is on the way to it: neither the early display of a like nor
\* a failed or late call leaves a feedback on the screen nobody has stored.
ShownFeedbackWasStored ==
    \A m \in Message :
        /\ feedbackType[m] # "none" =>
              <<m, feedbackType[m]>> \in accepted \/ OnTheWay(m, feedbackType[m])
        /\ liked[m] => <<m, "LIKE">> \in accepted \/ OnTheWay(m, "LIKE")
=============================================================================
