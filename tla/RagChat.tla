------------------------------- MODULE RagChat -------------------------------
(***************************************************************************)
(* The conversation of the question page: handleSend and its lock, the     *)
(* slash commands, the session panel, and the stored messages of a session *)
(* that are loaded when it is selected.  A turn is a question with its     *)
(* answer; a session that exists at the start has one stored turn, named   *)
(* like the session.  Streams behave as EventFeed says: tokens may be      *)
(* lost, and a stream may end without telling.                             *)
(***************************************************************************)
EXTENDS Naturals, FiniteSets

CONSTANTS
    Session,      \* sessions, existing or still to be created
    OldSession,   \* those that exist at the start
    Send,         \* calls of handleSend that reach a session
    Load,         \* calls of loadSessionMessages
    NoSession

ASSUME RagChatAssumption ==
    /\ OldSession \subseteq Session /\ NoSession \notin Session
    /\ Send \intersect Session = {}

VARIABLES
    exists, listed,  \* sessions of the server; sessions in the panel
    stored,          \* turns the server has stored
    home,            \* the session a turn belongs to
    sessionId,       \* the active session
    live,            \* turns of this visit on the screen: their answers
    old,             \* turns on the screen that came from the server
    lock, loading,   \* sendingRef; isLoading (isStreaming changes with it)
    pc, summary,     \* the calls of handleSend; those begun by /summary
    load,            \* the calls of loadSessionMessages
    creating, deleting,  \* handleCreate and handleDelete of the panel
    leaked, spoiled  \* history: see BusyMeansWorking, ScreenMatchesSession

chatVars == <<exists, listed, stored, home, sessionId, live, old, lock,
              loading, pc, summary, load, creating, deleting, leaked, spoiled>>

Turn == Send \union Session

NoLoad == [pc |-> "idle", sid |-> NoSession, turns |-> {}]

ChatTypeOK ==
    /\ exists \subseteq Session /\ listed \subseteq Session
    /\ stored \subseteq Turn /\ old \subseteq Turn
    /\ home \in [Turn -> Session \union {NoSession}]
    /\ sessionId \in Session \union {NoSession}
    /\ live \in [Send -> {"absent", "open", "full", "failed"}]
    /\ lock \in BOOLEAN /\ loading \in BOOLEAN
    /\ pc \in [Send -> {"idle", "creating", "streaming", "over", "silent"}]
    /\ summary \subseteq Send
    /\ load \in [Load -> [pc : {"idle", "asked", "read", "over"},
                          sid : Session \union {NoSession}, turns : SUBSET Turn]]
    /\ creating \in BOOLEAN
    /\ deleting \in [sid : Session \union {NoSession}, active : BOOLEAN]
    /\ leaked \in BOOLEAN /\ spoiled \in BOOLEAN

ChatInit ==
    /\ exists = OldSession /\ listed = OldSession /\ stored = OldSession
    /\ home = [t \in Turn |-> IF t \in OldSession THEN t ELSE NoSession]
    /\ sessionId = NoSession
    /\ live = [k \in Send |-> "absent"] /\ old = {}
    /\ lock = FALSE /\ loading = FALSE
    /\ pc = [k \in Send |-> "idle"] /\ summary = {}
    /\ load = [l \in Load |-> NoLoad]
    /\ creating = FALSE /\ deleting = [sid |-> NoSession, active |-> FALSE]
    /\ leaked = FALSE /\ spoiled = FALSE

OnScreen == {k \in Send : live[k] # "absent"} \union old

FreshSession == Session \ (exists \union OldSession)

\* setMessages of a whole list.
Show(turns) == old' = turns /\ live' = [k \in Send |-> "absent"]

-----------------------------------------------------------------------------
(* handleSend                                                              *)

\* The ways to call it, and what the page asks for before it does: the button,
\* the Enter key, an example, a proposed question of an answer, /summary.
MayPress == ~loading
MayEnter == ~loading
MayAskExample == OnScreen = {} /\ ~loading
MayFollowUp == old # {} \/ \E k \in Send : live[k] = "full"
MaySummarise == OnScreen # {}

Ways == {how \in {"question", "summary"} :
            IF how = "summary" THEN MaySummarise
            ELSE MayPress \/ MayEnter \/ MayAskExample \/ MayFollowUp}

\* The question and an empty answer are added, and the stream is opened.
OpenStream(k, sid) ==
    /\ home' = [home EXCEPT ![k] = sid]
    /\ live' = [live EXCEPT ![k] = "open"]
    /\ loading' = TRUE
    /\ pc' = [pc EXCEPT ![k] = "streaming"]

\* /summary calls handleSend, and clears the lock when the call has reached
\* its first await.
HandleSend(k, how) ==
    /\ pc[k] = "idle" /\ ~lock
    /\ lock' = (how # "summary")
    /\ summary' = IF how = "summary" THEN summary \union {k} ELSE summary
    /\ \/ sessionId # NoSession /\ OpenStream(k, sessionId)
       \/ /\ sessionId = NoSession
          /\ pc' = [pc EXCEPT ![k] = "creating"]
          /\ UNCHANGED <<home, live, loading>>
    /\ UNCHANGED <<exists, listed, stored, sessionId, old, load, creating,
                   deleting, leaked, spoiled>>

\* The command and the skill of the quick-ingest dialog return with the lock
\* held (/summary, which releases it afterwards, does not).
SendOpensDialog ==
    /\ ~lock /\ Ways \ {"summary"} # {}
    /\ lock' = TRUE /\ leaked' = TRUE
    /\ UNCHANGED <<exists, listed, stored, home, sessionId, live, old, loading,
                   pc, summary, load, creating, deleting, spoiled>>

SessionCreated(k) ==
    /\ pc[k] = "creating"
    /\ \E s \in FreshSession :
          /\ exists' = exists \union {s}
          /\ sessionId' = s
          /\ OpenStream(k, s)
    /\ spoiled' = (spoiled \/ sessionId # NoSession)
    /\ UNCHANGED <<listed, stored, old, lock, summary, load, creating, deleting,
                   leaked>>

SessionNotCreated(k) ==
    /\ pc[k] = "creating"
    /\ pc' = [pc EXCEPT ![k] = "over"]
    /\ leaked' = TRUE
    /\ UNCHANGED <<exists, listed, stored, home, sessionId, live, old, lock,
                   loading, summary, load, creating, deleting, spoiled>>

\* The server appends the turn to the session before it reports it done.
ServerStores(k) ==
    /\ pc[k] = "streaming" /\ k \notin stored
    /\ stored' = stored \union {k}
    /\ UNCHANGED <<exists, listed, home, sessionId, live, old, lock, loading,
                   pc, summary, load, creating, deleting, leaked, spoiled>>

\* A callback changes the answer of its own message, if it is on the screen.
\* (Tokens and stages lengthen an open answer and change nothing else.)
Answer(k, content) ==
    live' = [live EXCEPT ![k] = IF @ = "absent" THEN @ ELSE content]

\* Without the reset of the lock.
StreamKeepsLock(k, content) ==
    /\ pc[k] = "streaming" /\ Answer(k, content)
    /\ loading' = FALSE /\ pc' = [pc EXCEPT ![k] = "over"]
    /\ UNCHANGED <<exists, listed, stored, home, sessionId, old, lock, summary,
                   load, creating, deleting, leaked, spoiled>>

\* onDone, and onError followed by the catch block: every other stream of the
\* page loses the lock and the indicator too.
StreamEnds(k, content) ==
    /\ pc[k] = "streaming"
    /\ Answer(k, content)
    /\ loading' = FALSE /\ lock' = FALSE
    /\ pc' = [pc EXCEPT ![k] = "over"]
    /\ UNCHANGED <<exists, listed, stored, home, sessionId, old, summary, load,
                   creating, deleting, leaked, spoiled>>

OnDone(k) == k \in stored /\ StreamEnds(k, "full")

OnError(k) == StreamEnds(k, "failed")

\* ragChatStream returns without having called onDone or onError.
StreamSilent(k) ==
    /\ pc[k] = "streaming"
    /\ pc' = [pc EXCEPT ![k] = "silent"]
    /\ UNCHANGED <<exists, listed, stored, home, sessionId, live, old, lock,
                   loading, summary, load, creating, deleting, leaked, spoiled>>

\* Without setMessages([]).
KeepsTheMessages ==
    /\ sessionId' = NoSession
    /\ UNCHANGED <<exists, listed, stored, home, live, old, lock, loading, pc,
                   summary, load, creating, deleting, leaked, spoiled>>

EmptyTheChat ==
    /\ sessionId' = NoSession /\ Show({})
    /\ UNCHANGED <<exists, listed, stored, home, lock, loading, pc, summary,
                   load, creating, deleting, leaked, spoiled>>

\* The button is shown with messages; a question under way does not hide it.
HandleClearChat == OnScreen # {} /\ EmptyTheChat

\* /clear takes the lock of handleSend and releases it.
ClearCommand == ~lock /\ EmptyTheChat

\* A chat with an expert can be left at any time.
ExitAgentMode == EmptyTheChat

-----------------------------------------------------------------------------
(* Sessions                                                                *)

HandleSelectSession(l, s) ==
    /\ load[l].pc = "idle" /\ s \in listed
    /\ sessionId' = s
    /\ load' = [load EXCEPT ![l] = [pc |-> "asked", sid |-> s, turns |-> {}]]
    /\ UNCHANGED <<exists, listed, stored, home, live, old, lock, loading, pc,
                   summary, creating, deleting, leaked, spoiled>>

ServerReads(l) ==
    /\ load[l].pc = "asked" /\ load[l].sid \in exists
    /\ load' = [load EXCEPT ![l].pc = "read",
                            ![l].turns = {t \in stored : home[t] = load[l].sid}]
    /\ UNCHANGED <<exists, listed, stored, home, sessionId, live, old, lock,
                   loading, pc, summary, creating, deleting, leaked, spoiled>>

\* The response is shown whatever the active session is by then.
LoadArrives(l) ==
    /\ load[l].pc = "read"
    /\ Show(load[l].turns)
    /\ load' = [load EXCEPT ![l].pc = "over", ![l].turns = {}]
    /\ spoiled' = (spoiled \/ sessionId # load[l].sid)
    /\ UNCHANGED <<exists, listed, stored, home, sessionId, lock, loading, pc,
                   summary, creating, deleting, leaked>>

LoadFails(l) ==
    /\ load[l].pc \in {"asked", "read"}
    /\ load' = [load EXCEPT ![l].pc = "over", ![l].turns = {}]
    /\ spoiled' = TRUE
    /\ UNCHANGED <<exists, listed, stored, home, sessionId, live, old, lock,
                   loading, pc, summary, creating, deleting, leaked>>

HandleCreate ==
    /\ ~creating /\ creating' = TRUE
    /\ UNCHANGED <<exists, listed, stored, home, sessionId, live, old, lock,
                   loading, pc, summary, load, deleting, leaked, spoiled>>

\* createSession answers: handleNewSession; or it fails and nothing changes.
CreateAnswered ==
    /\ creating /\ creating' = FALSE
    /\ \/ \E s \in FreshSession :
             /\ exists' = exists \union {s} /\ sessionId' = s /\ Show({})
       \/ UNCHANGED <<exists, sessionId, live, old>>
    /\ UNCHANGED <<listed, stored, home, lock, loading, pc, summary, load,
                   deleting, leaked, spoiled>>

HandleDeleteSession(s) ==
    /\ deleting.sid = NoSession /\ s \in listed
    /\ deleting' = [sid |-> s, active |-> sessionId = s]
    /\ UNCHANGED <<exists, listed, stored, home, sessionId, live, old, lock,
                   loading, pc, summary, load, creating, leaked, spoiled>>

\* Whether the deleted session is the active one was read before the call.
DeleteAnswered ==
    /\ deleting.sid # NoSession
    /\ exists' = exists \ {deleting.sid}
    /\ creating' = (creating \/ deleting.active)
    /\ deleting' = [sid |-> NoSession, active |-> FALSE]
    /\ UNCHANGED <<listed, stored, home, sessionId, live, old, lock, loading,
                   pc, summary, load, leaked, spoiled>>

\* The panel's list follows with a delay.
FetchSessions ==
    /\ listed # exists /\ listed' = exists
    /\ UNCHANGED <<exists, stored, home, sessionId, live, old, lock, loading,
                   pc, summary, load, creating, deleting, leaked, spoiled>>

-----------------------------------------------------------------------------
UserActs ==
    \/ \E k \in Send, how \in Ways : HandleSend(k, how)
    \/ SendOpensDialog
    \/ HandleClearChat \/ ClearCommand \/ ExitAgentMode
    \/ \E l \in Load, s \in Session : HandleSelectSession(l, s)
    \/ HandleCreate
    \/ \E s \in Session : HandleDeleteSession(s)

StreamStep(k) == OnDone(k) \/ OnError(k) \/ StreamSilent(k)

ServerAnswers ==
    \/ \E k \in Send :
          \/ SessionCreated(k) \/ SessionNotCreated(k) \/ ServerStores(k)
          \/ StreamStep(k)
    \/ \E l \in Load : ServerReads(l) \/ LoadArrives(l) \/ LoadFails(l)
    \/ CreateAnswered \/ DeleteAnswered \/ FetchSessions

ChatNext == UserActs \/ ServerAnswers

ChatSpec == ChatInit /\ [][ChatNext]_chatVars

\* The server answers a request sooner or later, or the browser gives it up;
\* the user may do anything at any time, or nothing.
ChatFairness == \A k \in Send : WF_chatVars(StreamStep(k))

-----------------------------------------------------------------------------
(* Properties                                                              *)

Working == {k \in Send : pc[k] \in {"creating", "streaming"}}

\* Two questions are answered at the same time only after a /summary: the
\* lock of handleSend keeps every other pair apart, whichever way a question
\* is sent.
OverlapNeedsSummary == Cardinality(Working) > 1 => summary # {}

Silent == {k \in Send : pc[k] = "silent"}

\* The page refuses questions only while it works on one, unless one of the
\* exits that forget the lock was taken: a quick-ingest command, a session
\* that could not be created, a stream that ended without an event.
BusyMeansWorking == lock \/ loading => leaked \/ Silent # {} \/ Working # {}

\* The lock of handleSend does what it is for.
LockMeansWork == OverlapNeedsSummary /\ BusyMeansWorking

\* The screen shows turns of the active session, except while its messages
\* are being loaded, and after one of three events the handlers do not look
\* for: a response of a session that is no longer active, a failed load, and
\* a session created for a question while another one became active.  An answer
\* on the screen that has not ended has a stream that feeds it, or lost its
\* last event.
ScreenMatchesSession ==
    /\ \/ spoiled
       \/ \E l \in Load : load[l].sid = sessionId /\ load[l].pc \in {"asked", "read"}
       \/ \A t \in OnScreen : home[t] = sessionId
    /\ \A k \in Send : live[k] = "open" => pc[k] \in {"streaming", "silent"}

\* The indicator goes out again: no order of overlapping streams, cleared or
\* exchanged conversations leaves it on, unless a stream ended silently.
IndicatorGoesOut == []<>(~loading \/ Silent # {})
=============================================================================
