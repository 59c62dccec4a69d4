-------------------------------- MODULE MCChat --------------------------------
(***************************************************************************)
(* The question page, the command bar and the server's sessions for TLC.   *)
(* The parts share no state but the screen, so an initial state chooses    *)
(* one of them and the others rest: their state spaces are added, not      *)
(* multiplied.                                                             *)
(***************************************************************************)
EXTENDS SseReader, RagChat, MessageActions, ChatComposer, QuickIngest,
        CommandBar, SessionStore, TLC

CONSTANTS A, B, k1, k2

VARIABLE screen   \* the part at work

Screen == {"stream", "conversation", "answers", "composer", "files",
           "commands", "sessions"}

Init ==
    /\ screen \in Screen
    /\ SseInit
    /\ screen = "stream" \/ client = "ragChatStream"
    /\ ChatInit
    /\ MessageInit
    /\ screen = "answers" \/ feedback = [m \in Message |-> "none"]
    /\ ComposerInit
    /\ QuickInit
    /\ BarInit
    /\ SessionInit
    /\ screen = "sessions" \/ sessionCache = NoCache

OnStream ==
    /\ screen = "stream"
    /\ UNCHANGED <<screen, chatVars, messageVars, composerVars, quickVars,
                  barVars, sessionVars>>
    /\ SseNext

OnConversation ==
    /\ screen = "conversation"
    /\ UNCHANGED <<screen, sseVars, messageVars, composerVars, quickVars,
                  barVars, sessionVars>>
    /\ ChatNext

OnAnswers ==
    /\ screen = "answers"
    /\ UNCHANGED <<screen, sseVars, chatVars, composerVars, quickVars, barVars,
                  sessionVars>>
    /\ MessageNext

OnComposer ==
    /\ screen = "composer"
    /\ UNCHANGED <<screen, sseVars, chatVars, messageVars, quickVars, barVars,
                  sessionVars>>
    /\ ComposerNext

OnFiles ==
    /\ screen = "files"
    /\ UNCHANGED <<screen, sseVars, chatVars, messageVars, composerVars,
                  barVars, sessionVars>>
    /\ QuickNext

OnCommands ==
    /\ screen = "commands"
    /\ UNCHANGED <<screen, sseVars, chatVars, messageVars, composerVars,
                  quickVars, sessionVars>>
    /\ BarNext

OnSessions ==
    /\ screen = "sessions"
    /\ UNCHANGED <<screen, sseVars, chatVars, messageVars, composerVars,
                  quickVars, barVars>>
    /\ SessionNext

Next ==
    \/ OnStream \/ OnConversation \/ OnAnswers \/ OnComposer
    \/ OnFiles \/ OnCommands \/ OnSessions

vars == <<screen, sseVars, chatVars, messageVars, composerVars, quickVars,
          barVars, sessionVars>>

Spec == Init /\ [][Next]_vars

\* The questions of a conversation differ by name only.
Questions == Permutations({k1, k2})

-----------------------------------------------------------------------------
ChatPagesTypeOK ==
    /\ screen \in Screen
    /\ screen = "stream" => SseTypeOK
    /\ screen = "conversation" => ChatTypeOK
    /\ screen = "answers" => MessageTypeOK
    /\ screen = "composer" => ComposerTypeOK
    /\ screen = "files" => QuickTypeOK
    /\ screen = "commands" => BarTypeOK
    /\ screen = "sessions" => SessionTypeOK
=============================================================================
