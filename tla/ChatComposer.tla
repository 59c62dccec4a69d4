----------------------------- MODULE ChatComposer -----------------------------
(***************************************************************************)
(* The input area of the question page: the text, the menu of the slash    *)
(* commands, the skill chosen for the next question, and the microphone.   *)
(* Of the text only its kind is kept.  Overlapping questions and the       *)
(* quick-ingest commands are left to RagChat.                              *)
(***************************************************************************)
EXTENDS Naturals

CONSTANTS ChatSkill, NoChatSkill,   \* the skills on offer, and none
          Question,      \* the questions sent; bounds their number
          Recognition    \* the recognitions started; bounds their number

ASSUME ComposerAssumption == NoChatSkill \notin ChatSkill

VARIABLES
    input,                   \* "empty", "text", "partial" or "command"
    slashMenuOpen, closing,  \* the menu; the timer of a blur runs
    selectedSkill, skillPopoverOpen,
    unused,         \* the selected skill has gone with no question yet
    asked,          \* the questions: their state, the skill they took along
    isListening, recognitionRef,
    recognition,    \* what the browser does with each recognition
    wasted, early,  \* history: see UnusedSkillStays
    crossed,        \* history: see MicrophoneIsShown
    sentPartial     \* history: see MenuNeedsSlash

textVars   == <<input, slashMenuOpen, closing, sentPartial>>
choiceVars == <<selectedSkill, skillPopoverOpen, unused, asked, wasted, early>>
voiceVars  == <<isListening, recognitionRef, recognition, crossed>>
composerVars == <<textVars, choiceVars, voiceVars>>

Slash == {"partial", "command"}

ComposerTypeOK ==
    /\ input \in {"empty", "text"} \union Slash
    /\ {slashMenuOpen, closing, sentPartial} \subseteq BOOLEAN
    /\ selectedSkill \in ChatSkill \union {NoChatSkill}
    /\ {skillPopoverOpen, unused, wasted, early} \subseteq BOOLEAN
    /\ asked \in [Question -> [state : {"idle", "open", "over"},
                               skill : ChatSkill \union {NoChatSkill}]]
    /\ isListening \in BOOLEAN /\ crossed \in BOOLEAN
    /\ recognitionRef \subseteq Recognition
    /\ recognition \in [Recognition -> {"idle", "running", "stopping", "ended"}]

ComposerInit ==
    /\ input = "empty" /\ slashMenuOpen = FALSE /\ closing = FALSE
    /\ sentPartial = FALSE
    /\ selectedSkill = NoChatSkill /\ skillPopoverOpen = FALSE
    /\ unused = FALSE /\ wasted = FALSE /\ early = FALSE
    /\ asked = [q \in Question |-> [state |-> "idle", skill |-> NoChatSkill]]
    /\ isListening = FALSE /\ recognitionRef = {} /\ crossed = FALSE
    /\ recognition = [r \in Recognition |-> "idle"]

OpenQuestions == {q \in Question : asked[q].state = "open"}

-----------------------------------------------------------------------------
(* The text and the menu                                                   *)

TypeText(kind) ==
    /\ input' = kind /\ slashMenuOpen' = (kind \in Slash)
    /\ UNCHANGED <<closing, sentPartial, choiceVars, voiceVars>>

BlurInput ==
    /\ closing' = TRUE
    /\ UNCHANGED <<input, slashMenuOpen, sentPartial, choiceVars, voiceVars>>

BlurTimer ==
    /\ closing /\ closing' = FALSE /\ slashMenuOpen' = FALSE
    /\ UNCHANGED <<input, sentPartial, choiceVars, voiceVars>>

\* handleSend takes the skill along that is selected when it is called.
TakeSkill(q) ==
    /\ asked[q].state = "idle"
    /\ asked' = [asked EXCEPT ![q] = [state |-> "open", skill |-> selectedSkill]]
    /\ unused' = FALSE

\* A command, typed or picked from the menu: export, summary, clear.  In an
\* empty conversation the first two leave the text as it is.
SendCommand ==
    /\ OpenQuestions = {} /\ (input = "command" \/ slashMenuOpen)
    /\ input' \in {input, "empty"} /\ slashMenuOpen' = FALSE
    /\ \/ UNCHANGED <<asked, unused>>
       \/ \E q \in Question : TakeSkill(q) /\ input' = "empty"
    /\ UNCHANGED <<closing, sentPartial, selectedSkill, skillPopoverOpen,
                   wasted, early, voiceVars>>

\* A text that is no command is a question, with a slash or without.
SendText(q) ==
    /\ OpenQuestions = {} /\ input \in {"text", "partial"}
    /\ TakeSkill(q)
    /\ input' = "empty"
    /\ sentPartial' = (sentPartial \/ input = "partial")
    /\ UNCHANGED <<slashMenuOpen, closing, selectedSkill, skillPopoverOpen,
                   wasted, early, voiceVars>>

\* An example or a suggested question is sent without the input; the click
\* has taken the focus from it.
SendSuggestion(q) ==
    /\ OpenQuestions = {} /\ (closing \/ ~slashMenuOpen)
    /\ TakeSkill(q)
    /\ input' \in {input, "text"}
    /\ UNCHANGED <<slashMenuOpen, closing, sentPartial, selectedSkill,
                   skillPopoverOpen, wasted, early, voiceVars>>

\* Without looking at the skill of the question.
DropsAnySkill(q, done) ==
    /\ asked[q].state = "open"
    /\ asked' = [asked EXCEPT ![q].state = "over"]
    /\ selectedSkill' = NoChatSkill
    /\ wasted' = (wasted \/ unused) /\ unused' = FALSE
    /\ UNCHANGED <<textVars, skillPopoverOpen, early, voiceVars>>

\* onDone drops the selected skill if the question had taken one along; after
\* an error the skill stays.
AnswerEnds(q, done) ==
    LET drops == done /\ asked[q].skill # NoChatSkill IN
    /\ asked[q].state = "open"
    /\ asked' = [asked EXCEPT ![q].state = "over"]
    /\ selectedSkill' = IF drops THEN NoChatSkill ELSE selectedSkill
    /\ wasted' = (wasted \/ (drops /\ unused))
    /\ unused' = (unused /\ ~drops)
    /\ UNCHANGED <<textVars, skillPopoverOpen, early, voiceVars>>

-----------------------------------------------------------------------------
(* The skill                                                               *)

\* The popover stands in the place of the chip of the selected skill.
ToggleSkillPopover ==
    /\ selectedSkill = NoChatSkill
    /\ skillPopoverOpen' = ~skillPopoverOpen
    /\ UNCHANGED <<textVars, selectedSkill, unused, asked, wasted, early, voiceVars>>

SelectSkill(skill) ==
    /\ skillPopoverOpen /\ selectedSkill = NoChatSkill
    /\ selectedSkill' = skill /\ unused' = (skill # NoChatSkill)
    /\ skillPopoverOpen' = FALSE
    /\ early' = (early \/ \E q \in OpenQuestions : asked[q].skill # NoChatSkill)
    /\ UNCHANGED <<textVars, asked, wasted, voiceVars>>

\* The built-in skill that opens the quick-ingest dialog is not kept.
SelectBuiltInSkill(skill)  == SelectSkill(skill)
SelectExternalSkill(skill) == skill # NoChatSkill /\ SelectSkill(skill)
SelectCustomSkill(skill)   == skill # NoChatSkill /\ SelectSkill(skill)

ClearSkill ==
    /\ selectedSkill # NoChatSkill
    /\ selectedSkill' = NoChatSkill /\ unused' = FALSE
    /\ UNCHANGED <<textVars, skillPopoverOpen, asked, wasted, early, voiceVars>>

-----------------------------------------------------------------------------
(* The microphone                                                          *)

StartVoiceInput(r) ==
    /\ ~isListening /\ recognition[r] = "idle"
    /\ recognition' = [recognition EXCEPT ![r] = "running"]
    /\ recognitionRef' = {r} /\ isListening' = TRUE
    /\ UNCHANGED <<textVars, choiceVars, crossed>>

\* The recognition that is aborted reports its end later.
StopVoiceInput ==
    /\ isListening /\ isListening' = FALSE
    /\ recognition' = [r \in Recognition |->
                         IF r \in recognitionRef /\ recognition[r] = "running"
                         THEN "stopping" ELSE recognition[r]]
    /\ recognitionRef' = {}
    /\ UNCHANGED <<textVars, choiceVars, crossed>>

\* The final words are appended to the text.
Transcript(r) ==
    /\ recognition[r] = "running"
    /\ input' = IF input = "empty" THEN "text" ELSE input
    /\ UNCHANGED <<slashMenuOpen, closing, sentPartial, choiceVars, voiceVars>>

RecognitionReports(r, to) ==
    /\ recognition' = [recognition EXCEPT ![r] = to]
    /\ isListening' = FALSE
    /\ crossed' = (crossed \/ \E e \in Recognition \ {r} : recognition[e] = "running")
    /\ UNCHANGED <<textVars, choiceVars, recognitionRef>>

\* onerror, after which the recognition ends.
RecognitionFails(r) ==
    recognition[r] = "running" /\ RecognitionReports(r, "stopping")

RecognitionEnds(r) ==
    recognition[r] \in {"running", "stopping"} /\ RecognitionReports(r, "ended")

-----------------------------------------------------------------------------
ComposerNext ==
    \/ \E kind \in {"empty", "text"} \union Slash : TypeText(kind)
    \/ BlurInput \/ BlurTimer
    \/ SendCommand
    \/ \E q \in Question :
          \/ SendText(q) \/ SendSuggestion(q)
          \/ \E done \in BOOLEAN : AnswerEnds(q, done)
    \/ ToggleSkillPopover \/ ClearSkill
    \/ \E skill \in ChatSkill \union {NoChatSkill} :
          \/ SelectBuiltInSkill(skill)
          \/ SelectExternalSkill(skill) \/ SelectCustomSkill(skill)
    \/ StopVoiceInput
    \/ \E r \in Recognition :
          \/ StartVoiceInput(r) \/ Transcript(r)
          \/ RecognitionFails(r) \/ RecognitionEnds(r)

ComposerSpec == ComposerInit /\ [][ComposerNext]_composerVars

-----------------------------------------------------------------------------
(* Properties                                                              *)

\* The page drops a skill that has gone with no question only if it was chosen
\* while the answer to a question with another skill was under way: onDone
\* looks at the skill of its own question and drops the one of the moment.
UnusedSkillStays == wasted => early

\* The microphone is shown on exactly while a recognition runs, unless the end
\* of an earlier recognition arrived during a later one: then a recognition
\* runs that the page shows as stopped, and nothing can abort it.
MicrophoneIsShown ==
    crossed \/ (isListening <=> \E r \in Recognition : recognition[r] = "running")

\* The menu of the commands stands open over a text that is no command only
\* after a question that began with a slash was sent, or until the timer of a
\* blur closes it.
MenuNeedsSlash == slashMenuOpen => input \in Slash \/ closing \/ sentPartial

\* What the input area shows of the skill, the microphone and the menu.
InputAreaIsTrue == UnusedSkillStays /\ MicrophoneIsShown /\ MenuNeedsSlash
=============================================================================
