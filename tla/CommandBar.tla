------------------------------ MODULE CommandBar -------------------------------
(***************************************************************************)
(* The command bar (LUI/CommandBar): a line of text is "understood" after  *)
(* a delay that nothing cancels, and a call of a skill is then handed to   *)
(* the page at once; any other action waits for a click.                   *)
(***************************************************************************)
EXTENDS FiniteSets

CONSTANTS
    SkillCommand,     \* lines that name a skill, as its panel writes them
    BareSkill,        \* lines that speak of a skill and name none
    IntentCommand,    \* lines another pattern matches
    UnknownCommand,   \* lines nothing matches
    Blank, CalledNote, NoResult,
    Submission        \* identities of submissions, so a bound on their number

Command == SkillCommand \union BareSkill \union IntentCommand \union UnknownCommand

ASSUME CommandAssumption ==
    Cardinality({Blank, CalledNote, NoResult} \ Command) = 3

VARIABLES
    barOpen, barInput, isProcessing,
    barResult,       \* the line whose result is shown
    skillPanelOpen,
    thinking,        \* the submissions under way, and the line of each
    handed,          \* the last action handed to the page
    overtaken,       \* history: the submissions during which the line changed,
                     \* or another one was made
    lateResult       \* history: the result shown is that of one of those, or a
                     \* skill of the panel replaced the line above it

barVars == <<barOpen, barInput, isProcessing, barResult, skillPanelOpen, thinking,
             handed, overtaken, lateResult>>

BarTypeOK ==
    /\ barOpen \in BOOLEAN /\ isProcessing \in BOOLEAN /\ skillPanelOpen \in BOOLEAN
    /\ barInput \in Command \union {Blank, CalledNote}
    /\ barResult \in Command \union {NoResult, CalledNote}
    /\ thinking \in [Submission -> Command \union {Blank, CalledNote}]
    /\ handed \in Command \union {NoResult} /\ overtaken \subseteq Submission
    /\ lateResult \in BOOLEAN

BarInit ==
    /\ barOpen = FALSE /\ barInput = Blank /\ isProcessing = FALSE
    /\ barResult = NoResult /\ skillPanelOpen = FALSE
    /\ thinking = [q \in Submission |-> Blank]
    /\ handed = NoResult /\ overtaken = {} /\ lateResult = FALSE

Pending == {q \in Submission : thinking[q] # Blank}

Overtake == overtaken' = overtaken \union Pending

ResultGoes == barResult' = NoResult /\ lateResult' = FALSE

OpenBar ==
    /\ ~barOpen /\ barOpen' = TRUE
    /\ UNCHANGED <<barInput, isProcessing, barResult, skillPanelOpen, thinking,
                   handed, overtaken, lateResult>>

CloseBar ==
    /\ barOpen' = FALSE /\ ResultGoes /\ barInput' = Blank
    /\ skillPanelOpen' = FALSE
    /\ Overtake
    /\ UNCHANGED <<isProcessing, thinking, handed>>

\* Escape is heard when the bar is closed, too.
EscapeKey == CloseBar

ClickBeside == barOpen /\ CloseBar

\* "/" in the empty line opens the panel and is not typed.
SlashKey ==
    /\ barOpen /\ barInput = Blank /\ skillPanelOpen' = TRUE
    /\ UNCHANGED <<barOpen, barInput, isProcessing, barResult, thinking, handed,
                   overtaken, lateResult>>

\* Without setResult(null).
KeepsTheResult(c) ==
    /\ barOpen /\ c # barInput
    /\ barInput' = c /\ skillPanelOpen' = FALSE /\ Overtake
    /\ UNCHANGED <<barOpen, isProcessing, barResult, lateResult, thinking, handed>>

TypeCommand(c) ==
    /\ barOpen /\ c # barInput
    /\ barInput' = c /\ ResultGoes /\ skillPanelOpen' = FALSE
    /\ Overtake
    /\ UNCHANGED <<barOpen, isProcessing, thinking, handed>>

\* Below a line nothing matches, or one that names a skill.
Suggested(c) ==
    /\ barOpen /\ barResult \in UnknownCommand \union SkillCommand
    /\ c \in IntentCommand \union SkillCommand

SuggestionClick(c) ==
    /\ Suggested(c)
    /\ barInput' = c /\ ResultGoes
    /\ Overtake
    /\ UNCHANGED <<barOpen, isProcessing, skillPanelOpen, thinking, handed>>

InPanel(c) == barOpen /\ skillPanelOpen /\ c \in SkillCommand

SkillClick(c) ==
    /\ InPanel(c)
    /\ barInput' = c /\ skillPanelOpen' = FALSE /\ handed' = c
    /\ lateResult' = (barResult # NoResult)
    /\ Overtake
    /\ UNCHANGED <<barOpen, isProcessing, barResult, thinking>>

HandleSubmit(q) ==
    /\ barOpen /\ barInput # Blank /\ thinking[q] = Blank
    /\ isProcessing' = TRUE /\ ResultGoes
    /\ thinking' = [thinking EXCEPT ![q] = barInput]
    /\ Overtake
    /\ UNCHANGED <<barOpen, barInput, skillPanelOpen, handed>>

\* matchIntent finds a skill by its name or its identity.
NamesSkill(line) == line \in SkillCommand

\* The result of matchIntent is shown.  A line that names no skill has an action to call one,
\* and the handler stops at the name it looks for; so does the note that a
\* skill was called, which speaks of skills.
Understood(q) ==
    /\ q \in Pending /\ thinking' = [thinking EXCEPT ![q] = Blank]
    /\ barResult' = thinking[q] /\ isProcessing' = FALSE
    /\ IF NamesSkill(thinking[q])
       THEN /\ barInput' = CalledNote /\ handed' = thinking[q]
            /\ barOpen' = FALSE /\ skillPanelOpen' = FALSE
       ELSE UNCHANGED <<barInput, handed, barOpen, skillPanelOpen>>
    /\ lateResult' = (q \in overtaken)
    /\ overtaken' = (IF NamesSkill(thinking[q]) THEN Pending ELSE overtaken) \ {q}

ResultIsShown == barOpen /\ barResult # NoResult

\* The tag below a result with an action.
ExecuteResult ==
    /\ ResultIsShown /\ barResult \in Command \ UnknownCommand
    /\ handed' = barResult
    /\ UNCHANGED <<barOpen, barInput, isProcessing, barResult, skillPanelOpen, thinking,
                   overtaken, lateResult>>

BarNext ==
    \/ OpenBar \/ EscapeKey \/ ClickBeside \/ SlashKey \/ ExecuteResult
    \/ \E c \in Command \union {Blank} :
          TypeCommand(c) \/ SuggestionClick(c) \/ SkillClick(c)
    \/ \E q \in Submission : HandleSubmit(q) \/ Understood(q)

BarSpec == BarInit /\ [][BarNext]_barVars

-----------------------------------------------------------------------------
(* Properties                                                              *)

\* The result shown is that of the line above it, or of the skill the note in
\* the line says was called, unless the line changed while it was understood, or
\* under its result.
ResultIsOfTheLine ==
    ResultIsShown /\ ~lateResult =>
        \/ barInput = barResult
        \/ barInput = CalledNote /\ barResult = handed

\* The spinner belongs to a submission that is still to be answered.
ProcessingIsPending == isProcessing => Pending # {}

BarShowsItsCommand == ResultIsOfTheLine /\ ProcessingIsPending
=============================================================================
