------------------------------ MODULE MCConsoles ------------------------------
(***************************************************************************)
(* The administration pages for TLC: skills, experts, models, the monitor  *)
(* and its traces, the board of badcases, the evaluation, the forms of the *)
(* spaces; and the spaces themselves.  An initial state chooses one of     *)
(* them and the others rest.                                               *)
(***************************************************************************)
EXTENDS SkillStore, AgentStore, ModelStore, PageQueries, TraceDetails,
        BadcaseBoard, Evaluation, SpaceForms, KnowledgeSpaces, TLC

CONSTANTS i1, m1, f1, p1, p2, g1, g2

VARIABLE screen   \* what the portal shows

Screen == {"skills", "experts", "models", "queries", "traces", "board",
           "evaluation", "spaces", "tree", "access"}

Init ==
    /\ screen \in Screen
    /\ SkillInit
    /\ screen = "skills" \/ items[i1] = NormalizeSkillStatus(i1, "prompt", TRUE)
    /\ AgentInit
    /\ ModelInit
    /\ screen = "models" \/ models = {m1}
    /\ QueryInit
    /\ screen = "queries" \/ (queryView = "dashboard" /\ query.filter = f1)
    /\ TraceInit
    /\ BoardInit
    /\ screen = "board" \/ serverColumn = [b \in Badcase |-> "OPEN"]
    /\ EvaluationInit
    /\ SpaceFormsInit
    /\ SpacesInit

OnSkills ==
    /\ screen = "skills"
    /\ UNCHANGED <<screen, agentVars, modelVars, queryVars, traceVars,
                  boardVars, evaluationVars, spaceFormVars, spacesVars>>
    /\ SkillNext

OnExperts ==
    /\ screen = "experts"
    /\ UNCHANGED <<screen, skillVars, modelVars, queryVars, traceVars,
                  boardVars, evaluationVars, spaceFormVars, spacesVars>>
    /\ AgentNext

OnModels ==
    /\ screen = "models"
    /\ UNCHANGED <<screen, skillVars, agentVars, queryVars, traceVars,
                  boardVars, evaluationVars, spaceFormVars, spacesVars>>
    /\ ModelNext

OnQueries ==
    /\ screen = "queries"
    /\ UNCHANGED <<screen, skillVars, agentVars, modelVars, traceVars,
                  boardVars, evaluationVars, spaceFormVars, spacesVars>>
    /\ QueryNext

OnTraces ==
    /\ screen = "traces"
    /\ UNCHANGED <<screen, skillVars, agentVars, modelVars, queryVars,
                  boardVars, evaluationVars, spaceFormVars, spacesVars>>
    /\ TraceNext

OnBoard ==
    /\ screen = "board"
    /\ UNCHANGED <<screen, skillVars, agentVars, modelVars, queryVars,
                  traceVars, evaluationVars, spaceFormVars, spacesVars>>
    /\ BoardNext

OnEvaluation ==
    /\ screen = "evaluation"
    /\ UNCHANGED <<screen, skillVars, agentVars, modelVars, queryVars,
                  traceVars, boardVars, spaceFormVars, spacesVars>>
    /\ EvaluationNext

OnSpaces ==
    /\ screen = "spaces"
    /\ UNCHANGED <<screen, skillVars, agentVars, modelVars, queryVars,
                  traceVars, boardVars, evaluationVars, spacesVars>>
    /\ SpaceFormsNext

pageVars == <<skillVars, agentVars, modelVars, queryVars, traceVars, boardVars,
              evaluationVars, spaceFormVars>>

\* The tree with documents and without access lists, the lists of one space.
OnTree ==
    /\ screen = "tree" /\ SpacesNext
    /\ UNCHANGED aclUpdate /\ \A d \in SpaceDoc : docRow'[d].acl = {}
    /\ UNCHANGED <<screen, pageVars>>

OnAccess ==
    /\ screen = "access"
    /\ UNCHANGED <<spaceTree, emptied>>
    /\ SpacesNext
    /\ UNCHANGED <<screen, pageVars>>

Next ==
    \/ OnSkills \/ OnExperts \/ OnModels \/ OnQueries
    \/ OnTraces \/ OnBoard \/ OnEvaluation \/ OnSpaces
    \/ OnTree \/ OnAccess

vars == <<screen, skillVars, agentVars, modelVars, queryVars, traceVars,
          boardVars, evaluationVars, spaceFormVars, spacesVars>>

Spec == Init /\ [][Next]_vars

\* The drops of cards differ by name only, and so do the pages of a data set.
Names == Permutations({p1, p2}) \union Permutations({g1, g2})

-----------------------------------------------------------------------------
ConsolePagesTypeOK ==
    /\ screen \in Screen
    /\ screen = "skills" => SkillTypeOK
    /\ screen = "experts" => AgentTypeOK
    /\ screen = "models" => ModelTypeOK
    /\ screen = "queries" => QueryTypeOK
    /\ screen = "traces" => TraceTypeOK
    /\ screen = "board" => BoardTypeOK
    /\ screen = "evaluation" => EvaluationTypeOK
    /\ screen = "spaces" => SpaceFormsTypeOK
    /\ screen \in {"tree", "access"} => SpacesTypeOK

\* The monitor page answers what is asked of it: the tables the filters that are
\* shown, the details the traces that were opened.
MonitorAnswers == RowsAnswerTheQuery /\ DetailsAreWanted
=============================================================================
