------------------------------ MODULE ModelStore ------------------------------
(***************************************************************************)
(* The language models of the settings page (useLLMModels and its panel):  *)
(* the list in localStorage, the default model, the import of a file, and  *)
(* the sheet in which a model is added, edited and tested.                 *)
(***************************************************************************)
EXTENDS Naturals, FiniteSets

CONSTANTS Model, NoModel

ASSUME ModelStoreAssumption == NoModel \notin Model

VARIABLES
    models,        \* the list; a change of it is written at once
    isDefault,     \* the models with the flag
    importing,     \* an import under way: the list it was begun with, or {}
    sheetOpen, editingModel,
    testStatus,
    tests,         \* handleTest calls under way: the model they were begun for
    tested,        \* the model the shown result of a test is about
    ownDefaults,   \* history: the flags that came with an imported file
    crossedTest    \* history: a sheet was opened while a test was under way

modelVars == <<models, isDefault, importing, sheetOpen, editingModel, testStatus,
               tests, tested, ownDefaults, crossedTest>>

NoImport == [list |-> {}, flags |-> {}, on |-> FALSE]

ModelTypeOK ==
    /\ models \subseteq Model /\ isDefault \subseteq models
    /\ importing.list \subseteq Model /\ importing.on \in BOOLEAN
    /\ sheetOpen \in BOOLEAN /\ editingModel \in Model \union {NoModel}
    /\ testStatus \in {"idle", "testing", "success"}
    /\ tests \subseteq Model \union {NoModel} /\ tested \in Model \union {NoModel}
    /\ ownDefaults \subseteq Model
    /\ crossedTest \in BOOLEAN

\* Nothing stored yet: one model, which is the default.
ModelInit ==
    /\ \E m \in Model : models = {m} /\ isDefault = {m}
    /\ importing = NoImport
    /\ sheetOpen = FALSE /\ editingModel = NoModel
    /\ testStatus = "idle" /\ tests = {} /\ tested = NoModel
    /\ ownDefaults = {} /\ crossedTest = FALSE

sheetVars == <<sheetOpen, editingModel, testStatus, tests, tested, crossedTest>>

\* generateId: identifiers nothing refers to.
Unused == Model \ (models \union importing.list \union tests
                   \union {tested, editingModel})

KeepImportedFlags == ownDefaults' = ownDefaults \intersect (isDefault' \union importing'.flags)

-----------------------------------------------------------------------------
\* The flag of the earlier default is left.
AddsTheFlag(m) ==
    /\ m \in models \ isDefault /\ ~sheetOpen
    /\ isDefault' = isDefault \union {m}
    /\ UNCHANGED <<models, importing, sheetVars, ownDefaults>>

SetDefaultModel(m) ==
    /\ m \in models \ isDefault /\ ~sheetOpen
    /\ isDefault' = {m}
    /\ UNCHANGED <<models, importing, sheetVars>>
    /\ KeepImportedFlags

\* The flag of a removed model is left.
KeepsTheFlag(m) ==
    /\ m \in models /\ ~sheetOpen
    /\ models' = models \ {m}
    /\ UNCHANGED <<isDefault, importing, sheetVars, ownDefaults>>

RemoveModel(m) ==
    /\ m \in models /\ ~sheetOpen
    /\ models' = models \ {m} /\ isDefault' = isDefault \ {m}
    /\ UNCHANGED <<importing, sheetVars>>
    /\ KeepImportedFlags

\* The file chooser keeps the functions of the render it was opened in.
ImportBegins ==
    /\ models # {} /\ ~importing.on
    /\ importing' = [list |-> models, flags |-> isDefault, on |-> TRUE]
    /\ UNCHANGED <<models, isDefault, sheetVars, ownDefaults>>

\* The models of the file get identifiers of their own and keep their flags;
\* a file that is no list changes nothing.
ImportModels(imported, flags) ==
    /\ importing.on /\ importing' = NoImport
    /\ imported \subseteq Unused /\ flags \subseteq imported
    /\ models' = importing.list \union imported
    /\ isDefault' = importing.flags \union flags
    /\ ownDefaults' = (ownDefaults \intersect isDefault') \union flags
    /\ UNCHANGED sheetVars

ImportFails ==
    /\ importing.on /\ importing' = NoImport
    /\ UNCHANGED <<models, isDefault, sheetVars>>
    /\ KeepImportedFlags

-----------------------------------------------------------------------------
(* The sheet                                                               *)

OpenSheet(m) ==
    /\ ~sheetOpen /\ m \in models \union {NoModel}
    /\ sheetOpen' = TRUE /\ editingModel' = m /\ testStatus' = "idle"
    /\ crossedTest' = (crossedTest \/ tests # {})
    /\ UNCHANGED <<models, isDefault, importing, tests, tested, ownDefaults>>

\* The cross resets the result of a test, the button does not.
CloseSheet ==
    /\ sheetOpen /\ sheetOpen' = FALSE
    /\ testStatus' \in {"idle", testStatus}
    /\ UNCHANGED <<models, isDefault, importing, editingModel, tests, tested,
                   ownDefaults, crossedTest>>

\* An edited model keeps its flag, a new one has none.
HandleSave ==
    /\ sheetOpen /\ sheetOpen' = FALSE
    /\ IF editingModel # NoModel
       THEN UNCHANGED models
       ELSE \E m \in Unused :
               models' = models \union {m}
    /\ UNCHANGED <<isDefault, importing, editingModel, testStatus, tests, tested,
                   ownDefaults, crossedTest>>

HandleTest ==
    /\ sheetOpen /\ testStatus # "testing"
    /\ testStatus' = "testing" /\ tests' = tests \union {editingModel}
    /\ UNCHANGED <<models, isDefault, importing, sheetOpen, editingModel, tested,
                   ownDefaults, crossedTest>>

\* The result is shown, whichever sheet is open by then.
TestEnds(m) ==
    /\ m \in tests /\ tests' = tests \ {m}
    /\ testStatus' = "success" /\ tested' = m
    /\ UNCHANGED <<models, isDefault, importing, sheetOpen, editingModel,
                   ownDefaults, crossedTest>>

ModelNext ==
    \/ \E m \in Model : SetDefaultModel(m) \/ RemoveModel(m)
    \/ \E m \in Model \union {NoModel} : OpenSheet(m) \/ TestEnds(m)
    \/ \E imported, flags \in SUBSET Model : ImportModels(imported, flags)
    \/ ImportBegins \/ ImportFails \/ CloseSheet \/ HandleSave \/ HandleTest

ModelSpec == ModelInit /\ [][ModelNext]_modelVars

-----------------------------------------------------------------------------
(* Properties                                                              *)

\* The panel names one default model: two models have the flag only when an
\* imported file set it, however models are added, edited and removed.
AtMostOneDefault ==
    Cardinality(isDefault) > 1 => isDefault \intersect ownDefaults # {}

\* The result of a test is that of the model in the sheet, unless the sheet
\* was opened while a test was under way.
TestIsOfTheSheet ==
    sheetOpen /\ testStatus = "success" /\ ~crossedTest => tested = editingModel

\* The panel can be believed about its default and about its tests.
ModelPanelIsTrue == AtMostOneDefault /\ TestIsOfTheSheet
=============================================================================
