------------------------------ MODULE SkillStore ------------------------------
(***************************************************************************)
(* The skills page and the collections behind it (useExtensions): prompts, *)
(* external and custom skills, MCP servers and tools, each under its key   *)
(* of localStorage.  A function of a collection writes the list it was     *)
(* rendered with: the second of two calls in one handler undoes the first. *)
(* The detail dialog and the drawer hold a copy of the item they were      *)
(* opened with.  One tab, whose writes to localStorage succeed.            *)
(***************************************************************************)
EXTENDS FiniteSets

CONSTANTS
    Skill,      \* identifiers, of the shipped items and of new ones
    Shipped,    \* the items that come with the portal
    Source,     \* the collections in use
    NoSkill

ASSUME SkillStoreAssumption ==
    /\ Shipped \subseteq Skill /\ NoSkill \notin Skill
    /\ Source \subseteq {"prompt", "external", "custom", "mcp", "toolbox"}

VARIABLES
    items,         \* the collections
    selectedItem,  \* the copy in the detail dialog
    editingItem,   \* the copy in the drawer
    drawerOpen,
    reviewed,      \* history: items approved since they were last submitted
    copies,        \* history: items made by saving an edited item as a new one
    bypassed       \* history: items changed through a copy of an older status

skillVars == <<items, selectedItem, editingItem, drawerOpen, reviewed, copies,
               bypassed>>

SkillStatus == {"DRAFT", "PENDING", "PUBLISHED", "ENABLED"}
Content     == {"old", "new"}

Absent  == [id |-> NoSkill, source |-> "none", status |-> "DRAFT",
            enabled |-> FALSE, content |-> "old"]

\* A removed item keeps its collection.
Present == {i \in Skill : items[i].id # NoSkill}

SkillTypeOK ==
    /\ \A i \in Present :
          /\ items[i].id = i /\ items[i].source \in Source
          /\ items[i].status \in SkillStatus /\ items[i].enabled \in BOOLEAN
          /\ items[i].content \in Content
    /\ selectedItem.id \in Skill \union {NoSkill}
    /\ editingItem.id \in Skill \union {NoSkill} /\ drawerOpen \in BOOLEAN
    /\ reviewed \subseteq Skill /\ copies \subseteq Skill /\ bypassed \subseteq Skill

\* normalizeSkillStatus: an item without a status is ENABLED or PUBLISHED.
NormalizeSkillStatus(i, source, enabled) ==
    [id |-> i, source |-> source, enabled |-> enabled, content |-> "old",
     status |-> IF enabled THEN "ENABLED" ELSE "PUBLISHED"]

\* The collections are loaded; the page shows them.
SkillInit ==
    /\ \E source \in [Shipped -> Source \ {"custom", "mcp"}],
          enabled \in [Shipped -> BOOLEAN] :
          items = [i \in Skill |->
                     IF i \in Shipped
                     THEN NormalizeSkillStatus(i, source[i], enabled[i]) ELSE Absent]
    /\ selectedItem = Absent /\ editingItem = Absent /\ drawerOpen = FALSE
    /\ reviewed = Shipped /\ copies = {} /\ bypassed = {}

-----------------------------------------------------------------------------
(* The functions of a collection                                           *)

\* What an item becomes by a call of update.
Update(item, status, enabled, content) ==
    [item EXCEPT !.status = status, !.enabled = enabled, !.content = content]

RemoveItem(item) == [Absent EXCEPT !.source = item.source]

\* A rejection that writes what an approval writes.
RejectPublishes(item, action) ==
    CASE action = "submit" -> Update(item, "PENDING", FALSE, item.content)
      [] action = "enable" -> Update(item, "ENABLED", TRUE, item.content)
      [] OTHER             -> Update(item, "PUBLISHED", FALSE, item.content)

\* The review of a prompt; every collection has functions of its own for it.
Transition(item, action) ==
    CASE action = "submit"  -> Update(item, "PENDING", FALSE, item.content)
      [] action = "approve" -> Update(item, "PUBLISHED", FALSE, item.content)
      [] action = "reject"  -> Update(item, "DRAFT", FALSE, item.content)
      [] action = "enable"  -> Update(item, "ENABLED", TRUE, item.content)
      [] action = "disable" -> Update(item, "PUBLISHED", FALSE, item.content)

ExternalTransition(item, action) == Transition(item, action)

CustomTransition(item, action) == Transition(item, action)

ServerTransition(item, action) == Transition(item, action)

ToolTransition(item, action) == Transition(item, action)

\* The table of the functions of the item's collection.
BySource(item, action) ==
    IF action = "remove" THEN RemoveItem(item)
    ELSE CASE item.source = "prompt"   -> Transition(item, action)
           [] item.source = "external" -> ExternalTransition(item, action)
           [] item.source = "custom"   -> CustomTransition(item, action)
           [] item.source = "mcp"      -> ServerTransition(item, action)
           [] item.source = "toolbox"  -> ToolTransition(item, action)

AddItem(id, source, status, enabled, content) ==
    items' = [items EXCEPT ![id] = [id |-> id, source |-> source,
                 status |-> status, enabled |-> enabled, content |-> content]]

-----------------------------------------------------------------------------
(* The page                                                                *)

\* The buttons of an item, by the status that is shown.
RenderActions(status) ==
    CASE status = "DRAFT"     -> {"edit", "submit", "remove"}
      [] status = "PENDING"   -> {"approve", "reject"}
      [] status = "ENABLED"   -> {"edit", "disable"}
      [] status = "PUBLISHED" -> {"edit", "enable"}

\* The items with buttons: those of the dialog, or those of the page.
OnDisplay ==
    IF drawerOpen THEN {}
    ELSE IF selectedItem # Absent THEN {selectedItem}
    ELSE {items[i] : i \in Present}

Bypass(item) ==
    bypassed' = IF items[item.id].status = item.status
                THEN bypassed ELSE bypassed \union {item.id}

\* The dialog of the item closes.
RunAction(item, action) ==
    /\ item \in OnDisplay /\ action \in RenderActions(item.status) \ {"edit", "reject"}
    /\ items' = [items EXCEPT ![item.id] = BySource(@, action)]
    /\ selectedItem' = Absent
    /\ reviewed' = CASE action = "approve" -> reviewed \union {item.id}
                     [] action = "submit"  -> reviewed \ {item.id}
                     [] OTHER              -> reviewed
    /\ Bypass(item)
    /\ UNCHANGED <<editingItem, drawerOpen, copies>>

\* A rejection asks for its reason; the dialog of the item stays open.
Reject(item) ==
    /\ item \in OnDisplay /\ "reject" \in RenderActions(item.status)
    /\ items' = [items EXCEPT ![item.id] = BySource(@, "reject")]
    /\ Bypass(item)
    /\ UNCHANGED <<selectedItem, editingItem, drawerOpen, reviewed, copies>>

SelectItem(i) ==
    /\ items[i] \in OnDisplay /\ selectedItem = Absent
    /\ selectedItem' = items[i]
    /\ UNCHANGED <<items, editingItem, drawerOpen, reviewed, copies, bypassed>>

CloseDetail ==
    /\ selectedItem # Absent /\ ~drawerOpen
    /\ selectedItem' = Absent
    /\ UNCHANGED <<items, editingItem, drawerOpen, reviewed, copies, bypassed>>

OpenEditDrawer(item) ==
    /\ item \in OnDisplay /\ "edit" \in RenderActions(item.status)
    /\ editingItem' = item /\ drawerOpen' = TRUE
    /\ UNCHANGED <<items, selectedItem, reviewed, copies, bypassed>>

OpenCreateDrawer ==
    /\ ~drawerOpen /\ selectedItem = Absent
    /\ editingItem' = Absent /\ drawerOpen' = TRUE
    /\ UNCHANGED <<items, selectedItem, reviewed, copies, bypassed>>

CloseDrawer == editingItem' = Absent /\ drawerOpen' = FALSE

CancelDrawer ==
    /\ drawerOpen /\ CloseDrawer
    /\ UNCHANGED <<items, selectedItem, reviewed, copies, bypassed>>

\* An item of the same collection: update, and then submit...ForReview, whose
\* list does not have the update.
SaveExisting(submitAfterSave, content) ==
    LET id == editingItem.id IN
    /\ items' = [items EXCEPT ![id] =
                   IF submitAfterSave THEN BySource(@, "submit")
                   ELSE Update(@, editingItem.status,
                               editingItem.status = "ENABLED", content)]
    /\ reviewed' = IF submitAfterSave THEN reviewed \ {id} ELSE reviewed
    /\ Bypass(editingItem)
    /\ UNCHANGED copies

\* A new item, or a changed kind, or an external skill: an item is added, with
\* the flag and, as a draft, the status of the item that was edited.
SaveNew(submitAfterSave, source, content) ==
    \E id \in Skill \ (Shipped \union Present) :
        /\ AddItem(id, source, IF submitAfterSave THEN "PENDING"
                               ELSE editingItem.status,
                   editingItem.status = "ENABLED", content)
        /\ copies' = IF editingItem = Absent THEN copies \ {id}
                                            ELSE copies \union {id}
        /\ reviewed' = reviewed \ {id} /\ bypassed' = bypassed \ {id}
       

SaveItem(submitAfterSave, source, content) ==
    /\ drawerOpen
    /\ IF editingItem.source = source
       THEN SaveExisting(submitAfterSave, content)
       ELSE SaveNew(submitAfterSave, source, content)
    /\ CloseDrawer /\ UNCHANGED selectedItem

\* The branches of the form, one for each kind: a skill is saved as a custom
\* skill, an external one too.
SavePrompt(submitAfterSave, content) == SaveItem(submitAfterSave, "prompt", content)

SaveServer(submitAfterSave, content) == SaveItem(submitAfterSave, "mcp", content)

SaveTool(submitAfterSave, content) == SaveItem(submitAfterSave, "toolbox", content)

SaveCustomSkill(submitAfterSave, content) == SaveItem(submitAfterSave, "custom", content)

\* The page is loaded again: shipped external skills and tools that were
\* removed are back.
Reload(restored) ==
    /\ restored = {i \in Shipped \ Present : items[i].source \in {"external", "toolbox"}}
    /\ restored # {}
    /\ \E enabled \in [restored -> BOOLEAN] :
          items' = [i \in Skill |->
                      IF i \in restored
                      THEN NormalizeSkillStatus(i, items[i].source, enabled[i])
                      ELSE items[i]]
    /\ selectedItem' = Absent /\ CloseDrawer
    /\ reviewed' = reviewed \union restored /\ bypassed' = bypassed \ restored
    /\ UNCHANGED copies

-----------------------------------------------------------------------------
SkillNext ==
    \/ \E item \in OnDisplay :
          \/ \E action \in RenderActions(item.status) : RunAction(item, action)
          \/ Reject(item) \/ OpenEditDrawer(item)
    \/ \E i \in Present : SelectItem(i)
    \/ CloseDetail \/ OpenCreateDrawer \/ CancelDrawer
    \/ \E submitAfterSave \in BOOLEAN, content \in Content :
          \/ "prompt" \in Source /\ SavePrompt(submitAfterSave, content)
          \/ "mcp" \in Source /\ SaveServer(submitAfterSave, content)
          \/ "toolbox" \in Source /\ SaveTool(submitAfterSave, content)
          \/ "custom" \in Source /\ SaveCustomSkill(submitAfterSave, content)
    \/ \E restored \in SUBSET Shipped : Reload(restored)

SkillSpec == SkillInit /\ [][SkillNext]_skillVars

-----------------------------------------------------------------------------
(* Properties                                                              *)

\* A published skill has been approved since it was last submitted, whatever
\* was edited, unless one of two ways around the review was taken: the dialog
\* or the drawer acted on an older status, or an item was saved as a copy.
PublishedIsReviewed ==
    \A i \in Present : items[i].status \in {"PUBLISHED", "ENABLED"} =>
                           i \in reviewed \union bypassed \union copies

\* The flag the question page looks at says what the status says, unless the
\* item is a copy: it takes the flag along and not the review.
OfferedIsEnabled ==
    \A i \in Present \ copies : items[i].enabled <=> items[i].status = "ENABLED"

\* The review stands between an edit and the users of a skill.
ReviewIsKept == PublishedIsReviewed /\ OfferedIsEnabled
=============================================================================
