--------------------------- MODULE SpacePermissions ----------------------------
(***************************************************************************)
(* The role bindings of the spaces (settings/permissions): the matrix of   *)
(* the page, and the entries the server keeps for each space.  Saving      *)
(* writes one space after the other, and only the leaves of the tree.      *)
(***************************************************************************)
EXTENDS Naturals, FiniteSets

CONSTANTS
    AclSpace, Leaf,        \* the spaces, and those without children
    Permission, Unbound    \* what a role may be given on a space, or nothing

ASSUME PermissionsAssumption == Leaf \subseteq AclSpace /\ Unbound \notin Permission

VARIABLES
    storedAcl,        \* the server: the permission of the role on each space
    otherEntries,  \* the server: spaces with an entry for a user or department
    firstLoad,     \* the effect of the page has not answered yet
    spaceTreeKnown,
    bindingMatrix,
    loadingAcl,    \* "no", "asked", or "read" when the server has answered
    aclData,       \* what it has answered
    saving, unsaved, savedMatrix,   \* the leaves handleSave has yet to write
    saveMessage,   \* the last message of a save
    touched        \* history: spaces changed by something else since it began

permissionVars == <<storedAcl, otherEntries, firstLoad, spaceTreeKnown, bindingMatrix,
                    loadingAcl, aclData, saving, unsaved, savedMatrix, saveMessage, touched>>

Binding == [AclSpace -> Permission \union {Unbound}]
NoBinding == [s \in AclSpace |-> Unbound]

PermissionsTypeOK ==
    /\ storedAcl \in Binding /\ bindingMatrix \in Binding
    /\ aclData \in Binding /\ savedMatrix \in Binding
    /\ otherEntries \subseteq AclSpace /\ touched \subseteq AclSpace
    /\ unsaved \subseteq Leaf
    /\ firstLoad \in BOOLEAN /\ spaceTreeKnown \in BOOLEAN /\ saving \in BOOLEAN
    /\ loadingAcl \in {"no", "asked", "read"}
    /\ saveMessage \in {"none", "saved", "failed"}

PermissionsInit ==
    /\ storedAcl = NoBinding /\ otherEntries = AclSpace
    /\ firstLoad = TRUE /\ spaceTreeKnown = FALSE /\ bindingMatrix = NoBinding
    /\ loadingAcl = "asked" /\ aclData = NoBinding
    /\ saving = FALSE /\ unsaved = {} /\ savedMatrix = NoBinding
    /\ saveMessage = "none" /\ touched = {}

serverVars == <<storedAcl, otherEntries>>
treeVars == <<firstLoad, spaceTreeKnown>>
saveVars == <<saving, unsaved, savedMatrix, saveMessage>>

-----------------------------------------------------------------------------
(* What the page offers: a spinner instead while it loads, a select for     *)
(* each space of the tree, the inner ones included, and two buttons         *)

PageIsShown == loadingAcl = "no"

RenderSpaceTree == IF PageIsShown /\ spaceTreeKnown THEN AclSpace ELSE {}

ButtonsShown == IF ~PageIsShown THEN {} ELSE IF saving THEN {"reset"} ELSE {"reset", "save"}

-----------------------------------------------------------------------------
(* loadData and handleReset: the page is a spinner while either runs; only  *)
(* the first fetches the tree of the spaces                                *)

HandleResetMatrix ==
    /\ "reset" \in ButtonsShown /\ loadingAcl' = "asked"
    /\ UNCHANGED <<serverVars, treeVars, bindingMatrix, aclData, saveVars, touched>>

AclIsRead ==
    /\ loadingAcl = "asked" /\ loadingAcl' = "read" /\ aclData' = storedAcl
    /\ UNCHANGED <<serverVars, treeVars, bindingMatrix, saveVars, touched>>

LoadEnds ==
    /\ loadingAcl = "read" /\ loadingAcl' = "no"
    /\ firstLoad' = FALSE /\ spaceTreeKnown' = (spaceTreeKnown \/ firstLoad)
    /\ bindingMatrix' = aclData /\ aclData' = NoBinding /\ touched' = AclSpace
    /\ UNCHANGED <<serverVars, saveVars>>

LoadFails ==
    /\ loadingAcl # "no" /\ loadingAcl' = "no" /\ aclData' = NoBinding
    /\ firstLoad' = FALSE
    /\ UNCHANGED <<serverVars, spaceTreeKnown, bindingMatrix, saveVars, touched>>

-----------------------------------------------------------------------------
UpdateBinding(s, p) ==
    /\ s \in RenderSpaceTree /\ p # bindingMatrix[s]
    /\ bindingMatrix' = [bindingMatrix EXCEPT ![s] = p]
    /\ touched' = touched \union {s}
    /\ UNCHANGED <<serverVars, treeVars, loadingAcl, aclData, saveVars>>

\* collectSpaceIds: none while the tree is not known.
HandleSaveMatrix ==
    /\ "save" \in ButtonsShown
    /\ saving' = TRUE /\ savedMatrix' = bindingMatrix /\ saveMessage' = "none"
    /\ unsaved' = IF spaceTreeKnown THEN Leaf ELSE {}
    /\ touched' = {}
    /\ UNCHANGED <<serverVars, treeVars, bindingMatrix, loadingAcl, aclData>>

\* updateSpaceAcl replaces all entries of the space by those of the roles.
SpaceIsWritten(s) ==
    /\ storedAcl' = [storedAcl EXCEPT ![s] = savedMatrix[s]]
    /\ otherEntries' = otherEntries \ {s}

UpdateSpaceAcl(s) ==
    /\ saving /\ s \in unsaved
    /\ SpaceIsWritten(s) /\ unsaved' = unsaved \ {s}
    /\ UNCHANGED <<treeVars, bindingMatrix, loadingAcl, aclData,
                   saving, savedMatrix, saveMessage, touched>>

\* A failed call is skipped.
SaysSavedAnyway(s) ==
    /\ saving /\ s \in unsaved
    /\ SpaceIsWritten(s) \/ UNCHANGED serverVars
    /\ unsaved' = unsaved \ {s}
    /\ UNCHANGED <<treeVars, bindingMatrix, loadingAcl, aclData, saving,
                   savedMatrix, saveMessage, touched>>

\* The first call that fails ends the save; it may have been carried out.
UpdateFails(s) ==
    /\ saving /\ s \in unsaved
    /\ SpaceIsWritten(s) \/ UNCHANGED serverVars
    /\ saving' = FALSE /\ unsaved' = {} /\ savedMatrix' = NoBinding
    /\ saveMessage' = "failed"
    /\ UNCHANGED <<treeVars, bindingMatrix, loadingAcl, aclData, touched>>

SaveEnds ==
    /\ saving /\ unsaved = {}
    /\ saving' = FALSE /\ savedMatrix' = NoBinding /\ saveMessage' = "saved"
    /\ UNCHANGED <<serverVars, treeVars, bindingMatrix, loadingAcl, aclData,
                   unsaved, touched>>

\* Another administrator, whose page is another one.
AnotherSave(s, p) ==
    /\ p # storedAcl[s]
    /\ storedAcl' = [storedAcl EXCEPT ![s] = p] /\ otherEntries' = otherEntries \ {s}
    /\ touched' = touched \union {s}
    /\ UNCHANGED <<treeVars, bindingMatrix, loadingAcl, aclData, saveVars>>

PermissionsNext ==
    \/ HandleResetMatrix \/ AclIsRead \/ LoadEnds \/ LoadFails
    \/ HandleSaveMatrix \/ SaveEnds
    \/ \E s \in Leaf : UpdateSpaceAcl(s) \/ UpdateFails(s)
    \/ \E s \in AclSpace, p \in Permission \union {Unbound} :
          UpdateBinding(s, p) \/ AnotherSave(s, p)

PermissionsSpec == PermissionsInit /\ [][PermissionsNext]_permissionVars

-----------------------------------------------------------------------------
(* Properties                                                              *)

\* Once the page says the matrix has been saved, what it shows of a leaf is
\* what the server has: edits and resets while the calls were being made, and
\* other administrators, are the only exceptions.
SavedMatrixIsStored ==
    saveMessage = "saved" /\ spaceTreeKnown =>
        \A s \in Leaf \ touched : storedAcl[s] = bindingMatrix[s]
=============================================================================
