---------------------------- MODULE ConsoleProofs -----------------------------
(***************************************************************************)
(* The pages of the administration, each for any number of items, tabs,    *)
(* calls and answers.                                                      *)
(***************************************************************************)
EXTENDS MCConsoles, FiniteSetTheorems, TLAPS

-----------------------------------------------------------------------------
(* The skills (SkillStore)                                                 *)

SkillItem == [id : Skill \union {NoSkill}, source : Source \union {"none"},
              status : SkillStatus, enabled : BOOLEAN, content : Content]

\* An identifier names its item, or nothing, and an item that is there or was
\* there has a collection.
ItemsInv ==
    /\ items \in [Skill -> SkillItem]
    /\ \A i \in Skill : items[i].id \in {i, NoSkill}
    /\ \A i \in Present \union Shipped : items[i].source \in Source

\* What the dialog and the drawer hold is the copy of an item that is there or
\* was there.
IsCopy(item) ==
    item = Absent \/ /\ item \in SkillItem /\ item.id \in Skill
                     /\ item.source \in Source /\ items[item.id].source \in Source

CopiesInv == IsCopy(selectedItem) /\ IsCopy(editingItem)

SkillSetsInv ==
    /\ drawerOpen \in BOOLEAN
    /\ reviewed \subseteq Skill /\ copies \subseteq Skill /\ bypassed \subseteq Skill

SkillInv == ItemsInv /\ CopiesInv /\ SkillSetsInv /\ ReviewIsKept

LEMMA AbsentIsAnItem == Absent \in SkillItem /\ Absent.id = NoSkill /\ Absent.source = "none"
BY DEF Absent, SkillItem, SkillStatus, Content

\* An item that comes without a status: it is there, and its flag says so.
LEMMA NormalizedItem ==
    ASSUME NEW i \in Skill, NEW source \in Source, NEW enabled \in BOOLEAN
    PROVE  /\ NormalizeSkillStatus(i, source, enabled) \in SkillItem
           /\ NormalizeSkillStatus(i, source, enabled).id = i
           /\ NormalizeSkillStatus(i, source, enabled).source = source
           /\ NormalizeSkillStatus(i, source, enabled).enabled
                 <=> NormalizeSkillStatus(i, source, enabled).status = "ENABLED"
BY DEF NormalizeSkillStatus, SkillItem, SkillStatus, Content

LEMMA SkillsStart == SkillInit => SkillInv
<1> SUFFICES ASSUME SkillInit PROVE SkillInv
  OBVIOUS
<1> USE SkillStoreAssumption
<1>1. PICK source \in [Shipped -> Source \ {"custom", "mcp"}],
           enabled \in [Shipped -> BOOLEAN] :
         items = [i \in Skill |->
                    IF i \in Shipped
                    THEN NormalizeSkillStatus(i, source[i], enabled[i]) ELSE Absent]
  BY DEF SkillInit
<1>2. \A i \in Skill :
         /\ items[i] \in SkillItem
         /\ i \in Shipped =>
               /\ items[i].id = i /\ items[i].source \in Source
               /\ items[i].enabled <=> items[i].status = "ENABLED"
         /\ i \notin Shipped => items[i].id = NoSkill
  <2> SUFFICES ASSUME NEW i \in Skill
               PROVE  /\ items[i] \in SkillItem
                      /\ i \in Shipped =>
                            /\ items[i].id = i /\ items[i].source \in Source
                            /\ items[i].enabled <=> items[i].status = "ENABLED"
                      /\ i \notin Shipped => items[i].id = NoSkill
    OBVIOUS
  <2>1. CASE i \in Shipped
    <3>1. /\ items[i] = NormalizeSkillStatus(i, source[i], enabled[i])
          /\ source[i] \in Source /\ enabled[i] \in BOOLEAN
      BY <1>1, <2>1
    <3>2. /\ items[i] \in SkillItem /\ items[i].id = i /\ items[i].source = source[i]
          /\ items[i].enabled <=> items[i].status = "ENABLED"
      <4>1. PICK s \in Source, e \in BOOLEAN :
               s = source[i] /\ items[i] = NormalizeSkillStatus(i, s, e)
        BY <3>1
      <4>2. /\ NormalizeSkillStatus(i, s, e) \in SkillItem
            /\ NormalizeSkillStatus(i, s, e).id = i /\ NormalizeSkillStatus(i, s, e).source = s
            /\ NormalizeSkillStatus(i, s, e).enabled
                  <=> NormalizeSkillStatus(i, s, e).status = "ENABLED"
        BY NormalizedItem
      <4> QED BY <4>1, <4>2
    <3> QED BY <2>1, <3>1, <3>2
  <2>2. CASE i \notin Shipped
    BY <1>1, <2>2, AbsentIsAnItem
  <2> QED BY <2>1, <2>2
<1>3. Present = Shipped
  BY <1>2 DEF Present
<1>5. items \in [Skill -> SkillItem]
  BY <1>1, <1>2
<1>6. ItemsInv
  BY <1>2, <1>3, <1>5 DEF ItemsInv
<1>7. CopiesInv /\ SkillSetsInv
  BY DEF SkillInit, CopiesInv, IsCopy, SkillSetsInv
<1>8. ReviewIsKept
  <2>1. PublishedIsReviewed
    BY <1>3 DEF SkillInit, PublishedIsReviewed
  <2>2. OfferedIsEnabled
    BY <1>2, <1>3 DEF OfferedIsEnabled
  <2> QED BY <2>1, <2>2 DEF ReviewIsKept
<1> QED BY <1>6, <1>7, <1>8 DEF SkillInv

\* The functions of every collection change an item in the same way.
LEMMA BySourceIs ==
    ASSUME NEW item \in SkillItem, item.source \in Source,
           NEW action \in {"submit", "approve", "reject", "enable", "disable"}
    PROVE  \E status \in SkillStatus :
              /\ BySource(item, action) =
                    Update(item, status, status = "ENABLED", item.content)
              /\ action \in {"submit", "reject"} => status \notin {"PUBLISHED", "ENABLED"}
<1> DEFINE status == CASE action = "submit" -> "PENDING" [] action = "reject" -> "DRAFT"
                       [] action = "enable" -> "ENABLED"
                       [] action \in {"approve", "disable"} -> "PUBLISHED"
<1>1. BySource(item, action) = Transition(item, action)
  BY SkillStoreAssumption
     DEF BySource, ExternalTransition, CustomTransition, ServerTransition, ToolTransition
<1>2. Transition(item, action) = Update(item, status, status = "ENABLED", item.content)
  BY DEF Transition
<1>3. status \in SkillStatus
      /\ (action \in {"submit", "reject"} => status \notin {"PUBLISHED", "ENABLED"})
  BY DEF SkillStatus
<1> QED BY <1>1, <1>2, <1>3

\* What is on display are copies.
LEMMA DisplayedAreCopies ==
    ASSUME SkillInv, NEW item \in OnDisplay
    PROVE  /\ item \in SkillItem /\ item.id \in Skill /\ item.source \in Source
           /\ items[item.id] \in SkillItem /\ items[item.id].source \in Source
           /\ ~drawerOpen
<1>1. CASE selectedItem # Absent
  BY <1>1 DEF OnDisplay, SkillInv, CopiesInv, IsCopy, ItemsInv
<1>2. CASE selectedItem = Absent
  <2>1. PICK i \in Present : item = items[i]
    BY <1>2 DEF OnDisplay
  <2>2. i \in Skill /\ items[i].id = i
    BY <2>1 DEF Present, SkillInv, ItemsInv
  <2> QED BY <1>2, <2>1, <2>2 DEF SkillInv, ItemsInv, OnDisplay
<1> QED BY <1>1, <1>2

\* One item is changed: it is gone, or its flag says what its status says and
\* it is not for use unless it was approved or was left as published as it was.
LEMMA OneItemChanges ==
    ASSUME SkillInv, NEW id \in Skill, items[id].source \in Source, NEW new \in SkillItem,
           items' = [items EXCEPT ![id] = new], new.id \in {items[id].id, NoSkill},
           new.source = items[id].source,
           new.enabled <=> new.status = "ENABLED",
           SkillSetsInv', CopiesInv', copies' = copies,
           \A i \in Skill \ {id} : i \in reviewed \union bypassed =>
                                    i \in reviewed' \union bypassed',
           new.id = id /\ new.status \in {"PUBLISHED", "ENABLED"} =>
              \/ id \in reviewed' \union bypassed'
              \/ /\ items[id].status \in {"PUBLISHED", "ENABLED"}
                 /\ reviewed \union bypassed \subseteq reviewed' \union bypassed'
    PROVE  SkillInv'
<1> USE SkillStoreAssumption
<1>1. /\ items' \in [Skill -> SkillItem] /\ items'[id] = new
      /\ \A i \in Skill \ {id} : items'[i] = items[i]
  BY DEF SkillInv, ItemsInv
<1>2. /\ Present' \subseteq Present
      /\ id \in Present' => new.id = id /\ id \in Present
  BY <1>1 DEF Present, SkillInv, ItemsInv
<1>3. ItemsInv'
  BY <1>1, <1>2 DEF SkillInv, ItemsInv
<1>4. PublishedIsReviewed'
  <2> SUFFICES ASSUME NEW i \in Present', items'[i].status \in {"PUBLISHED", "ENABLED"}
               PROVE  i \in reviewed' \union bypassed' \union copies'
    BY DEF PublishedIsReviewed
  <2>1. i \in Skill /\ i \in Present
    BY <1>2 DEF Present
  <2>2. CASE i # id
    BY <1>1, <2>1, <2>2 DEF SkillInv, ReviewIsKept, PublishedIsReviewed
  <2>3. CASE i = id
    BY <1>1, <1>2, <2>1, <2>3 DEF SkillInv, ReviewIsKept, PublishedIsReviewed
  <2> QED BY <2>2, <2>3
<1>5. OfferedIsEnabled'
  <2> SUFFICES ASSUME NEW i \in Present', i \notin copies
               PROVE  items'[i].enabled <=> items'[i].status = "ENABLED"
    BY DEF OfferedIsEnabled
  <2>1. i \in Skill /\ i \in Present
    BY <1>2 DEF Present
  <2> QED BY <1>1, <2>1 DEF SkillInv, ReviewIsKept, OfferedIsEnabled
<1> QED BY <1>3, <1>4, <1>5 DEF SkillInv, ReviewIsKept

LEMMA RunActionKeeps ==
    ASSUME SkillInv, NEW item \in OnDisplay, NEW action, RunAction(item, action)
    PROVE  SkillInv'
<1> DEFINE id == item.id
           old == items[id]
           new == BySource(old, action)
<1>1. /\ item \in SkillItem /\ id \in Skill /\ old \in SkillItem /\ old.source \in Source
  BY DisplayedAreCopies
<1>2. /\ action \in RenderActions(item.status) \ {"edit", "reject"}
      /\ items' = [items EXCEPT ![id] = new]
      /\ selectedItem' = Absent
      /\ reviewed' = CASE action = "approve" -> reviewed \union {id}
                       [] action = "submit"  -> reviewed \ {id}
                       [] OTHER              -> reviewed
      /\ bypassed' = IF old.status = item.status THEN bypassed
                     ELSE bypassed \union {id}
      /\ UNCHANGED <<editingItem, drawerOpen, copies>>
  BY <1>1 DEF RunAction, Bypass, SkillInv, ItemsInv
<1>3. item.status \in SkillStatus
  BY <1>1 DEF SkillItem
<1>4. action \in {"submit", "remove", "approve", "disable", "enable"}
  BY <1>2, <1>3 DEF RenderActions, SkillStatus
<1>5. SkillSetsInv'
  BY <1>1, <1>2 DEF SkillInv, SkillSetsInv
<1>6. /\ new \in SkillItem /\ new.source = old.source /\ new.id \in {old.id, NoSkill}
      /\ new.enabled <=> new.status = "ENABLED"
      /\ action = "submit" => new.status \notin {"PUBLISHED", "ENABLED"}
      /\ action = "remove" => new.id = NoSkill
  <2>1. CASE action = "remove"
    BY <1>1, <2>1 DEF BySource, RemoveItem, Absent, SkillItem, SkillStatus, Content
  <2>2. CASE action # "remove"
    <3>1. PICK status \in SkillStatus :
             /\ new = Update(old, status, status = "ENABLED", old.content)
             /\ action \in {"submit", "reject"} => status \notin {"PUBLISHED", "ENABLED"}
      BY <1>1, <1>4, <2>2, BySourceIs
    <3> QED BY <1>1, <2>2, <3>1 DEF Update, SkillItem
  <2> QED BY <2>1, <2>2
<1>7. \A i \in Skill : items'[i].source = items[i].source
  BY <1>1, <1>2, <1>6 DEF SkillInv, ItemsInv
<1>8. CopiesInv'
  BY <1>2, <1>7 DEF SkillInv, CopiesInv, IsCopy
<1>9. new.id = id /\ new.status \in {"PUBLISHED", "ENABLED"} =>
         \/ id \in reviewed' \union bypassed'
         \/ /\ old.status \in {"PUBLISHED", "ENABLED"}
            /\ reviewed \union bypassed \subseteq reviewed' \union bypassed'
  <2>1. CASE action \in {"submit", "remove"}
    BY <1>1, <1>6, <2>1, SkillStoreAssumption
  <2>2. CASE action = "approve"
    BY <1>2, <2>2
  <2>3. CASE action \in {"enable", "disable"} /\ old.status # item.status
    BY <1>2, <2>3
  <2>4. CASE action \in {"enable", "disable"} /\ old.status = item.status
    <3>1. item.status \in {"PUBLISHED", "ENABLED"}
      BY <1>2, <1>3, <2>4 DEF RenderActions, SkillStatus
    <3> QED BY <1>2, <2>4, <3>1
  <2> QED BY <1>4, <2>1, <2>2, <2>3, <2>4
<1>10. \A i \in Skill \ {id} : i \in reviewed \union bypassed =>
                                 i \in reviewed' \union bypassed'
  BY <1>2
<1> QED BY <1>1, <1>2, <1>5, <1>6, <1>8, <1>9, <1>10, OneItemChanges

LEMMA RejectKeeps ==
    ASSUME SkillInv, NEW item \in OnDisplay, Reject(item) PROVE SkillInv'
<1> DEFINE id == item.id
           old == items[id]
           new == BySource(old, "reject")
<1>1. /\ item \in SkillItem /\ id \in Skill /\ old \in SkillItem /\ old.source \in Source
  BY DisplayedAreCopies
<1>2. /\ items' = [items EXCEPT ![id] = new]
      /\ bypassed' = IF old.status = item.status THEN bypassed
                     ELSE bypassed \union {id}
      /\ UNCHANGED <<selectedItem, editingItem, drawerOpen, reviewed, copies>>
  BY <1>1 DEF Reject, Bypass, SkillInv, ItemsInv
<1>3. SkillSetsInv'
  BY <1>1, <1>2 DEF SkillInv, SkillSetsInv
<1>4. PICK status \in SkillStatus :
         /\ new = Update(old, status, status = "ENABLED", old.content)
         /\ status \notin {"PUBLISHED", "ENABLED"}
  BY <1>1, BySourceIs
<1>5. /\ new \in SkillItem /\ new.source = old.source /\ new.id = old.id
      /\ new.enabled <=> new.status = "ENABLED"
      /\ new.status \notin {"PUBLISHED", "ENABLED"}
  BY <1>1, <1>4 DEF Update, SkillItem
<1>6. \A i \in Skill : items'[i].source = items[i].source
  BY <1>1, <1>2, <1>5 DEF SkillInv, ItemsInv
<1>7. CopiesInv'
  BY <1>2, <1>6 DEF SkillInv, CopiesInv, IsCopy
<1>8. \A i \in Skill \ {id} : i \in reviewed \union bypassed =>
                                 i \in reviewed' \union bypassed'
  BY <1>2
<1> QED BY <1>1, <1>2, <1>3, <1>5, <1>7, <1>8, OneItemChanges

LEMMA SaveExistingKeeps ==
    ASSUME SkillInv, NEW submitAfterSave \in BOOLEAN, NEW content \in Content,
           editingItem.source \in Source, SaveExisting(submitAfterSave, content),
           CloseDrawer, UNCHANGED selectedItem
    PROVE  SkillInv'
<1> DEFINE id == editingItem.id
           old == items[id]
           new == IF submitAfterSave THEN BySource(old, "submit")
                  ELSE Update(old, editingItem.status, editingItem.status = "ENABLED", content)
<1>1. /\ editingItem \in SkillItem /\ id \in Skill
      /\ old \in SkillItem /\ old.source \in Source
  <2>1. editingItem # Absent
    BY AbsentIsAnItem, SkillStoreAssumption
  <2> QED BY <2>1 DEF SkillInv, CopiesInv, IsCopy, ItemsInv
<1>2. /\ items' = [items EXCEPT ![id] = new]
      /\ reviewed' = IF submitAfterSave THEN reviewed \ {id} ELSE reviewed
      /\ bypassed' = IF old.status = editingItem.status THEN bypassed
                     ELSE bypassed \union {id}
      /\ copies' = copies /\ selectedItem' = selectedItem
      /\ editingItem' = Absent /\ drawerOpen' = FALSE
  BY <1>1 DEF SaveExisting, Bypass, CloseDrawer, SkillInv, ItemsInv
<1>3. SkillSetsInv'
  BY <1>1, <1>2 DEF SkillInv, SkillSetsInv
<1>4. /\ new \in SkillItem /\ new.source = old.source /\ new.id = old.id
      /\ new.enabled <=> new.status = "ENABLED"
      /\ submitAfterSave => new.status \notin {"PUBLISHED", "ENABLED"}
      /\ ~submitAfterSave => new.status = editingItem.status
  <2>1. CASE submitAfterSave
    <3>1. PICK status \in SkillStatus :
             /\ new = Update(old, status, status = "ENABLED", old.content)
             /\ status \notin {"PUBLISHED", "ENABLED"}
      BY <1>1, <2>1, BySourceIs
    <3> QED BY <1>1, <2>1, <3>1 DEF Update, SkillItem
  <2>2. CASE ~submitAfterSave
    BY <1>1, <2>2 DEF Update, SkillItem
  <2> QED BY <2>1, <2>2
<1>5. \A i \in Skill : items'[i].source = items[i].source
  BY <1>1, <1>2, <1>4 DEF SkillInv, ItemsInv
<1>6. CopiesInv'
  BY <1>2, <1>5 DEF SkillInv, CopiesInv, IsCopy
<1>7. new.status \in {"PUBLISHED", "ENABLED"} =>
         \/ id \in reviewed' \union bypassed'
         \/ /\ old.status \in {"PUBLISHED", "ENABLED"}
            /\ reviewed \union bypassed \subseteq reviewed' \union bypassed'
  BY <1>2, <1>4
<1>8. \A i \in Skill \ {id} : i \in reviewed \union bypassed =>
                                 i \in reviewed' \union bypassed'
  BY <1>2
<1> QED BY <1>1, <1>2, <1>3, <1>4, <1>6, <1>7, <1>8, OneItemChanges

LEMMA SaveNewKeeps ==
    ASSUME SkillInv, NEW submitAfterSave \in BOOLEAN, NEW source \in Source,
           NEW content \in Content, SaveNew(submitAfterSave, source, content),
           CloseDrawer, UNCHANGED selectedItem
    PROVE  SkillInv'
<1> USE SkillStoreAssumption
<1> DEFINE status == IF submitAfterSave THEN "PENDING" ELSE editingItem.status
           enabled == editingItem.status = "ENABLED"
<1>1. PICK id \in Skill \ (Shipped \union Present) :
         /\ items' = [items EXCEPT ![id] =
               [id |-> id, source |-> source, status |-> status,
                enabled |-> enabled, content |-> content]]
         /\ copies' = IF editingItem = Absent THEN copies \ {id} ELSE copies \union {id}
         /\ reviewed' = reviewed \ {id} /\ bypassed' = bypassed \ {id}
  BY DEF SaveNew, AddItem
<1>2. editingItem.status \in SkillStatus
      /\ (editingItem = Absent => editingItem.status = "DRAFT")
  BY DEF SkillInv, CopiesInv, IsCopy, SkillItem, Absent, SkillStatus
<1>13. \A i \in Skill \ {id} : items'[i] = items[i]
  BY <1>1 DEF SkillInv, ItemsInv
<1>14. items'[id] = [id |-> id, source |-> source, status |-> status,
                     enabled |-> enabled, content |-> content]
  BY <1>1 DEF SkillInv, ItemsInv
<1>15. status \in SkillStatus /\ enabled \in BOOLEAN
  BY <1>2 DEF SkillStatus
<1>3. /\ items'[id].id = id /\ items'[id].source = source /\ items'[id].status = status
      /\ items'[id].enabled <=> enabled
      /\ items'[id] \in SkillItem
      /\ \A i \in Skill \ {id} : items'[i] = items[i]
  <2> DEFINE new == [id |-> id, source |-> source, status |-> status,
                     enabled |-> enabled, content |-> content]
  <2>1. new \in SkillItem
    BY <1>15 DEF SkillItem
  <2>2. /\ new.id = id /\ new.source = source /\ new.status = status
        /\ new.enabled = enabled
    OBVIOUS
  <2> QED BY <1>13, <1>14, <2>1, <2>2
<1>4. items' \in [Skill -> SkillItem] /\ Present' = Present \union {id}
  BY <1>1, <1>3 DEF SkillInv, ItemsInv, Present
<1>5. ItemsInv'
  <2>1. \A i \in Skill : items'[i].id \in {i, NoSkill}
    BY <1>3 DEF SkillInv, ItemsInv
  <2>2. \A i \in Present' \union Shipped : items'[i].source \in Source
    BY <1>3, <1>4 DEF SkillInv, ItemsInv, Present
  <2> QED BY <1>4, <2>1, <2>2 DEF ItemsInv
<1>6. \A i \in Skill : items[i].source \in Source => items'[i].source \in Source
  BY <1>3
<1>7. CopiesInv'
  BY <1>6 DEF SkillInv, CopiesInv, IsCopy, CloseDrawer
<1>8. SkillSetsInv'
  BY <1>1 DEF SkillInv, SkillSetsInv, CloseDrawer
<1>9. id \in copies' \/ (status \in {"DRAFT", "PENDING"} /\ ~enabled)
  BY <1>1, <1>2
<1>10. \A i \in Present : i # id /\ items'[i] = items[i]
                          /\ (i \in copies' <=> i \in copies)
                          /\ (i \in reviewed' \union bypassed' <=> i \in reviewed \union bypassed)
  BY <1>1, <1>3 DEF Present
<1>11. PublishedIsReviewed'
  <2> SUFFICES ASSUME NEW i \in Present', items'[i].status \in {"PUBLISHED", "ENABLED"}
               PROVE  i \in reviewed' \union bypassed' \union copies'
    BY DEF PublishedIsReviewed
  <2>1. CASE i = id
    BY <1>3, <1>9, <2>1
  <2>2. CASE i \in Present
    BY <1>10, <2>2 DEF SkillInv, ReviewIsKept, PublishedIsReviewed
  <2> QED BY <1>4, <2>1, <2>2
<1>12. OfferedIsEnabled'
  <2> SUFFICES ASSUME NEW i \in Present', i \notin copies'
               PROVE  items'[i].enabled <=> items'[i].status = "ENABLED"
    BY DEF OfferedIsEnabled
  <2>1. CASE i = id
    BY <1>3, <1>9, <2>1
  <2>2. CASE i \in Present
    BY <1>10, <2>2 DEF SkillInv, ReviewIsKept, OfferedIsEnabled
  <2> QED BY <1>4, <2>1, <2>2
<1> QED BY <1>5, <1>7, <1>8, <1>11, <1>12 DEF SkillInv, ReviewIsKept

LEMMA ReloadKeeps ==
    ASSUME SkillInv, NEW restored \in SUBSET Shipped, Reload(restored) PROVE SkillInv'
<1> USE SkillStoreAssumption
<1>1. PICK enabled \in [restored -> BOOLEAN] :
         items' = [i \in Skill |->
                     IF i \in restored
                     THEN NormalizeSkillStatus(i, items[i].source, enabled[i])
                     ELSE items[i]]
  BY DEF Reload
<1>2. /\ selectedItem' = Absent /\ editingItem' = Absent /\ drawerOpen' = FALSE
      /\ reviewed' = reviewed \union restored /\ bypassed' = bypassed \ restored
      /\ copies' = copies
  BY DEF Reload, CloseDrawer
<1>3. \A i \in Skill :
         /\ i \in restored =>
               /\ items'[i] \in SkillItem /\ items'[i].id = i
               /\ items'[i].source \in Source
               /\ items'[i].enabled <=> items'[i].status = "ENABLED"
         /\ i \notin restored => items'[i] = items[i]
  <2> SUFFICES ASSUME NEW i \in Skill
               PROVE  /\ i \in restored =>
                            /\ items'[i] \in SkillItem /\ items'[i].id = i
                            /\ items'[i].source \in Source
                            /\ items'[i].enabled <=> items'[i].status = "ENABLED"
                      /\ i \notin restored => items'[i] = items[i]
    OBVIOUS
  <2>1. CASE i \in restored
    <3>1. /\ items'[i] = NormalizeSkillStatus(i, items[i].source, enabled[i])
          /\ items[i].source \in Source /\ enabled[i] \in BOOLEAN
      BY <1>1, <2>1 DEF SkillInv, ItemsInv
    <3>2. PICK s \in Source, e \in BOOLEAN :
             s = items[i].source /\ items'[i] = NormalizeSkillStatus(i, s, e)
      BY <3>1
    <3>3. /\ items'[i] \in SkillItem /\ items'[i].id = i /\ items'[i].source = s
          /\ items'[i].enabled <=> items'[i].status = "ENABLED"
      BY <3>2, NormalizedItem
    <3> QED BY <2>1, <3>2, <3>3
  <2>2. CASE i \notin restored
    BY <1>1, <2>2
  <2> QED BY <2>1, <2>2
<1>5. items' \in [Skill -> SkillItem]
  BY <1>1, <1>3 DEF SkillInv, ItemsInv
<1>6. Present' = Present \union restored
  BY <1>3 DEF Present
<1>7. ItemsInv'
  <2>1. \A i \in Skill : items'[i].id \in {i, NoSkill}
    BY <1>3 DEF SkillInv, ItemsInv
  <2>2. \A i \in Present' \union Shipped : items'[i].source \in Source
    BY <1>3, <1>6 DEF SkillInv, ItemsInv, Present
  <2> QED BY <1>5, <2>1, <2>2 DEF ItemsInv
<1>8. CopiesInv' /\ SkillSetsInv'
  BY <1>2 DEF SkillInv, CopiesInv, IsCopy, SkillSetsInv
<1>9. PublishedIsReviewed'
  <2> SUFFICES ASSUME NEW i \in Present', items'[i].status \in {"PUBLISHED", "ENABLED"}
               PROVE  i \in reviewed' \union bypassed' \union copies'
    BY DEF PublishedIsReviewed
  <2>1. CASE i \in restored
    BY <1>2, <2>1
  <2>2. CASE i \notin restored
    <3>1. i \in Present /\ i \in Skill
      BY <1>6, <2>2 DEF Present
    <3> QED BY <1>2, <1>3, <2>2, <3>1 DEF SkillInv, ReviewIsKept, PublishedIsReviewed
  <2> QED BY <2>1, <2>2
<1>10. OfferedIsEnabled'
  <2> SUFFICES ASSUME NEW i \in Present', i \notin copies
               PROVE  items'[i].enabled <=> items'[i].status = "ENABLED"
    BY <1>2 DEF OfferedIsEnabled
  <2>1. CASE i \in restored
    BY <1>3, <2>1
  <2>2. CASE i \notin restored
    <3>1. i \in Present /\ i \in Skill
      BY <1>6, <2>2 DEF Present
    <3> QED BY <1>3, <2>2, <3>1 DEF SkillInv, ReviewIsKept, OfferedIsEnabled
  <2> QED BY <2>1, <2>2
<1> QED BY <1>7, <1>8, <1>9, <1>10 DEF SkillInv, ReviewIsKept

LEMMA SkillsGoOn == SkillInv /\ [SkillNext]_skillVars => SkillInv'
<1> SUFFICES ASSUME SkillInv, [SkillNext]_skillVars PROVE SkillInv'
  OBVIOUS
<1>1. ASSUME NEW item \in OnDisplay, OpenEditDrawer(item) PROVE SkillInv'
  <2>1. /\ editingItem' = item /\ drawerOpen' = TRUE
        /\ UNCHANGED <<items, selectedItem, reviewed, copies, bypassed>>
    BY <1>1 DEF OpenEditDrawer
  <2>2. CopiesInv'
    BY <2>1, DisplayedAreCopies DEF SkillInv, CopiesInv, IsCopy
  <2> QED
    BY <2>1, <2>2 DEF SkillInv, ItemsInv, Present, SkillSetsInv, ReviewIsKept,
                      PublishedIsReviewed, OfferedIsEnabled
<1>2. ASSUME NEW i \in Present, SelectItem(i) PROVE SkillInv'
  <2>1. /\ items[i] \in OnDisplay /\ selectedItem' = items[i]
        /\ UNCHANGED <<items, editingItem, drawerOpen, reviewed, copies, bypassed>>
    BY <1>2 DEF SelectItem
  <2>2. CopiesInv'
    BY <2>1, DisplayedAreCopies DEF SkillInv, CopiesInv, IsCopy
  <2> QED
    BY <2>1, <2>2 DEF SkillInv, ItemsInv, Present, SkillSetsInv, ReviewIsKept,
                      PublishedIsReviewed, OfferedIsEnabled
<1>3. CASE CloseDetail \/ OpenCreateDrawer \/ CancelDrawer \/ UNCHANGED skillVars
  <2>1. /\ UNCHANGED <<items, reviewed, copies, bypassed>> /\ drawerOpen' \in BOOLEAN
        /\ selectedItem' \in {selectedItem, Absent}
        /\ editingItem' \in {editingItem, Absent}
    BY <1>3 DEF CloseDetail, OpenCreateDrawer, CancelDrawer, CloseDrawer, skillVars,
                SkillInv, SkillSetsInv
  <2>2. CopiesInv'
    BY <2>1 DEF SkillInv, CopiesInv, IsCopy
  <2> QED
    BY <2>1, <2>2 DEF SkillInv, ItemsInv, Present, SkillSetsInv, ReviewIsKept,
                      PublishedIsReviewed, OfferedIsEnabled
<1>4. ASSUME NEW submitAfterSave \in BOOLEAN, NEW content \in Content, NEW source \in Source,
             SaveItem(submitAfterSave, source, content)
      PROVE  SkillInv'
  BY <1>4, SaveExistingKeeps, SaveNewKeeps DEF SaveItem
<1> QED
  BY <1>1, <1>2, <1>3, <1>4, RunActionKeeps, RejectKeeps, ReloadKeeps
     DEF SkillNext, SavePrompt, SaveServer, SaveTool, SaveCustomSkill

\* A skill that is for use has passed the review since it was last submitted,
\* unless one of the two ways around it was taken; and the flag the question page
\* looks at says what the status says (useExtensions and the skills page).
THEOREM ReviewStaysKept == SkillSpec => []ReviewIsKept
<1>1. SkillInv => ReviewIsKept
  BY DEF SkillInv
<1> QED BY <1>1, SkillsStart, SkillsGoOn, PTL DEF SkillSpec

-----------------------------------------------------------------------------
(* The experts (AgentStore)                                                *)

\* What a tab asks to reject waits for review in its own list, and the tab has
\* a page; so the dialog never asks about a shipped agent.
RejectionInv ==
    \A t \in Tab : \A a \in rejectTarget[t] :
        agents[t][a] = "PENDING" /\ page[t] # "none"

\* The agents that come with the portal count as approved and are not created.
ShippedInv == DefaultAgents \subseteq approved /\ created \intersect DefaultAgents = {}

AgentInv ==
    AgentTypeOK /\ RejectionInv /\ ShippedInv /\ AgentsAreGoverned

-----------------------------------------------------------------------------
LEMMA AgentsStart == AgentInit => AgentInv
<1> SUFFICES ASSUME AgentInit PROVE AgentInv
  OBVIOUS
<1>1. AgentTypeOK /\ RejectionInv /\ ShippedInv
  BY AgentStoreAssumption
  DEF AgentInit, AgentTypeOK, Agents, AgentStatus, Page, RejectionInv, ShippedInv
<1>2. PublishedAgentIsApproved /\ AgentsAreKept /\ ShippedStayUsable
  BY DEF AgentInit, PublishedAgentIsApproved, AgentsAreKept, ShippedStayUsable
<1> QED BY <1>1, <1>2 DEF AgentInv, AgentsAreGoverned

\* A tab that changes one agent, not a shipped one, writes its whole list.
LEMMA ChangeOfOneAgent ==
    ASSUME AgentInv, NEW t \in Tab, NEW a \in Agent,
           NEW new \in AgentStatus \union {"absent"},
           Persist(t, [agents[t] EXCEPT ![a] = new]),
           a \in DefaultAgents => new \in {"PUBLISHED", "LISTED"},
           page' = page,
           created' \subseteq Agent, approved' \subseteq Agent,
           created \ {a} = created' \ {a}, approved \ {a} = approved' \ {a},
           a \in DefaultAgents => a \in approved' /\ a \notin created',
           rejectTarget' \in [Tab -> SUBSET Agent],
           \A u \in Tab : rejectTarget'[u] \subseteq rejectTarget[u],
           a \notin rejectTarget'[t],
           overwritten' \/ (new \in {"PUBLISHED", "LISTED"} => a \in approved'),
           overwritten' \/ a \in DefaultAgents \/ (new # "absent" <=> a \in created')
    PROVE  AgentInv'
<1> USE AgentStoreAssumption
<1> DEFINE list == [agents[t] EXCEPT ![a] = new]
<1>1. /\ agents' = [agents EXCEPT ![t] = list] /\ stored' = list
      /\ overwritten' = (overwritten \/ agents[t] # stored)
      /\ list \in Agents /\ list[a] = new
      /\ \A b \in Agent : b # a => list[b] = agents[t][b]
  BY DEF Persist, AgentInv, AgentTypeOK, Agents
<1>2. AgentTypeOK'
  BY <1>1 DEF AgentInv, AgentTypeOK
<1>3. /\ \A u \in Tab : u # t => agents'[u] = agents[u]
      /\ agents'[t] = list
  BY <1>1 DEF AgentInv, AgentTypeOK
<1>4. RejectionInv'
  <2> SUFFICES ASSUME NEW u \in Tab, NEW b \in rejectTarget'[u]
               PROVE  agents'[u][b] = "PENDING" /\ page'[u] # "none"
    BY DEF RejectionInv
  <2>1. agents[u][b] = "PENDING" /\ page[u] # "none" /\ b \in Agent
    BY DEF AgentInv, RejectionInv, AgentTypeOK
  <2> QED BY <2>1, <1>1, <1>3
<1>5. ShippedInv'
  BY DEF AgentInv, ShippedInv
<1>6. ~overwritten' => ~overwritten /\ agents[t] = stored
  BY <1>1
<1>7. PublishedAgentIsApproved'
  BY <1>1, <1>6 DEF AgentInv, AgentsAreGoverned, PublishedAgentIsApproved
<1>8. AgentsAreKept'
  <2> SUFFICES ASSUME ~overwritten', NEW b \in Agent \ DefaultAgents
               PROVE  stored'[b] # "absent" <=> b \in created'
    BY DEF AgentsAreKept
  <2>1. stored[b] # "absent" <=> b \in created
    BY <1>6 DEF AgentInv, AgentsAreGoverned, AgentsAreKept
  <2> QED BY <1>1, <1>6, <2>1
<1>9. ShippedStayUsable'
  BY <1>1, <1>3 DEF AgentInv, AgentsAreGoverned, ShippedStayUsable
<1> QED BY <1>2, <1>4, <1>5, <1>7, <1>8, <1>9 DEF AgentInv, AgentsAreGoverned

\* An agent that a tab asks to submit, remove, approve or reject is not a
\* shipped one.
LEMMA ReviewedIsNotShipped ==
    ASSUME AgentInv, NEW t \in Tab, NEW a \in Agent, page[t] # "none",
           agents[t][a] \in {"DRAFT", "PENDING", "absent"}
    PROVE  a \notin DefaultAgents
BY DEF AgentInv, AgentsAreGoverned, ShippedStayUsable

LEMMA AgentsGoOn == AgentInv /\ [AgentNext]_agentVars => AgentInv'
<1> SUFFICES ASSUME AgentInv, [AgentNext]_agentVars PROVE AgentInv'
  OBVIOUS
<1> USE AgentStoreAssumption
<1>1. /\ created \subseteq Agent /\ approved \subseteq Agent
      /\ rejectTarget \in [Tab -> SUBSET Agent]
      /\ DefaultAgents \subseteq approved /\ created \intersect DefaultAgents = {}
  BY DEF AgentInv, AgentTypeOK, ShippedInv
<1>2. ASSUME NEW t \in Tab, NEW to \in Page \ {"none"}, OpenAgentPage(t, to)
      PROVE  AgentInv'
  <2> DEFINE list == MergeDefaultAgents(stored)
  <2>1. /\ page' = [page EXCEPT ![t] = to] /\ agents' = [agents EXCEPT ![t] = list]
        /\ stored' = list /\ rejectTarget' = [rejectTarget EXCEPT ![t] = {}]
        /\ UNCHANGED <<created, approved, overwritten>>
    BY <1>2 DEF OpenAgentPage
  <2>2. /\ list \in Agents
        /\ \A a \in Agent : list[a] = IF a \in DefaultAgents THEN "LISTED" ELSE stored[a]
    BY DEF MergeDefaultAgents, AgentInv, AgentTypeOK, Agents, AgentStatus
  <2>3. AgentTypeOK'
    BY <2>1, <2>2 DEF AgentInv, AgentTypeOK
  <2>4. RejectionInv'
    BY <2>1 DEF AgentInv, AgentTypeOK, RejectionInv
  <2>5. ShippedInv'
    BY <2>1 DEF AgentInv, ShippedInv
  <2>6. PublishedAgentIsApproved'
    BY <2>1, <2>2, <1>1 DEF AgentInv, AgentsAreGoverned, PublishedAgentIsApproved
  <2>7. AgentsAreKept'
    BY <2>1, <2>2 DEF AgentInv, AgentsAreGoverned, AgentsAreKept
  <2>8. ShippedStayUsable'
    BY <2>1, <2>2 DEF AgentInv, AgentTypeOK, AgentsAreGoverned, ShippedStayUsable
  <2> QED BY <2>3, <2>4, <2>5, <2>6, <2>7, <2>8 DEF AgentInv, AgentsAreGoverned
<1>3. ASSUME NEW t \in Tab, NEW a \in Agent, AgentAction(t, a) PROVE AgentInv'
  <2>1. /\ page' = page /\ rejectTarget' = rejectTarget
        /\ page[t] # "none" /\ a \notin rejectTarget[t]
    BY <1>3 DEF AgentAction, ShowsAgents
  <2>2. agents[t] = stored \/ overwritten'
    BY <1>3 DEF AgentAction, SubmitForReview, RemoveAgent, ApproveAgent, ListAgent,
                UnlistAgent, Persist
  <2>3. CASE agents[t][a] = "DRAFT" /\ SubmitForReview(t, a)
    <3>1. stored[a] # "absent" \/ overwritten'
      BY <2>2, <2>3
    <3>2. a \in created \/ overwritten'
      BY <3>1, <2>1, <2>3, ReviewedIsNotShipped
      DEF SubmitForReview, Persist, AgentInv, AgentsAreGoverned, AgentsAreKept
    <3> QED BY <1>1, <2>1, <2>3, <3>2, ReviewedIsNotShipped, ChangeOfOneAgent
            DEF SubmitForReview, AgentStatus
  <2>4. CASE agents[t][a] = "DRAFT" /\ RemoveAgent(t, a)
    BY <1>1, <2>1, <2>4, ReviewedIsNotShipped, ChangeOfOneAgent DEF RemoveAgent
  <2>5. CASE agents[t][a] = "PENDING" /\ ApproveAgent(t, a)
    <3>1. stored[a] # "absent" \/ overwritten'
      BY <2>2, <2>5
    <3>2. a \in created \/ overwritten'
      BY <3>1, <2>1, <2>5, ReviewedIsNotShipped
      DEF ApproveAgent, Persist, AgentInv, AgentsAreGoverned, AgentsAreKept
    <3> QED BY <1>1, <2>1, <2>5, <3>2, ReviewedIsNotShipped, ChangeOfOneAgent
            DEF ApproveAgent, AgentStatus
  <2>6. ASSUME NEW new \in {"LISTED", "PUBLISHED"},
               agents[t][a] \in {"LISTED", "PUBLISHED"},
               Persist(t, [agents[t] EXCEPT ![a] = new]),
               UNCHANGED <<created, approved>>
        PROVE  AgentInv'
    <3>1. stored[a] \in {"PUBLISHED", "LISTED"} \/ overwritten'
      BY <2>2, <2>6
    <3>2. ~overwritten' => ~overwritten
      BY <2>6 DEF Persist
    <3>3. a \in approved \/ overwritten'
      BY <3>1, <3>2 DEF AgentInv, AgentsAreGoverned, PublishedAgentIsApproved
    <3>4. a \in created \/ a \in DefaultAgents \/ overwritten'
      BY <3>1, <3>2 DEF AgentInv, AgentsAreGoverned, AgentsAreKept
    <3> QED BY <1>1, <2>1, <2>6, <3>3, <3>4, ChangeOfOneAgent DEF AgentStatus
  <2>7. CASE agents[t][a] = "PUBLISHED" /\ ListAgent(t, a)
    BY <2>6, <2>7 DEF ListAgent
  <2>8. CASE agents[t][a] = "LISTED" /\ UnlistAgent(t, a)
    BY <2>6, <2>8 DEF UnlistAgent
  <2> QED BY <1>3, <2>3, <2>4, <2>5, <2>7, <2>8 DEF AgentAction
<1>4. ASSUME NEW t \in Tab, NEW a \in Agent, OpenRejectModal(t, a) PROVE AgentInv'
  <2>1. /\ page[t] # "none" /\ agents[t][a] = "PENDING"
        /\ rejectTarget' = [rejectTarget EXCEPT ![t] = {a}]
        /\ UNCHANGED <<stored, agents, page, created, approved, overwritten>>
    BY <1>4 DEF OpenRejectModal, ShowsAgents
  <2>2. AgentTypeOK' /\ RejectionInv'
    BY <2>1 DEF AgentInv, AgentTypeOK, RejectionInv
  <2> QED BY <2>1, <2>2 DEF AgentInv, ShippedInv, AgentsAreGoverned,
                            PublishedAgentIsApproved, AgentsAreKept, ShippedStayUsable
<1>5. ASSUME NEW t \in Tab, CloseRejectModal(t) PROVE AgentInv'
  <2>1. /\ page' = page /\ rejectTarget' = [rejectTarget EXCEPT ![t] = {}]
    BY <1>5 DEF CloseRejectModal
  <2>2. /\ rejectTarget' \in [Tab -> SUBSET Agent] /\ rejectTarget'[t] = {}
        /\ \A u \in Tab : rejectTarget'[u] \subseteq rejectTarget[u]
    BY <2>1, <1>1
  <2>3. ASSUME NEW a \in rejectTarget[t], RejectAgent(t, a) PROVE AgentInv'
    <3>1. a \in Agent /\ agents[t][a] = "PENDING" /\ page[t] # "none"
      BY <1>1 DEF AgentInv, RejectionInv
    <3>2. stored[a] = "PENDING" \/ overwritten'
      BY <2>3, <3>1 DEF RejectAgent, Persist
    <3>3. a \in created \/ overwritten'
      BY <3>1, <3>2, <2>3, ReviewedIsNotShipped
      DEF RejectAgent, Persist, AgentInv, AgentsAreGoverned, AgentsAreKept
    <3> QED BY <1>1, <2>1, <2>2, <2>3, <3>1, <3>3, ReviewedIsNotShipped,
               ChangeOfOneAgent
            DEF RejectAgent, AgentStatus
  <2>4. CASE UNCHANGED <<stored, agents, created, approved, overwritten>>
    <3>1. AgentTypeOK' /\ RejectionInv'
      BY <2>1, <2>2, <2>4 DEF AgentInv, AgentTypeOK, RejectionInv
    <3> QED BY <2>1, <2>4, <3>1
            DEF AgentInv, ShippedInv, AgentsAreGoverned, PublishedAgentIsApproved,
                AgentsAreKept, ShippedStayUsable
  <2> QED BY <1>5, <2>3, <2>4 DEF CloseRejectModal
<1>6. ASSUME NEW t \in Tab, NEW a \in Agent, NEW status \in {"DRAFT", "PENDING"},
             SaveAgent(t, a, status)
      PROVE  AgentInv'
  <2>1. /\ page' = page /\ rejectTarget' = rejectTarget /\ rejectTarget[t] = {}
        /\ a \notin DefaultAgents /\ created' = created \union {a}
        /\ approved' = approved \ {a}
        /\ Persist(t, [agents[t] EXCEPT ![a] = status])
    BY <1>6 DEF SaveAgent, AddAgent, ShowsAgents
  <2> QED BY <1>1, <2>1, ChangeOfOneAgent DEF AgentStatus
<1>7. ASSUME NEW t \in Tab, NEW a \in Agent, NEW status \in {"DRAFT", "PENDING"},
             SaveEditedAgent(t, a, status)
      PROVE  AgentInv'
  <2>1. /\ page' = page /\ rejectTarget' = rejectTarget /\ rejectTarget[t] = {}
        /\ page[t] # "none" /\ agents[t][a] = "DRAFT" /\ a \notin DefaultAgents
    BY <1>7, ReviewedIsNotShipped DEF SaveEditedAgent, ShowsAgents
  <2>2. agents[t] = stored \/ overwritten'
    BY <1>7 DEF SaveEditedAgent, SubmitForReview, Persist
  <2>3. a \in created \/ overwritten'
    BY <1>7, <2>1, <2>2 DEF SaveEditedAgent, SubmitForReview, Persist, AgentInv,
                            AgentsAreGoverned, AgentsAreKept
  <2>4. CASE SubmitForReview(t, a)
    BY <1>1, <2>1, <2>3, <2>4, ChangeOfOneAgent DEF SubmitForReview, AgentStatus
  <2>5. CASE Persist(t, agents[t]) /\ UNCHANGED <<created, approved>>
    <3>1. agents[t] = [agents[t] EXCEPT ![a] = "DRAFT"]
      BY <2>1 DEF AgentInv, AgentTypeOK, Agents
    <3>2. Persist(t, [agents[t] EXCEPT ![a] = "DRAFT"])
      BY <2>5, <3>1 DEF Persist
    <3> QED BY <1>1, <2>1, <2>3, <2>5, <3>2, ChangeOfOneAgent DEF AgentStatus
  <2> QED BY <1>7, <2>4, <2>5 DEF SaveEditedAgent
<1>8. CASE UNCHANGED agentVars
  BY <1>8 DEF agentVars, AgentInv, AgentTypeOK, RejectionInv, ShippedInv, AgentsAreGoverned,
              PublishedAgentIsApproved, AgentsAreKept, ShippedStayUsable
<1> QED BY <1>2, <1>3, <1>4, <1>5, <1>6, <1>7, <1>8 DEF AgentNext

-----------------------------------------------------------------------------
\* An agent others can talk to was approved, none is lost or comes back, and the
\* shipped ones stay usable, in however many tabs the agents are worked on,
\* unless a tab wrote a list it had read before another tab's change
\* (useAgents, persist and mergeDefaultAgents).
THEOREM AgentsStayGoverned == AgentSpec => []AgentsAreGoverned
<1>1. AgentInv => AgentsAreGoverned
  BY DEF AgentInv
<1> QED BY AgentsStart, AgentsGoOn, <1>1, PTL DEF AgentSpec

-----------------------------------------------------------------------------
(* The badcases (BadcaseBoard)                                             *)

\* A move under way goes from a column to a column.
DropsInv ==
    \A d \in Drop : drop[d].pc # "none" =>
        drop[d].from \in Column /\ drop[d].to \in Column

\* A card that is in doubt nowhere has one move at most, and while it moves, the
\* board is where the move goes and the server where it comes from or goes to.
MovingInv ==
    \A d \in Drop : drop[d].pc # "none" =>
        LET b == drop[d].id IN
        b \notin mixed =>
            /\ \A e \in Drop : drop[e].id = b => e = d
            /\ serverColumn[b] = IF drop[d].pc = "sent" THEN drop[d].from
                                 ELSE drop[d].to
            /\ boardItems[b] \in {drop[d].to, "absent"}

\* A move has a card exactly while it is under way.
IdleInv == \A d \in Drop : drop[d].id \in Badcase <=> drop[d].pc # "none"

\* A fetch knows the cards whose column may change while it is under way.
FetchInv ==
    boardFetch.pc # "none" =>
        /\ Moving \subseteq boardFetch.crossed
        /\ boardFetch.pc = "read" =>
              \A b \in Badcase \ boardFetch.crossed :
                  boardFetch.read[b] = serverColumn[b]

BoardInv ==
    /\ BoardTypeOK /\ DropsInv /\ MovingInv /\ IdleInv /\ FetchInv
    /\ CardIsWhereStored

-----------------------------------------------------------------------------
LEMMA BoardStarts == BoardInit => BoardInv
<1> SUFFICES ASSUME BoardInit PROVE BoardInv
  OBVIOUS
<1> USE BoardAssumption DEF BoardInit, NoDrop, NoFetch
<1>1. BoardTypeOK
  BY DEF BoardTypeOK
<1>2. IdleInv /\ DropsInv /\ MovingInv
  BY DEF IdleInv, DropsInv, MovingInv
<1>3. Moving = {}
  BY DEF Moving
<1>4. FetchInv /\ CardIsWhereStored
  BY <1>3 DEF FetchInv, CardIsWhereStored
<1> QED BY <1>1, <1>2, <1>4 DEF BoardInv

\* The cards that move are those of the moves under way.
LEMMA MovingIsOfDrops ==
    ASSUME NEW b \in Badcase, NEW d \in Drop, drop[d].id = b
    PROVE  b \in Moving
BY BoardAssumption DEF Moving

LEMMA BoardGoesOn == BoardInv /\ [BoardNext]_boardVars => BoardInv'
<1> SUFFICES ASSUME BoardInv, [BoardNext]_boardVars PROVE BoardInv'
  OBVIOUS
<1> USE BoardAssumption
<1>1. ASSUME NEW d \in Drop, NEW b \in Badcase, NEW column \in Column,
             HandleDrop(d, b, column)
      PROVE  BoardInv'
  <2> DEFINE new == [id |-> b, from |-> boardItems[b], to |-> column, pc |-> "sent"]
  <2>1. /\ drop[d] = NoDrop /\ drop' = [drop EXCEPT ![d] = new]
        /\ boardItems[b] \in Column
        /\ boardItems' = [boardItems EXCEPT ![b] = column]
        /\ mixed' = IF b \in Moving THEN mixed \union {b} ELSE mixed
        /\ serverColumn' = serverColumn
        /\ drop[d].pc = "none" /\ drop[d].id = NoBadcase
    BY <1>1 DEF HandleDrop, BoardInv, BoardTypeOK, NoDrop
  <2>2. BoardTypeOK'
    BY <1>1, <2>1 DEF HandleDrop, BoardInv, BoardTypeOK
  <2>3. DropsInv' /\ IdleInv'
    BY <2>1 DEF BoardInv, DropsInv, IdleInv, BoardTypeOK
  <2>4. Moving' = Moving \union {b}
    BY <2>1 DEF Moving, BoardInv, BoardTypeOK
  <2>5. MovingInv'
    <3> SUFFICES ASSUME NEW e \in Drop, drop'[e].pc # "none",
                        drop'[e].id \notin mixed'
                 PROVE  LET c == drop'[e].id IN
                        /\ \A f \in Drop : drop'[f].id = c => f = e
                        /\ serverColumn'[c] = IF drop'[e].pc = "sent"
                                              THEN drop'[e].from ELSE drop'[e].to
                        /\ boardItems'[c] \in {drop'[e].to, "absent"}
      BY DEF MovingInv
    <3>1. CASE e = d
      <4>1. drop'[e] = new /\ b \notin Moving /\ b \notin mixed
        BY <3>1, <2>1 DEF BoardInv, BoardTypeOK
      <4>2. boardItems[b] = serverColumn[b]
        BY <1>1, <4>1 DEF BoardInv, CardIsWhereStored, HandleDrop
      <4>3. \A f \in Drop : drop'[f].id = b => f = d
        BY <4>1, <2>1, MovingIsOfDrops DEF BoardInv, BoardTypeOK
      <4> QED BY <4>1, <4>2, <4>3, <3>1, <2>1 DEF BoardInv, BoardTypeOK
    <3>2. CASE e # d
      <4>1. drop'[e] = drop[e] /\ drop[e].id \in Badcase
        BY <3>2, <2>1 DEF BoardInv, BoardTypeOK, IdleInv
      <4>2. drop[e].id \in Moving
        BY <4>1, MovingIsOfDrops
      <4>3. drop[e].id # b /\ drop[e].id \notin mixed
        BY <4>1, <4>2, <2>1
      <4> QED BY <3>2, <4>1, <4>3, <2>1 DEF BoardInv, BoardTypeOK, MovingInv
    <3> QED BY <3>1, <3>2
  <2>6. FetchInv'
    BY <1>1, <2>1, <2>4 DEF BoardInv, BoardTypeOK, FetchInv, HandleDrop
  <2>7. CardIsWhereStored'
    BY <2>1, <2>4 DEF BoardInv, BoardTypeOK, CardIsWhereStored
  <2> QED BY <2>2, <2>3, <2>5, <2>6, <2>7 DEF BoardInv
<1>2. ASSUME NEW d \in Drop, ServerMoves(d) PROVE BoardInv'
  <2> DEFINE b == drop[d].id
  <2>1. /\ drop[d].pc = "sent" /\ drop' = [drop EXCEPT ![d].pc = "stored"]
        /\ serverColumn' = [serverColumn EXCEPT ![b] = drop[d].to]
        /\ UNCHANGED <<boardItems, boardFetch, mixed>>
        /\ b \in Badcase /\ b \in Moving /\ drop[d].to \in Column
    BY <1>2, MovingIsOfDrops DEF ServerMoves, BoardInv, IdleInv, DropsInv
  <2>2. BoardTypeOK'
    BY <2>1 DEF BoardInv, BoardTypeOK
  <2>3. DropsInv' /\ IdleInv'
    BY <2>1 DEF BoardInv, DropsInv, IdleInv, BoardTypeOK
  <2>4. Moving' = Moving
    BY <2>1 DEF Moving, BoardInv, BoardTypeOK
  <2>5. \A e \in Drop : /\ drop'[e].id = drop[e].id /\ drop'[e].to = drop[e].to
                        /\ drop'[e].from = drop[e].from
                        /\ e # d => drop'[e] = drop[e]
    BY <2>1 DEF BoardInv, BoardTypeOK
  <2>6. drop'[d].pc = "stored"
    BY <2>1 DEF BoardInv, BoardTypeOK
  <2>7. MovingInv'
    BY <2>1, <2>5, <2>6 DEF BoardInv, BoardTypeOK, MovingInv
  <2>8. FetchInv'
    BY <2>1, <2>4 DEF BoardInv, BoardTypeOK, FetchInv
  <2>9. CardIsWhereStored'
    BY <2>1, <2>4 DEF BoardInv, BoardTypeOK, CardIsWhereStored
  <2> QED BY <2>2, <2>3, <2>7, <2>8, <2>9 DEF BoardInv
<1>3. ASSUME NEW d \in Drop, DropSucceeds(d) \/ DropFails(d) PROVE BoardInv'
  <2> DEFINE b == drop[d].id
  <2>1. /\ drop[d].pc # "none" /\ drop' = [drop EXCEPT ![d] = NoDrop]
        /\ UNCHANGED <<serverColumn, boardFetch>>
        /\ mixed \subseteq mixed' /\ mixed' \subseteq mixed \union {b}
        /\ \A c \in Badcase : c # b => boardItems'[c] = boardItems[c]
        /\ b \in Badcase /\ b \in Moving
    BY <1>3, MovingIsOfDrops
    DEF DropSucceeds, DropFails, BoardInv, BoardTypeOK, IdleInv
  <2>2. BoardTypeOK'
    BY <1>3, <2>1 DEF DropSucceeds, DropFails, BoardInv, BoardTypeOK, NoDrop
  <2>3. DropsInv' /\ IdleInv'
    BY <2>1 DEF BoardInv, DropsInv, IdleInv, BoardTypeOK, NoDrop
  <2>4. Moving' \subseteq Moving /\ Moving \subseteq Moving' \union {b}
    BY <2>1 DEF Moving, BoardInv, BoardTypeOK, NoDrop
  <2>5. \A e \in Drop : drop'[e].id \in Badcase => drop'[e] = drop[e] /\ e # d
    BY <2>1 DEF BoardInv, BoardTypeOK, NoDrop
  <2>6. MovingInv'
    <3> SUFFICES ASSUME NEW e \in Drop, drop'[e].pc # "none",
                        drop'[e].id \notin mixed'
                 PROVE  LET c == drop'[e].id IN
                        /\ \A f \in Drop : drop'[f].id = c => f = e
                        /\ serverColumn'[c] = IF drop'[e].pc = "sent"
                                              THEN drop'[e].from ELSE drop'[e].to
                        /\ boardItems'[c] \in {drop'[e].to, "absent"}
      BY DEF MovingInv
    <3>1. drop'[e] = drop[e] /\ e # d /\ drop[e].id \in Badcase
      BY <2>3, <2>5 DEF IdleInv
    <3>2. drop[e].id \notin mixed /\ drop[e].id # b
      BY <3>1, <2>1 DEF BoardInv, MovingInv
    <3> QED BY <2>1, <2>5, <3>1, <3>2 DEF BoardInv, MovingInv
  <2>7. FetchInv'
    BY <2>1, <2>4 DEF BoardInv, FetchInv
  <2>8. ASSUME b \notin mixed' PROVE boardItems'[b] \in {serverColumn'[b], "absent"}
    <3>1. /\ serverColumn[b] = IF drop[d].pc = "sent" THEN drop[d].from
                               ELSE drop[d].to
          /\ boardItems[b] \in {drop[d].to, "absent"}
          /\ drop[d].pc \in {"sent", "stored"}
      BY <2>1, <2>8 DEF BoardInv, BoardTypeOK, MovingInv
    <3>2. CASE DropSucceeds(d)
      BY <3>1, <3>2, <2>1 DEF DropSucceeds
    <3>3. CASE DropFails(d)
      <4>1. drop[d].pc = "sent"
        BY <2>8, <3>1, <3>3 DEF DropFails
      <4> QED BY <3>1, <3>3, <4>1, <2>1 DEF DropFails, BoardInv, BoardTypeOK
    <3> QED BY <1>3, <3>2, <3>3
  <2>9. CardIsWhereStored'
    BY <2>1, <2>4, <2>8 DEF BoardInv, CardIsWhereStored
  <2> QED BY <2>2, <2>3, <2>6, <2>7, <2>9 DEF BoardInv
<1>4. CASE FetchBoard \/ ServerReadsBoard \/ BoardFails
  <2>1. UNCHANGED <<serverColumn, boardItems, drop, mixed>> /\ Moving' = Moving
    BY <1>4 DEF FetchBoard, ServerReadsBoard, BoardFails, Moving
  <2>2. Moving \subseteq Badcase
    BY DEF Moving, BoardInv, BoardTypeOK
  <2>3. ASSUME FetchBoard PROVE BoardTypeOK' /\ FetchInv'
    <3>1. boardFetch' = [pc |-> "sent", read |-> [b \in Badcase |-> "absent"],
                         crossed |-> Moving]
      BY <2>3 DEF FetchBoard, NoFetch
    <3>2. BoardTypeOK'
      BY <2>1, <2>2, <3>1 DEF BoardInv, BoardTypeOK
    <3>3. FetchInv'
      BY <2>1, <3>1 DEF FetchInv
    <3> QED BY <3>2, <3>3
  <2>4. ASSUME ServerReadsBoard PROVE BoardTypeOK' /\ FetchInv'
    <3>1. boardFetch' = [pc |-> "read", read |-> serverColumn,
                         crossed |-> boardFetch.crossed] /\ boardFetch.pc # "none"
      BY <2>4 DEF ServerReadsBoard, BoardInv, BoardTypeOK
    <3>2. BoardTypeOK'
      BY <2>1, <3>1 DEF BoardInv, BoardTypeOK
    <3>3. FetchInv'
      BY <2>1, <3>1 DEF BoardInv, FetchInv
    <3> QED BY <3>2, <3>3
  <2>5. ASSUME BoardFails PROVE BoardTypeOK' /\ FetchInv'
    BY <2>1, <2>5 DEF BoardFails, NoFetch, BoardInv, BoardTypeOK, FetchInv
  <2>6. BoardTypeOK' /\ FetchInv'
    BY <1>4, <2>3, <2>4, <2>5
  <2> QED BY <2>1, <2>6 DEF BoardInv, DropsInv, MovingInv, IdleInv, CardIsWhereStored
<1>5. CASE BoardArrives
  <2>1. /\ UNCHANGED <<serverColumn, drop>> /\ Moving' = Moving
        /\ boardItems' = boardFetch.read /\ mixed' = boardFetch.crossed
        /\ boardFetch' = NoFetch /\ BoardTypeOK'
    BY <1>5 DEF BoardArrives, NoFetch, BoardInv, BoardTypeOK, Moving
  <2>2. /\ Moving \subseteq mixed'
        /\ \A b \in Badcase \ mixed' : boardItems'[b] = serverColumn[b]
    BY <1>5, <2>1 DEF BoardArrives, BoardInv, FetchInv
  <2>3. MovingInv'
    BY <2>1, <2>2, MovingIsOfDrops DEF BoardInv, MovingInv, IdleInv
  <2>4. FetchInv' /\ CardIsWhereStored'
    BY <2>1, <2>2 DEF FetchInv, CardIsWhereStored, NoFetch
  <2> QED BY <2>1, <2>3, <2>4 DEF BoardInv, DropsInv, IdleInv
<1>6. CASE UNCHANGED boardVars
  BY <1>6 DEF boardVars, BoardInv, BoardTypeOK, DropsInv, MovingInv, IdleInv,
              FetchInv, CardIsWhereStored, Moving
<1> QED BY <1>1, <1>2, <1>3, <1>4, <1>5, <1>6 DEF BoardNext

-----------------------------------------------------------------------------
\* A card that nobody is moving stands in the column the server has stored,
\* whatever order moves, fetches and their failures are answered in
\* (dashboard of badcases, handleDrop with its rollback).
THEOREM CardsStandWhereStored == BoardSpec => []CardIsWhereStored
<1>1. BoardInv => CardIsWhereStored
  BY DEF BoardInv
<1> QED BY BoardStarts, BoardGoesOn, <1>1, PTL DEF BoardSpec

-----------------------------------------------------------------------------
(* The models (ModelStore)                                                 *)

\* Of the models with the flag, in the list or in the list an import was begun
\* with, one at most has it from elsewhere than a file.
OneOwnFlag(flags) == \A a, b \in flags \ ownDefaults : a = b

ImportInv ==
    /\ importing \in [list : SUBSET Model, flags : SUBSET Model, on : BOOLEAN]
    /\ importing.flags \subseteq importing.list

\* The tests under way were begun in the sheet that is open.
TestsInv == sheetOpen /\ ~crossedTest => \A m \in tests : m = editingModel

ModelInv ==
    /\ ModelTypeOK /\ ImportInv
    /\ OneOwnFlag(isDefault) /\ OneOwnFlag(importing.flags)
    /\ TestsInv /\ TestIsOfTheSheet

LEMMA ModelsStart == ModelInit => ModelInv
<1> SUFFICES ASSUME ModelInit PROVE ModelInv
  OBVIOUS
<1>1. PICK m \in Model : models = {m} /\ isDefault = {m}
  BY DEF ModelInit
<1>2. ModelTypeOK /\ ImportInv
  BY <1>1 DEF ModelInit, ModelTypeOK, ImportInv, NoImport
<1>3. OneOwnFlag(isDefault) /\ OneOwnFlag(importing.flags)
  BY <1>1 DEF ModelInit, OneOwnFlag, NoImport
<1> QED BY <1>2, <1>3 DEF ModelInv, ModelInit, TestsInv, TestIsOfTheSheet

\* A step that leaves the sheet alone keeps what it shows.
LEMMA SheetRests ==
    ASSUME ModelInv, UNCHANGED sheetVars PROVE TestsInv' /\ TestIsOfTheSheet'
BY DEF ModelInv, sheetVars, TestsInv, TestIsOfTheSheet

\* So does a step that leaves the flags alone.
LEMMA FlagsRest ==
    ASSUME ModelInv, UNCHANGED <<isDefault, importing, ownDefaults>>
    PROVE  /\ ImportInv'
           /\ OneOwnFlag(isDefault)' /\ OneOwnFlag(importing.flags)'
BY DEF ModelInv, ImportInv, OneOwnFlag

LEMMA ModelsGoOn == ModelInv /\ [ModelNext]_modelVars => ModelInv'
<1> SUFFICES ASSUME ModelInv, [ModelNext]_modelVars PROVE ModelInv'
  OBVIOUS
<1>0. /\ ModelTypeOK /\ ImportInv /\ OneOwnFlag(isDefault)
      /\ OneOwnFlag(importing.flags) /\ TestsInv /\ TestIsOfTheSheet
  BY DEF ModelInv
<1> DEFINE Flags == /\ ImportInv'
                    /\ OneOwnFlag(isDefault)' /\ OneOwnFlag(importing.flags)'
<1>1. ASSUME NEW m \in Model, SetDefaultModel(m) \/ RemoveModel(m) PROVE ModelInv'
  <2>1. /\ UNCHANGED <<importing, sheetVars>> /\ KeepImportedFlags
        /\ models' \subseteq models /\ isDefault' \subseteq models'
        /\ isDefault' = {m} \/ isDefault' = isDefault \ {m}
    BY <1>0, <1>1 DEF SetDefaultModel, RemoveModel, ModelTypeOK
  <2>2. ModelTypeOK'
    BY <1>0, <2>1 DEF ModelTypeOK, sheetVars, KeepImportedFlags
  <2>3. Flags
    BY <1>0, <2>1 DEF ImportInv, OneOwnFlag, KeepImportedFlags
  <2> QED BY <2>1, <2>2, <2>3, SheetRests DEF ModelInv
<1>2. ASSUME NEW imported \in SUBSET Model, NEW flags \in SUBSET Model,
             ImportModels(imported, flags)
      PROVE  ModelInv'
  <2>1. /\ importing' = NoImport /\ flags \subseteq imported
        /\ models' = importing.list \union imported
        /\ isDefault' = importing.flags \union flags
        /\ ownDefaults' = (ownDefaults \intersect isDefault') \union flags
        /\ UNCHANGED sheetVars
    BY <1>2 DEF ImportModels
  <2>2. ModelTypeOK'
    BY <1>0, <2>1 DEF ModelTypeOK, ImportInv, sheetVars, NoImport
  <2>3. Flags
    BY <1>0, <2>1 DEF ImportInv, OneOwnFlag, NoImport
  <2> QED BY <2>1, <2>2, <2>3, SheetRests DEF ModelInv
<1>3. CASE ImportBegins
  <2>1. /\ importing' = [list |-> models, flags |-> isDefault, on |-> TRUE]
        /\ UNCHANGED <<models, isDefault, sheetVars, ownDefaults>>
    BY <1>3 DEF ImportBegins
  <2>2. ModelTypeOK'
    BY <1>0, <2>1 DEF ModelTypeOK, sheetVars
  <2>3. Flags
    BY <1>0, <2>1 DEF ImportInv, OneOwnFlag, ModelTypeOK
  <2> QED BY <2>1, <2>2, <2>3, SheetRests DEF ModelInv
<1>4. CASE ImportFails
  <2>1. /\ importing' = NoImport /\ KeepImportedFlags
        /\ UNCHANGED <<models, isDefault, sheetVars>>
    BY <1>4 DEF ImportFails
  <2>2. ModelTypeOK'
    BY <1>0, <2>1 DEF ModelTypeOK, sheetVars, NoImport, KeepImportedFlags
  <2>3. Flags
    BY <1>0, <2>1 DEF ImportInv, OneOwnFlag, NoImport, KeepImportedFlags
  <2> QED BY <2>1, <2>2, <2>3, SheetRests DEF ModelInv
<1>5. ASSUME NEW m \in Model \union {NoModel}, OpenSheet(m) \/ TestEnds(m) PROVE ModelInv'
  <2>1. UNCHANGED <<isDefault, importing, ownDefaults>>
    BY <1>5 DEF OpenSheet, TestEnds
  <2>2. ModelTypeOK'
    BY <1>0, <1>5 DEF ModelTypeOK, OpenSheet, TestEnds
  <2>3. CASE OpenSheet(m)
    <3>1. TestsInv'
      BY <2>3 DEF OpenSheet, TestsInv
    <3>2. TestIsOfTheSheet'
      BY <2>3 DEF OpenSheet, TestIsOfTheSheet
    <3> QED BY <2>1, <2>2, <3>1, <3>2, FlagsRest DEF ModelInv
  <2>4. CASE TestEnds(m)
    <3>1. TestsInv' /\ TestIsOfTheSheet'
      BY <1>0, <2>4 DEF TestEnds, TestsInv, TestIsOfTheSheet
    <3> QED BY <2>1, <2>2, <3>1, FlagsRest DEF ModelInv
  <2> QED BY <1>5, <2>3, <2>4
<1>6. CASE CloseSheet \/ HandleSave \/ HandleTest \/ UNCHANGED modelVars
  <2>1. UNCHANGED <<isDefault, importing, ownDefaults>>
    BY <1>6 DEF CloseSheet, HandleSave, HandleTest, modelVars
  <2>2. ModelTypeOK'
    <3>1. CASE CloseSheet
      BY <1>0, <3>1 DEF ModelTypeOK, CloseSheet
    <3>2. CASE HandleSave
      <4>1. models' \subseteq Model /\ models \subseteq models'
        BY <1>0, <3>2 DEF ModelTypeOK, HandleSave, Unused
      <4>2. /\ sheetOpen' = FALSE
            /\ UNCHANGED <<isDefault, importing, editingModel, testStatus, tests,
                           tested, ownDefaults, crossedTest>>
        BY <3>2 DEF HandleSave
      <4> QED BY <1>0, <4>1, <4>2 DEF ModelTypeOK
    <3>3. CASE HandleTest
      BY <1>0, <3>3 DEF ModelTypeOK, HandleTest
    <3>4. CASE UNCHANGED modelVars
      BY <1>0, <3>4 DEF ModelTypeOK, modelVars
    <3> QED BY <1>6, <3>1, <3>2, <3>3, <3>4
  <2>3. TestsInv' /\ TestIsOfTheSheet'
    BY <1>0, <1>6 DEF CloseSheet, HandleSave, HandleTest, modelVars, TestsInv,
                      TestIsOfTheSheet, ModelTypeOK
  <2> QED BY <2>1, <2>2, <2>3, FlagsRest DEF ModelInv
<1> QED BY <1>1, <1>2, <1>3, <1>4, <1>5, <1>6 DEF ModelNext

\* One default model, unless an imported file brought another; and the result of a
\* test is that of the model in the sheet, unless the sheet was opened during a
\* test (useLLMModels and its panel).
THEOREM PanelStaysTrue == ModelSpec => []ModelPanelIsTrue
<1>1. OneOwnFlag(isDefault) => AtMostOneDefault
  <2> SUFFICES ASSUME OneOwnFlag(isDefault), isDefault \intersect ownDefaults = {}
               PROVE  ~(Cardinality(isDefault) > 1)
    BY DEF AtMostOneDefault
  <2>1. isDefault = {} \/ \E m \in isDefault : isDefault = {m}
    BY DEF OneOwnFlag
  <2>2. Cardinality(isDefault) \in {0, 1}
    BY <2>1, FS_EmptySet, FS_Singleton
  <2> QED BY <2>2
<1>2. ModelInv => ModelPanelIsTrue
  BY <1>1 DEF ModelInv, ModelPanelIsTrue
<1> QED BY <1>2, ModelsStart, ModelsGoOn, PTL DEF ModelSpec

-----------------------------------------------------------------------------
(* The traces (TraceDetails)                                               *)

\* One fetch of a row is under way at most, and it holds the rows the user
\* wants, unless a row was clicked meanwhile.
RowInv ==
    crossedRows \/
        IF LookingUp("row") = {} THEN expandedTraceKeys = wanted
        ELSE \E c \in Lookup : LookingUp("row") = {c} /\ lookup[c].newKeys = wanted

\* The rows a fetch will unfold have their detail, but for its own.
NewKeysInv ==
    \A c \in LookingUp("row") :
        /\ lookup[c].trace \in Trace
        /\ lookup[c].newKeys \subseteq traceDetailCache \union {lookup[c].trace}

\* The fetches of the drawer are for the trace it was opened for.
DrawerInv ==
    ~crossedDrawer => \A c \in LookingUp("drawer") : lookup[c].trace = detailTraceId

TraceInv ==
    TraceTypeOK /\ RowInv /\ NewKeysInv /\ DrawerInv
    /\ UnfoldedRowHasDetail /\ DrawerShowsItsTrace

LEMMA TracesStart == TraceInit => TraceInv
<1> SUFFICES ASSUME TraceInit PROVE TraceInv
  OBVIOUS
<1>1. LookingUp("row") = {} /\ LookingUp("drawer") = {}
  BY DEF TraceInit, LookingUp, NoLookup
<1>2. TraceTypeOK
  BY DEF TraceInit, TraceTypeOK, NoLookup
<1> QED
  BY <1>1, <1>2 DEF TraceInit, TraceInv, RowInv, NewKeysInv, DrawerInv,
                    UnfoldedRowHasDetail, DrawerShowsItsTrace

\* A fetch that begins, one that ends.
LEMMA LookupBegins ==
    ASSUME TraceTypeOK, NEW by \in {"row", "drawer"}, NEW t \in Trace,
           NEW keys \in SUBSET Trace, StartLookup(by, t, keys)
    PROVE  \E c \in Lookup :
              /\ lookup[c].by = "none"
              /\ lookup' \in [Lookup -> [by : {"none", "row", "drawer"},
                                         trace : Trace \union {NoTrace},
                                         newKeys : SUBSET Trace]]
              /\ lookup'[c] = [by |-> by, trace |-> t, newKeys |-> keys]
              /\ \A d \in Lookup \ {c} : lookup'[d] = lookup[d]
              /\ LookingUp(by)' = LookingUp(by) \union {c}
              /\ \A other \in {"row", "drawer"} \ {by} : LookingUp(other)' = LookingUp(other)
<1>1. PICK c \in LookingUp("none") :
         lookup' = [lookup EXCEPT ![c] = [by |-> by, trace |-> t, newKeys |-> keys]]
  BY DEF StartLookup
<1>2. c \in Lookup /\ lookup[c].by = "none"
  BY DEF LookingUp
<1>3. /\ lookup'[c] = [by |-> by, trace |-> t, newKeys |-> keys]
      /\ \A d \in Lookup \ {c} : lookup'[d] = lookup[d]
  BY <1>1, <1>2 DEF TraceTypeOK
<1> QED BY <1>1, <1>2, <1>3 DEF TraceTypeOK, LookingUp

LEMMA LookupEnds ==
    ASSUME TraceTypeOK, NEW c \in Lookup, NEW by \in {"row", "drawer"}, lookup[c].by = by,
           lookup' = [lookup EXCEPT ![c] = NoLookup]
    PROVE  /\ lookup' \in [Lookup -> [by : {"none", "row", "drawer"},
                                      trace : Trace \union {NoTrace},
                                      newKeys : SUBSET Trace]]
           /\ \A d \in Lookup \ {c} : lookup'[d] = lookup[d]
           /\ LookingUp(by)' = LookingUp(by) \ {c} /\ c \in LookingUp(by)
           /\ \A other \in {"row", "drawer"} \ {by} :
                 LookingUp(other)' = LookingUp(other) /\ c \notin LookingUp(other)
           /\ lookup[c].trace \in Trace \union {NoTrace}
           /\ lookup[c].newKeys \subseteq Trace
<1>1. /\ lookup'[c] = NoLookup /\ NoLookup.by = "none"
      /\ \A d \in Lookup \ {c} : lookup'[d] = lookup[d]
      /\ NoLookup \in [by : {"none", "row", "drawer"}, trace : Trace \union {NoTrace},
                       newKeys : SUBSET Trace]
  BY DEF TraceTypeOK, NoLookup
<1> QED BY <1>1 DEF TraceTypeOK, LookingUp

\* Nothing about the rows, nothing about the drawer changes.
LEMMA RowsRest ==
    ASSUME TraceInv, UNCHANGED rowVars, LookingUp("row")' = LookingUp("row"),
           \A c \in LookingUp("row") : lookup'[c] = lookup[c]
    PROVE  RowInv' /\ NewKeysInv' /\ UnfoldedRowHasDetail'
<1>1. /\ UNCHANGED <<expandedTraceKeys, traceDetailCache, wanted, crossedRows>>
      /\ RowInv /\ NewKeysInv /\ UnfoldedRowHasDetail
  BY DEF TraceInv, rowVars
<1>2. RowInv'
  BY <1>1 DEF RowInv
<1> QED BY <1>1, <1>2 DEF NewKeysInv, UnfoldedRowHasDetail

LEMMA DrawerRests ==
    ASSUME TraceInv, UNCHANGED drawerVars, LookingUp("drawer")' = LookingUp("drawer"),
           \A c \in LookingUp("drawer") : lookup'[c] = lookup[c]
    PROVE  DrawerInv' /\ DrawerShowsItsTrace'
BY DEF TraceInv, drawerVars, DrawerInv, DrawerShowsItsTrace

LEMMA TracesGoOn == TraceInv /\ [TraceNext]_traceVars => TraceInv'
<1> SUFFICES ASSUME TraceInv, [TraceNext]_traceVars PROVE TraceInv'
  OBVIOUS
<1>0. /\ TraceTypeOK /\ RowInv /\ NewKeysInv /\ DrawerInv
      /\ UnfoldedRowHasDetail /\ DrawerShowsItsTrace
  BY DEF TraceInv
<1>a. /\ LookingUp("row") \subseteq Lookup /\ LookingUp("drawer") \subseteq Lookup
      /\ \A c \in Lookup : c \in LookingUp("row") <=> lookup[c].by = "row"
      /\ \A c \in Lookup : c \in LookingUp("drawer") <=> lookup[c].by = "drawer"
  BY DEF LookingUp
<1>1. ASSUME NEW t \in Trace, ExpandRow(t) PROVE TraceInv'
  <2> DEFINE newKeys == expandedTraceKeys \union {t}
  <2>1. /\ wanted' = wanted \union {t}
        /\ crossedRows' = (crossedRows \/ LookingUp("row") # {})
        /\ UNCHANGED <<traceDetailCache, drawerVars>>
        /\ newKeys \in SUBSET Trace
    BY <1>0, <1>1 DEF ExpandRow, TraceTypeOK
  <2>2. CASE t \in traceDetailCache
    <3>1. expandedTraceKeys' = newKeys /\ lookup' = lookup
      BY <1>1, <2>2 DEF ExpandRow
    <3>2. LookingUp("row")' = LookingUp("row") /\ LookingUp("drawer")' = LookingUp("drawer")
      BY <3>1 DEF LookingUp
    <3>3. TraceTypeOK'
      BY <1>0, <2>1, <3>1 DEF TraceTypeOK, drawerVars
    <3>4. RowInv'
      BY <1>0, <2>1, <3>1, <3>2 DEF RowInv
    <3>5. NewKeysInv' /\ UnfoldedRowHasDetail'
      BY <1>0, <2>1, <2>2, <3>1, <3>2 DEF NewKeysInv, UnfoldedRowHasDetail
    <3> QED BY <2>1, <3>1, <3>2, <3>3, <3>4, <3>5, DrawerRests DEF TraceInv
  <2>3. CASE t \notin traceDetailCache
    <3>1. StartLookup("row", t, newKeys) /\ expandedTraceKeys' = expandedTraceKeys
      BY <1>1, <2>3 DEF ExpandRow
    <3>2. PICK c \in Lookup :
             /\ lookup[c].by = "none"
             /\ lookup' \in [Lookup -> [by : {"none", "row", "drawer"},
                                        trace : Trace \union {NoTrace},
                                        newKeys : SUBSET Trace]]
             /\ lookup'[c] = [by |-> "row", trace |-> t, newKeys |-> newKeys]
             /\ \A d \in Lookup \ {c} : lookup'[d] = lookup[d]
             /\ LookingUp("row")' = LookingUp("row") \union {c}
             /\ \A other \in {"row", "drawer"} \ {"row"} : LookingUp(other)' = LookingUp(other)
      BY <1>0, <2>1, <3>1, LookupBegins
    <3>3. LookingUp("drawer")' = LookingUp("drawer")
      BY <3>2
    <3>4. TraceTypeOK'
      BY <1>0, <2>1, <3>1, <3>2 DEF TraceTypeOK, drawerVars
    <3>5. RowInv'
      <4>1. CASE crossedRows \/ LookingUp("row") # {}
        BY <2>1, <4>1 DEF RowInv
      <4>2. CASE ~crossedRows /\ LookingUp("row") = {}
        <5>1. LookingUp("row")' = {c} /\ lookup'[c].newKeys = wanted'
          BY <1>0, <2>1, <3>2, <4>2 DEF RowInv
        <5> QED BY <5>1 DEF RowInv
      <4> QED BY <4>1, <4>2
    <3>6. NewKeysInv' /\ UnfoldedRowHasDetail'
      BY <1>0, <1>a, <2>1, <3>1, <3>2 DEF NewKeysInv, UnfoldedRowHasDetail
    <3>7. \A d \in LookingUp("drawer") : lookup'[d] = lookup[d]
      BY <1>a, <3>2
    <3> QED BY <2>1, <3>3, <3>4, <3>5, <3>6, <3>7, DrawerRests DEF TraceInv
  <2> QED BY <2>2, <2>3
<1>2. ASSUME NEW t \in Trace, CollapseRow(t) PROVE TraceInv'
  <2>1. /\ expandedTraceKeys' = expandedTraceKeys \ {t} /\ wanted' = wanted \ {t}
        /\ crossedRows' = (crossedRows \/ LookingUp("row") # {})
        /\ UNCHANGED <<traceDetailCache, lookup, drawerVars>>
    BY <1>2 DEF CollapseRow
  <2>2. LookingUp("row")' = LookingUp("row") /\ LookingUp("drawer")' = LookingUp("drawer")
    BY <2>1 DEF LookingUp
  <2>3. TraceTypeOK'
    BY <1>0, <2>1 DEF TraceTypeOK, drawerVars
  <2>4. RowInv'
    BY <1>0, <2>1, <2>2 DEF RowInv
  <2>5. NewKeysInv' /\ UnfoldedRowHasDetail'
    BY <1>0, <2>1, <2>2 DEF NewKeysInv, UnfoldedRowHasDetail
  <2> QED BY <2>1, <2>2, <2>3, <2>4, <2>5, DrawerRests DEF TraceInv
<1>3. ASSUME NEW c \in Lookup, RowDetailArrives(c) PROVE TraceInv'
  <2>1. /\ lookup[c].by = "row" /\ lookup' = [lookup EXCEPT ![c] = NoLookup]
        /\ traceDetailCache' = traceDetailCache \union {lookup[c].trace}
        /\ expandedTraceKeys' = lookup[c].newKeys
        /\ UNCHANGED <<wanted, crossedRows, drawerVars>>
    BY <1>3 DEF RowDetailArrives
  <2>2. /\ lookup' \in [Lookup -> [by : {"none", "row", "drawer"},
                                   trace : Trace \union {NoTrace},
                                   newKeys : SUBSET Trace]]
        /\ \A d \in Lookup \ {c} : lookup'[d] = lookup[d]
        /\ LookingUp("row")' = LookingUp("row") \ {c} /\ c \in LookingUp("row")
        /\ LookingUp("drawer")' = LookingUp("drawer") /\ c \notin LookingUp("drawer")
        /\ lookup[c].newKeys \subseteq Trace
    BY <1>0, <2>1, LookupEnds
  <2>3. lookup[c].trace \in Trace
    BY <1>0, <2>2 DEF NewKeysInv
  <2>4. TraceTypeOK'
    BY <1>0, <2>1, <2>2, <2>3 DEF TraceTypeOK, drawerVars
  <2>5. RowInv'
    BY <1>0, <2>1, <2>2 DEF RowInv
  <2>6. NewKeysInv' /\ UnfoldedRowHasDetail'
    BY <1>0, <1>a, <2>1, <2>2 DEF NewKeysInv, UnfoldedRowHasDetail
  <2>7. \A d \in LookingUp("drawer") : lookup'[d] = lookup[d]
    BY <1>a, <2>2
  <2> QED BY <2>1, <2>2, <2>4, <2>5, <2>6, <2>7, DrawerRests DEF TraceInv
<1>4. ASSUME NEW t \in Trace, OpenTraceDrawer(t) PROVE TraceInv'
  <2>1. /\ StartLookup("drawer", t, {})
        /\ traceDrawerOpen' = TRUE /\ traceDetailLoading' = TRUE
        /\ detailTraceId' = t /\ traceDetail' = NoTrace
        /\ crossedDrawer' = (LookingUp("drawer") # {}) /\ UNCHANGED rowVars
    BY <1>4 DEF OpenTraceDrawer
  <2>2. PICK c \in Lookup :
           /\ lookup[c].by = "none"
           /\ lookup' \in [Lookup -> [by : {"none", "row", "drawer"},
                                      trace : Trace \union {NoTrace},
                                      newKeys : SUBSET Trace]]
           /\ lookup'[c] = [by |-> "drawer", trace |-> t, newKeys |-> {}]
           /\ \A d \in Lookup \ {c} : lookup'[d] = lookup[d]
           /\ LookingUp("drawer")' = LookingUp("drawer") \union {c}
           /\ \A other \in {"row", "drawer"} \ {"drawer"} :
                 LookingUp(other)' = LookingUp(other)
    BY <1>0, <2>1, LookupBegins
  <2>3. LookingUp("row")' = LookingUp("row")
        /\ \A d \in LookingUp("row") : lookup'[d] = lookup[d]
    BY <1>a, <2>2
  <2>4. TraceTypeOK'
    <3>1. /\ expandedTraceKeys' = expandedTraceKeys /\ traceDetailCache' = traceDetailCache
          /\ wanted' = wanted /\ crossedRows' = crossedRows
      BY <2>1 DEF rowVars
    <3>2. {crossedRows', crossedDrawer', traceDrawerOpen', traceDetailLoading'} \subseteq BOOLEAN
      BY <1>0, <2>1, <3>1 DEF TraceTypeOK
    <3> QED BY <1>0, <2>1, <2>2, <3>1, <3>2 DEF TraceTypeOK
  <2>5. ~crossedDrawer' => LookingUp("drawer")' = {c} /\ lookup'[c].trace = detailTraceId'
    <3>1. ~crossedDrawer' => LookingUp("drawer") = {}
      BY <2>1
    <3>2. lookup'[c].trace = detailTraceId'
      BY <2>1, <2>2
    <3> QED BY <2>2, <3>1, <3>2
  <2>6. DrawerInv' /\ DrawerShowsItsTrace'
    BY <2>1, <2>5 DEF DrawerInv, DrawerShowsItsTrace
  <2> QED BY <2>1, <2>3, <2>4, <2>6, RowsRest DEF TraceInv
<1>5. ASSUME NEW c \in Lookup, DrawerDetailArrives(c) PROVE TraceInv'
  <2>1. /\ lookup[c].by = "drawer" /\ lookup' = [lookup EXCEPT ![c] = NoLookup]
        /\ traceDetail' \in {lookup[c].trace, NoTrace, traceDetail}
        /\ traceDetailLoading' = FALSE
        /\ UNCHANGED <<rowVars, traceDrawerOpen, detailTraceId, crossedDrawer>>
    BY <1>5 DEF DrawerDetailArrives
  <2>2. /\ lookup' \in [Lookup -> [by : {"none", "row", "drawer"},
                                   trace : Trace \union {NoTrace},
                                   newKeys : SUBSET Trace]]
        /\ \A d \in Lookup \ {c} : lookup'[d] = lookup[d]
        /\ LookingUp("drawer")' = LookingUp("drawer") \ {c} /\ c \in LookingUp("drawer")
        /\ LookingUp("row")' = LookingUp("row") /\ c \notin LookingUp("row")
        /\ lookup[c].trace \in Trace \union {NoTrace}
    BY <1>0, <2>1, LookupEnds
  <2>3. TraceTypeOK'
    <3>1. /\ expandedTraceKeys' = expandedTraceKeys /\ traceDetailCache' = traceDetailCache
          /\ wanted' = wanted /\ crossedRows' = crossedRows
          /\ traceDrawerOpen' = traceDrawerOpen /\ detailTraceId' = detailTraceId
          /\ crossedDrawer' = crossedDrawer
      BY <2>1 DEF rowVars
    <3>2. {crossedRows', crossedDrawer', traceDrawerOpen', traceDetailLoading'} \subseteq BOOLEAN
      BY <1>0, <2>1, <3>1 DEF TraceTypeOK
    <3>3. traceDetail' \in Trace \union {NoTrace}
      BY <1>0, <2>1, <2>2 DEF TraceTypeOK
    <3> QED BY <1>0, <2>2, <3>1, <3>2, <3>3 DEF TraceTypeOK
  <2>4. DrawerInv' /\ DrawerShowsItsTrace'
    BY <1>0, <1>a, <2>1, <2>2 DEF DrawerInv, DrawerShowsItsTrace
  <2>5. \A d \in LookingUp("row") : lookup'[d] = lookup[d]
    BY <1>a, <2>2
  <2> QED BY <2>1, <2>2, <2>3, <2>4, <2>5, RowsRest DEF TraceInv
<1>6. CASE CloseTraceDrawer \/ UNCHANGED traceVars
  <2>1. /\ UNCHANGED <<rowVars, lookup, detailTraceId, traceDetail, traceDetailLoading,
                       crossedDrawer>>
        /\ traceDrawerOpen' \in BOOLEAN
    BY <1>0, <1>6 DEF CloseTraceDrawer, traceVars, drawerVars, TraceTypeOK
  <2>2. LookingUp("row")' = LookingUp("row") /\ LookingUp("drawer")' = LookingUp("drawer")
    BY <2>1 DEF LookingUp
  <2>3. TraceTypeOK'
    BY <1>0, <2>1 DEF TraceTypeOK, rowVars
  <2>4. DrawerInv' /\ DrawerShowsItsTrace'
    BY <1>0, <2>1, <2>2 DEF DrawerInv, DrawerShowsItsTrace
  <2> QED BY <2>1, <2>2, <2>3, <2>4, RowsRest DEF TraceInv
<1> QED BY <1>1, <1>2, <1>3, <1>4, <1>5, <1>6 DEF TraceNext

\* The rows that are unfolded are those the user wants, each with its detail,
\* and the drawer shows the trace it was opened for, unless the user clicked
\* during a fetch.
LEMMA DetailsStayWanted == TraceSpec => []DetailsAreWanted
<1>1. TraceInv => DetailsAreWanted
  BY DEF TraceInv, RowInv, RowsAreWanted, DetailsAreWanted
<1> QED BY <1>1, TracesStart, TracesGoOn, PTL DEF TraceSpec

-----------------------------------------------------------------------------
(* The tables (PageQueries)                                                *)

PageFetch == [query : Query, overtaken : BOOLEAN]

\* While the tab is shown and a fetch is under way that no answer overtook, the
\* last fetch is such a one and asks what the controls ask.
LastInv ==
    shown /\ (\E k \in DOMAIN fetches : ~fetches[k].overtaken) =>
        /\ fetches[Len(fetches)].query = query
        /\ ~fetches[Len(fetches)].overtaken

QueryInv == QueryTypeOK /\ LastInv /\ RowsAnswerTheQuery

LEMMA FetchesBegun ==
    ASSUME NEW q \in Query, NEW n \in Nat
    PROVE  /\ Begun(q, n) \in Seq(PageFetch) /\ Len(Begun(q, n)) = n
           /\ \A k \in 1 .. n : Begun(q, n)[k] = [query |-> q, overtaken |-> FALSE]
BY DEF Begun, PageFetch

\* New fetches come last.
LEMMA FetchAppends ==
    ASSUME QueryTypeOK, NEW q \in Query, NEW n \in 1 .. 2, Fetch(q, n)
    PROVE  /\ fetches' \in Seq(PageFetch) /\ Len(fetches') =< MaxFetches /\ busy' = TRUE
           /\ Len(fetches') \in DOMAIN fetches'
           /\ fetches'[Len(fetches')] = [query |-> q, overtaken |-> FALSE]
<1> DEFINE new == Begun(q, n)
<1>1. /\ new \in Seq(PageFetch) /\ Len(new) = n
      /\ \A k \in 1 .. n : new[k] = [query |-> q, overtaken |-> FALSE]
  BY FetchesBegun
<1>2. /\ Len(fetches) + n =< MaxFetches /\ fetches' = fetches \o new /\ busy' = TRUE
      /\ fetches \in Seq(PageFetch)
  BY DEF Fetch, QueryTypeOK, PageFetch
<1> HIDE DEF new
<1>3. /\ fetches' \in Seq(PageFetch) /\ Len(fetches') = Len(fetches) + n
      /\ Len(fetches) \in Nat
  BY <1>1, <1>2
<1>4. fetches'[Len(fetches) + n] = new[n]
  BY <1>1, <1>2, <1>3
<1>5. Len(fetches') \in 1 .. Len(fetches') /\ DOMAIN fetches' = 1 .. Len(fetches')
  BY <1>3
<1>6. n \in 1 .. n
  OBVIOUS
<1> QED BY <1>1, <1>2, <1>3, <1>4, <1>5, <1>6

\* An answered fetch is taken out; those before it are overtaken.
LEMMA FetchIsTaken ==
    ASSUME QueryTypeOK, NEW i \in DOMAIN fetches, Taken(i)
    PROVE  /\ fetches' \in Seq(PageFetch) /\ Len(fetches') = Len(fetches) - 1
           /\ i \in 1 .. Len(fetches) /\ Len(fetches) \in Nat
           /\ \A k \in 1 .. (i - 1) :
                 fetches'[k] = [fetches[k] EXCEPT !.overtaken = TRUE]
           /\ \A k \in i .. (Len(fetches) - 1) : fetches'[k] = fetches[k + 1]
<1> DEFINE marked == [k \in DOMAIN fetches |->
                        IF k < i THEN [fetches[k] EXCEPT !.overtaken = TRUE]
                        ELSE fetches[k]]
           n == Len(fetches)
<1>1. fetches \in Seq(PageFetch) /\ n \in Nat /\ DOMAIN fetches = 1 .. n /\ i \in 1 .. n
  BY DEF QueryTypeOK, PageFetch
<1>2. \A k \in 1 .. n : fetches[k] \in PageFetch
                        /\ [fetches[k] EXCEPT !.overtaken = TRUE] \in PageFetch
  <2> SUFFICES ASSUME NEW k \in 1 .. n
               PROVE  /\ fetches[k] \in PageFetch
                      /\ [fetches[k] EXCEPT !.overtaken = TRUE] \in PageFetch
    OBVIOUS
  <2>1. fetches[k] \in PageFetch
    BY <1>1
  <2> QED BY <2>1 DEF PageFetch
<1>3. marked \in Seq(PageFetch) /\ Len(marked) = n
  BY <1>1, <1>2
<1>4. \A k \in 1 .. n : marked[k] = IF k < i THEN [fetches[k] EXCEPT !.overtaken = TRUE]
                                    ELSE fetches[k]
  BY <1>1
<1> DEFINE left == SubSeq(marked, 1, i - 1)
           right == SubSeq(marked, i + 1, n)
<1>5. fetches' = left \o right
  BY <1>3 DEF Taken, RemoveAt
<1> HIDE DEF marked, n
<1>6. /\ left \in Seq(PageFetch) /\ Len(left) = i - 1
      /\ \A k \in 1 .. (i - 1) : left[k] = marked[k]
  BY <1>1, <1>3
<1>7. /\ right \in Seq(PageFetch) /\ Len(right) = n - i
      /\ \A k \in 1 .. (n - i) : right[k] = marked[k + i]
  BY <1>1, <1>3
<1> HIDE DEF left, right
<1>8. fetches' \in Seq(PageFetch) /\ Len(fetches') = n - 1
  <2>1. left \o right \in Seq(PageFetch) /\ Len(left \o right) = Len(left) + Len(right)
    BY <1>6, <1>7
  <2> QED BY <1>1, <1>5, <1>6, <1>7, <2>1
<1>9. \A k \in 1 .. (i - 1) : fetches'[k] = left[k]
  BY <1>1, <1>5, <1>6, <1>7
<1>10. \A k \in i .. (n - 1) : fetches'[k] = right[k - (i - 1)]
  <2> SUFFICES ASSUME NEW k \in i .. (n - 1) PROVE fetches'[k] = right[k - (i - 1)]
    OBVIOUS
  <2>1. k \in 1 .. (Len(left) + Len(right)) /\ k > Len(left) /\ Len(left) = i - 1
    BY <1>1, <1>6, <1>7
  <2> QED BY <1>5, <1>6, <1>7, <2>1
<1>11. \A k \in i .. (n - 1) : fetches'[k] = fetches[k + 1]
  <2> SUFFICES ASSUME NEW k \in i .. (n - 1) PROVE fetches'[k] = fetches[k + 1]
    OBVIOUS
  <2>1. k - (i - 1) \in 1 .. (n - i) /\ (k - (i - 1)) + i = k + 1 /\ k + 1 \in 1 .. n
        /\ ~(k + 1 < i)
    BY <1>1
  <2> QED BY <1>4, <1>7, <1>10, <2>1
<1>12. \A k \in 1 .. (i - 1) : k \in 1 .. n /\ k < i
  BY <1>1
<1> QED BY <1>1, <1>4, <1>6, <1>8, <1>9, <1>11, <1>12 DEF n

\* A change of the controls, or of the tab, with its fetch.
LEMMA FetchKeeps ==
    ASSUME QueryInv, NEW n \in 1 .. 2, query' \in Query, Fetch(query', n),
           shown' \in BOOLEAN, deletes' \in BOOLEAN, UNCHANGED <<queryView, rows, trouble>>
    PROVE  QueryInv'
<1>1. /\ fetches' \in Seq(PageFetch) /\ Len(fetches') =< MaxFetches /\ busy' = TRUE
      /\ Len(fetches') \in DOMAIN fetches'
      /\ fetches'[Len(fetches')] = [query |-> query', overtaken |-> FALSE]
  BY FetchAppends DEF QueryInv
<1>2. QueryTypeOK'
  BY <1>1 DEF QueryInv, QueryTypeOK, PageFetch
<1>3. /\ fetches'[Len(fetches')].query = query'
      /\ ~fetches'[Len(fetches')].overtaken
  BY <1>1
<1>4. LastInv' /\ RowsAnswerTheQuery'
  BY <1>1, <1>3 DEF LastInv, RowsAnswerTheQuery
<1> QED BY <1>2, <1>4 DEF QueryInv

LEMMA QueriesStart == QueryInit => QueryInv
<1> SUFFICES ASSUME QueryInit PROVE QueryInv
  OBVIOUS
<1> USE PageQueriesAssumption
<1>1. query \in Query /\ rows = Empty /\ busy = shown /\ shown \in BOOLEAN
      /\ deletes = FALSE /\ trouble = FALSE /\ queryView \in MonitorTab \union Listing
  BY DEF QueryInit
<1>2. /\ fetches \in Seq(PageFetch)
      /\ shown => Len(fetches) = 1 /\ fetches[1] = [query |-> query, overtaken |-> FALSE]
      /\ ~shown => Len(fetches) = 0
  <2>1. CASE shown
    <3>1. fetches = Begun(query, 1)
      BY <2>1 DEF QueryInit
    <3>2. 1 \in 1 .. 1 /\ 1 \in Nat
      OBVIOUS
    <3> QED BY <1>1, <2>1, <3>1, <3>2, FetchesBegun
  <2>2. CASE ~shown
    BY <2>2 DEF QueryInit
  <2> QED BY <2>1, <2>2
<1>3. Len(fetches) =< MaxFetches
  <2>1. Len(fetches) \in {0, 1}
    BY <1>1, <1>2
  <2> QED BY <2>1
<1>4. QueryTypeOK
  BY <1>1, <1>2, <1>3 DEF QueryTypeOK, PageFetch
<1>5. LastInv
  <2>1. CASE shown
    <3>1. Len(fetches) = 1 /\ fetches[1] = [query |-> query, overtaken |-> FALSE]
      BY <1>2, <2>1
    <3> QED BY <3>1 DEF LastInv
  <2>2. CASE ~shown
    BY <2>2 DEF LastInv
  <2> QED BY <2>1, <2>2
<1>6. RowsAnswerTheQuery
  BY <1>2 DEF RowsAnswerTheQuery
<1> QED BY <1>4, <1>5, <1>6 DEF QueryInv

\* An answer, or an error, takes its fetch out.
LEMMA TakingOutKeeps ==
    ASSUME QueryInv, NEW i \in DOMAIN fetches, Taken(i), busy' = FALSE,
           \/ rows' = fetches[i].query /\ trouble' = fetches[i].overtaken
           \/ rows' = rows /\ trouble' = TRUE,
           UNCHANGED <<queryView, shown, query, deletes>>
    PROVE  QueryInv'
<1> DEFINE n == Len(fetches)
<1>1. /\ fetches' \in Seq(PageFetch) /\ Len(fetches') = n - 1
      /\ i \in 1 .. n /\ n \in Nat
      /\ \A k \in 1 .. (i - 1) : fetches'[k] = [fetches[k] EXCEPT !.overtaken = TRUE]
      /\ \A k \in i .. (n - 1) : fetches'[k] = fetches[k + 1]
  BY FetchIsTaken DEF QueryInv
<1>2. \A k \in 1 .. n : fetches[k] \in PageFetch
  <2>1. fetches \in Seq(PageFetch)
    BY DEF QueryInv, QueryTypeOK, PageFetch
  <2> QED BY <1>1, <2>1
<1>3. QueryTypeOK'
  <2>1. Len(fetches') =< MaxFetches
    <3>1. n =< MaxFetches
      BY DEF QueryInv, QueryTypeOK
    <3> QED BY <1>1, <3>1, PageQueriesAssumption
  <2>2. fetches[i].query \in Query /\ fetches[i].overtaken \in BOOLEAN
    BY <1>1, <1>2 DEF PageFetch
  <2> QED BY <1>1, <2>1, <2>2 DEF QueryInv, QueryTypeOK, PageFetch
<1>4. DOMAIN fetches' = 1 .. (n - 1) /\ DOMAIN fetches = 1 .. n
  <2>1. fetches \in Seq(PageFetch)
    BY DEF QueryInv, QueryTypeOK, PageFetch
  <2> QED BY <1>1, <2>1
<1>5. \A k \in 1 .. (i - 1) : fetches'[k].overtaken
  <2> SUFFICES ASSUME NEW k \in 1 .. (i - 1) PROVE fetches'[k].overtaken
    OBVIOUS
  <2>1. fetches[k] \in PageFetch /\ fetches'[k] = [fetches[k] EXCEPT !.overtaken = TRUE]
    BY <1>1, <1>2
  <2> QED BY <2>1 DEF PageFetch
<1>6. i < n => /\ n - 1 \in 1 .. (n - 1)
               /\ fetches'[Len(fetches')] = fetches[n]
  <2> SUFFICES ASSUME i < n
               PROVE  n - 1 \in 1 .. (n - 1) /\ fetches'[Len(fetches')] = fetches[n]
    OBVIOUS
  <2>1. n - 1 \in i .. (n - 1) /\ (n - 1) + 1 = n /\ n - 1 \in 1 .. (n - 1)
    BY <1>1
  <2> QED BY <1>1, <2>1
\* A fetch that nothing overtook is left only if the last one is.
<1>7. ASSUME shown, NEW k \in 1 .. n, ~fetches[k].overtaken
      PROVE  fetches[n].query = query /\ ~fetches[n].overtaken
  BY <1>4, <1>7 DEF QueryInv, LastInv
<1>8. LastInv'
  <2> SUFFICES ASSUME shown, NEW k \in 1 .. (n - 1), ~fetches'[k].overtaken
               PROVE  /\ fetches'[Len(fetches')].query = query
                      /\ ~fetches'[Len(fetches')].overtaken
    BY <1>4 DEF LastInv
  <2>1. k \in i .. (n - 1) /\ k + 1 \in 1 .. n /\ i < n
    BY <1>1, <1>5
  <2>2. ~fetches[k + 1].overtaken
    BY <1>1, <2>1
  <2> QED BY <1>6, <1>7, <2>1, <2>2
<1>9. RowsAnswerTheQuery'
  <2> SUFFICES ASSUME shown, rows' # query, ~trouble'
               PROVE  \E k \in DOMAIN fetches' : fetches'[k].query = query
    BY DEF RowsAnswerTheQuery
  <2>1. rows' = fetches[i].query /\ ~fetches[i].overtaken
    OBVIOUS
  <2>2. fetches[n].query = query
    BY <1>1, <1>7, <2>1
  <2>3. i < n
    BY <1>1, <2>1, <2>2
  <2> QED BY <1>1, <1>4, <1>6, <2>2, <2>3
<1> QED BY <1>3, <1>8, <1>9 DEF QueryInv

LEMMA QueriesGoOn == QueryInv /\ [QueryNext]_queryVars => QueryInv'
<1> SUFFICES ASSUME QueryInv, [QueryNext]_queryVars PROVE QueryInv'
  OBVIOUS
<1>0. /\ query \in Query /\ shown \in BOOLEAN /\ deletes \in BOOLEAN
      /\ Effects \in 1 .. 2 /\ 1 \in 1 .. 2
  BY DEF QueryInv, QueryTypeOK, Effects
<1>1. ASSUME UNCHANGED <<queryView, shown, query, rows, busy, fetches, trouble>>,
             deletes' \in BOOLEAN
      PROVE  QueryInv'
  BY <1>1 DEF QueryInv, QueryTypeOK, LastInv, RowsAnswerTheQuery
<1>2. CASE TenantKnown
  <2>1. /\ query' = [query EXCEPT !.tenantKnown = TRUE] /\ query' \in Query
        /\ UNCHANGED <<queryView, shown, rows, deletes, trouble>>
        /\ IF shown' THEN Fetch(query', Effects) ELSE UNCHANGED <<fetches, busy>>
    BY <1>0, <1>2 DEF TenantKnown, Effect, Query
  <2>2. CASE shown
    BY <1>0, <2>1, <2>2, FetchKeeps
  <2>3. CASE ~shown
    BY <2>1, <2>3 DEF QueryInv, QueryTypeOK, LastInv, RowsAnswerTheQuery
  <2> QED BY <2>2, <2>3
<1>3. CASE LeaveTab
  <2>1. /\ shown' = FALSE /\ UNCHANGED <<queryView, query, deletes>>
        /\ \/ rows' = Empty /\ busy' = FALSE /\ fetches' = <<>> /\ trouble' = FALSE
           \/ UNCHANGED <<rows, busy, fetches, trouble>>
    BY <1>3 DEF LeaveTab
  <2>2. fetches' \in Seq(PageFetch) /\ Len(fetches') =< MaxFetches
    <3>1. CASE fetches' = <<>>
      BY <3>1, PageQueriesAssumption
    <3>2. CASE fetches' = fetches
      BY <3>2 DEF QueryInv, QueryTypeOK, PageFetch
    <3> QED BY <2>1, <3>1, <3>2
  <2>3. QueryTypeOK'
    <3>1. rows' \in Query \union {Empty} /\ {shown', busy', deletes', trouble'} \subseteq BOOLEAN
      BY <2>1 DEF QueryInv, QueryTypeOK
    <3> QED BY <2>1, <2>2, <3>1 DEF QueryInv, QueryTypeOK, PageFetch
  <2> QED BY <2>1, <2>3 DEF QueryInv, LastInv, RowsAnswerTheQuery
<1>4. CASE EnterTab
  <2>1. /\ shown' = TRUE /\ Fetch(query', Effects)
        /\ UNCHANGED <<queryView, query, rows, deletes, trouble>>
    BY <1>4 DEF EnterTab
  <2> QED BY <1>0, <2>1, FetchKeeps
<1>5. ASSUME NEW f \in Filter, SetFilter(f) PROVE QueryInv'
  <2>1. /\ query' = [query EXCEPT !.filter = f, !.page = 0] /\ query' \in Query
        /\ Fetch(query', Effects) /\ UNCHANGED <<queryView, shown, rows, deletes, trouble>>
    BY <1>0, <1>5 DEF SetFilter, Query
  <2> QED BY <1>0, <2>1, FetchKeeps
<1>6. ASSUME NEW p \in {0, 1}, SetPage(p) PROVE QueryInv'
  <2>1. /\ query' = [query EXCEPT !.page = p] /\ query' \in Query
        /\ Fetch(query', Effects) /\ UNCHANGED <<queryView, shown, rows, deletes, trouble>>
    BY <1>0, <1>6 DEF SetPage, Query
  <2> QED BY <1>0, <2>1, FetchKeeps
<1>7. CASE ReloadTable
  <2>1. Fetch(query', 1) /\ UNCHANGED <<queryView, shown, query, rows, deletes, trouble>>
    BY <1>7 DEF ReloadTable
  <2> QED BY <1>0, <2>1, FetchKeeps
<1>8. CASE EntryDeleted
  <2>1. /\ deletes' = FALSE /\ UNCHANGED <<queryView, shown, query, rows, trouble>>
        /\ Fetch(query', 1) \/ UNCHANGED <<fetches, busy>>
    BY <1>8 DEF EntryDeleted
  <2>2. CASE Fetch(query', 1)
    BY <1>0, <2>1, <2>2, FetchKeeps
  <2>3. CASE UNCHANGED <<fetches, busy>>
    BY <1>1, <2>1, <2>3
  <2> QED BY <2>1, <2>2, <2>3
<1>9. CASE DeleteEntry
  BY <1>1, <1>9 DEF DeleteEntry
<1>10. CASE FetchEnds
  <2>1. PICK i \in DOMAIN fetches : FetchArrives(i) \/ FetchFails(i)
    BY <1>10 DEF FetchEnds
  <2> QED BY <2>1, TakingOutKeeps DEF FetchArrives, FetchFails
<1>11. CASE UNCHANGED queryVars
  BY <1>0, <1>1, <1>11 DEF queryVars
<1>12. ASSUME QueryNext PROVE QueryInv'
  <2>1. CASE QueryAnswered
    BY <1>10, <2>1
       DEF QueryAnswered, TracesAnswered, FeedbackAnswered, BadcasesAnswered,
           OperationsAnswered, MetricsAnswered, KanbanAnswered, DatasetsAnswered,
           SpacesAnswered
  <2>2. CASE \E f \in Filter :
                \/ SetPeriod(f) \/ SetTraceFilter(f) \/ SetFeedbackFilter(f)
                \/ SetBadcaseFilter(f) \/ SetKanbanFilter(f) \/ SetOpsFilter(f)
    BY <1>5, <2>2
       DEF SetPeriod, SetTraceFilter, SetFeedbackFilter, SetBadcaseFilter,
           SetKanbanFilter, SetOpsFilter
  <2>3. CASE \E p \in {0, 1} :
                \/ SetTracePage(p) \/ SetFeedbackPage(p)
                \/ SetBadcasePage(p) \/ SetOpsPage(p)
    BY <1>6, <2>3 DEF SetTracePage, SetFeedbackPage, SetBadcasePage, SetOpsPage
  <2> QED
    BY <1>2, <1>3, <1>4, <1>7, <1>8, <1>9, <1>12, <2>1, <2>2, <2>3
       DEF QueryNext, DeleteDataset, DeleteSpace
<1> QED BY <1>11, <1>12

\* The rows answer the filter, the page and the tenant that are shown, unless
\* that fetch is under way or the last answer was an error or overtaken.
LEMMA RowsStayTrue == QuerySpec => []RowsAnswerTheQuery
<1>1. QueryInv => RowsAnswerTheQuery
  BY DEF QueryInv
<1> QED BY <1>1, QueriesStart, QueriesGoOn, PTL DEF QuerySpec

-----------------------------------------------------------------------------
(* The evaluation pages (Evaluation)                                       *)

GenerateView == [phase : {"ready", "generating", "done", "error", "lost"},
                 hasStarted : BOOLEAN, of : Generation \union {NoGeneration}]

Moved(g) == generation[g] \notin {"idle", "requested"}

\* A page that has heard the end of a generation listens to one that is done.
ToldInv ==
    \A p \in GeneratePage :
        /\ generatePage[p].phase \in {"generating", "done"} =>
              generatePage[p].of \in Generation
        /\ generatePage[p].phase = "done" => generation[generatePage[p].of] = "done"

\* A generation that ended left COMPLETED behind; only another one changed it.
EndedInv ==
    \A g \in Generation :
        generation[g] \in {"telling", "done"} /\ datasetStatus # "COMPLETED" =>
            \E h \in Generation \ {g} : Moved(h)

GenerationInv == EvaluationTypeOK /\ GeneratingHasPipeline /\ ToldInv /\ EndedInv

\* As long as no two were followed at once, at most one run is.
FollowedInv ==
    ~runsOverlapped =>
        /\ \A r, s \in OpenRuns : r = s
        /\ (\A r \in Run : runFeed[r] # "lost") => (evalRunning <=> OpenRuns # {})

EvaluationInv == GenerationInv /\ FollowedInv

LEMMA EvaluationStarts == EvaluationInit => EvaluationInv
<1> SUFFICES ASSUME EvaluationInit PROVE EvaluationInv
  OBVIOUS
<1>1. EvaluationTypeOK
  <2>1. datasetFetch \in [DatasetFetch -> DatasetStatus \union {"none", "sent"}]
    BY DEF EvaluationInit
  <2>2. /\ datasetStatus = "DRAFT" /\ drawnStatus = "none"
        /\ generation = [g \in Generation |-> "idle"]
        /\ run = [r \in Run |-> "none"] /\ runFeed = [r \in Run |-> "none"]
        /\ evalRunning = FALSE /\ activeRunId = NoRun
        /\ abandoned = FALSE /\ runsOverlapped = FALSE
    BY DEF EvaluationInit, EvaluationIdle
  <2>3. generatePage \in [GeneratePage -> GenerateView]
    BY DEF EvaluationInit, EvaluationIdle, GenerateView
  <2> QED BY <2>1, <2>2, <2>3 DEF EvaluationTypeOK, DatasetStatus, GenerateView
<1>2. GeneratingHasPipeline /\ ToldInv /\ EndedInv
  BY DEF EvaluationInit, EvaluationIdle, GeneratingHasPipeline, ToldInv, EndedInv
<1>3. OpenRuns = {} /\ evalRunning = FALSE
  BY DEF EvaluationInit, EvaluationIdle, OpenRuns
<1>4. FollowedInv
  BY <1>3 DEF FollowedInv
<1> QED BY <1>1, <1>2, <1>4 DEF EvaluationInv, GenerationInv

\* One stage of one generation.
LEMMA StageKeeps ==
    ASSUME GenerationInv, NEW g \in Generation,
           NEW to \in {"discovering", "parsing", "finishing", "telling", "done", "error"},
           generation[g] \in Alive, PipelineLeaves(g, generation[g], to),
           datasetStatus' \in DatasetStatus, abandoned' \in BOOLEAN,
           datasetStatus' = "GENERATING" /\ ~abandoned' =>
              \/ to \in StagesAtWork
              \/ /\ datasetStatus = "GENERATING" /\ ~abandoned
                 /\ generation[g] \notin StagesAtWork,
           to = "telling" => datasetStatus' = "COMPLETED",
           to = "done" => generation[g] = "telling" /\ datasetStatus' = datasetStatus
    PROVE  GenerationInv'
<1> USE DEF Alive, StagesAtWork
<1>1. /\ generation'[g] = to /\ generation[g] \in Alive
      /\ \A h \in Generation \ {g} : generation'[h] = generation[h]
      /\ UNCHANGED <<generatePage, drawnStatus, datasetFetch, run, runFeed,
                     evalRunning, activeRunId, runsOverlapped>>
  BY DEF PipelineLeaves, GenerationInv, EvaluationTypeOK, detailVars, runVars
<1>2. EvaluationTypeOK'
  <2>1. generation' \in [Generation -> {"idle", "done", "error"} \union Alive]
    BY <1>1 DEF PipelineLeaves, GenerationInv, EvaluationTypeOK
  <2>2. {evalRunning', abandoned', runsOverlapped'} \subseteq BOOLEAN
    BY <1>1 DEF GenerationInv, EvaluationTypeOK
  <2> HIDE DEF Alive, StagesAtWork
  <2> QED BY <1>1, <2>1, <2>2 DEF GenerationInv, EvaluationTypeOK
<1>3. GeneratingHasPipeline'
  <2> SUFFICES ASSUME datasetStatus' = "GENERATING", ~abandoned'
               PROVE  \E h \in Generation : generation'[h] \in StagesAtWork
    BY <1>1 DEF GeneratingHasPipeline
  <2>1. CASE to \in StagesAtWork
    BY <1>1, <2>1
  <2>2. CASE to \notin StagesAtWork
    <3>1. PICK h \in Generation : generation[h] \in StagesAtWork
      BY <2>2 DEF GenerationInv, GeneratingHasPipeline
    <3>2. h # g
      BY <2>2, <3>1
    <3> QED BY <1>1, <3>1, <3>2
  <2> QED BY <2>1, <2>2
<1>4. ToldInv'
  BY <1>1 DEF GenerationInv, ToldInv
<1>5. EndedInv'
  <2> SUFFICES ASSUME NEW k \in Generation, generation'[k] \in {"telling", "done"},
                      datasetStatus' # "COMPLETED"
               PROVE  \E h \in Generation \ {k} : generation'[h] \notin {"idle", "requested"}
    BY DEF EndedInv, Moved
  <2>1. CASE k # g
    BY <1>1, <2>1
  <2>2. CASE k = g
    <3>1. generation[k] = "telling" /\ datasetStatus # "COMPLETED"
      BY <1>1, <2>2
    <3>2. PICK h \in Generation \ {k} : generation[h] \notin {"idle", "requested"}
      BY <3>1 DEF GenerationInv, EndedInv, Moved
    <3> QED BY <1>1, <2>2, <3>2
  <2> QED BY <2>1, <2>2
<1> QED BY <1>2, <1>3, <1>4, <1>5 DEF GenerationInv

LEMMA PipelineKeeps ==
    ASSUME GenerationInv, NEW g \in Generation, PipelineAdvances(g)
    PROVE  GenerationInv' /\ UNCHANGED runVars
<1> USE DEF Alive, StagesAtWork, DatasetStatus
<1>0. /\ datasetStatus \in DatasetStatus /\ abandoned \in BOOLEAN
      /\ generation \in [Generation -> {"idle", "done", "error"} \union Alive]
  BY DEF GenerationInv, EvaluationTypeOK
<1>a. ASSUME NEW from, NEW to, PipelineLeaves(g, from, to)
      PROVE  from = generation[g] /\ UNCHANGED runVars
  BY <1>a DEF PipelineLeaves
<1>b. ASSUME NEW from \in Alive, NEW status \in DatasetStatus,
             NEW to \in {"discovering", "parsing", "finishing", "telling", "error"},
             PipelineStep(g, from, to, status),
             status = "GENERATING" => to \in StagesAtWork,
             to = "telling" => status = "COMPLETED"
      PROVE  GenerationInv' /\ UNCHANGED runVars
  <2>1. /\ PipelineLeaves(g, from, to) /\ datasetStatus' = status /\ abandoned' = FALSE
        /\ from = generation[g] /\ UNCHANGED runVars
    BY <1>a, <1>b DEF PipelineStep
  <2>2. abandoned' \in BOOLEAN
    BY <2>1
  <2> QED BY <1>b, <2>1, <2>2, StageKeeps
<1>1. CASE GenerationBegins(g)
  BY <1>b, <1>1 DEF GenerationBegins
<1>2. CASE FilesDiscovered(g)
  BY <1>b, <1>2 DEF FilesDiscovered
<1>3. CASE FilesProcessed(g)
  BY <1>b, <1>3 DEF FilesProcessed
<1>4. CASE GenerationEnds(g)
  BY <1>b, <1>4 DEF GenerationEnds
<1>5. CASE ResultIsTold(g)
  BY <1>0, <1>a, <1>5, StageKeeps DEF ResultIsTold, GenerationInv
<1>6. CASE GenerationFails(g)
  BY <1>b, <1>6 DEF GenerationFails
<1>7. CASE TellingFails(g)
  BY <1>b, <1>7 DEF TellingFails
<1>8. CASE GenerationVanishes(g)
  <2>1. PICK stage \in Alive :
           /\ PipelineLeaves(g, stage, "error") /\ datasetStatus' = datasetStatus
           /\ abandoned' = (abandoned \/ stage \in StagesAtWork)
    BY <1>8 DEF GenerationVanishes
  <2>2. abandoned' \in BOOLEAN /\ (~abandoned' => ~abandoned /\ stage \notin StagesAtWork)
    BY <2>1
  <2> QED BY <1>0, <1>a, <2>1, <2>2, StageKeeps
<1> QED
  BY <1>1, <1>2, <1>3, <1>4, <1>5, <1>6, <1>7, <1>8 DEF PipelineAdvances

LEMMA DeathKeeps ==
    ASSUME GenerationInv, ServiceDies
    PROVE  GenerationInv' /\ UNCHANGED runVars
<1> USE DEF Alive, StagesAtWork
<1>1. /\ UNCHANGED <<datasetStatus, generatePage, drawnStatus, datasetFetch, run, runFeed,
                     evalRunning, activeRunId, runsOverlapped>>
      /\ abandoned' = TRUE /\ UNCHANGED runVars
      /\ generation' = [g \in Generation |->
                          IF generation[g] \in Alive THEN "error" ELSE generation[g]]
  BY DEF ServiceDies, detailVars, runVars
<1>2. \A g \in Generation : /\ generation[g] = "done" => generation'[g] = "done"
                            /\ generation'[g] \in {"telling", "done"} => generation[g] = "done"
                            /\ Moved(g) => generation'[g] \notin {"idle", "requested"}
  BY <1>1 DEF Moved
<1>3. EvaluationTypeOK'
  BY <1>1 DEF GenerationInv, EvaluationTypeOK
<1>4. GeneratingHasPipeline' /\ ToldInv'
  BY <1>1, <1>2 DEF GenerationInv, GeneratingHasPipeline, ToldInv
<1>5. EndedInv'
  BY <1>1, <1>2 DEF GenerationInv, EndedInv, Moved
<1> QED BY <1>1, <1>3, <1>4, <1>5 DEF GenerationInv

LEMMA GeneratePageKeeps ==
    ASSUME GenerationInv, NEW p \in GeneratePage,
           \/ \E g \in Generation : HandleStart(p, g)
           \/ \E phase \in {"done", "error", "lost"} : GeneratePageHears(p, phase)
           \/ RetryGeneration(p)
           \/ ReopenGeneratePage(p)
    PROVE  GenerationInv' /\ UNCHANGED runVars
<1>0. generatePage \in [GeneratePage -> GenerateView] /\ generatePage[p] \in GenerateView
  BY DEF GenerationInv, EvaluationTypeOK, GenerateView
\* The view of one tab changes, and at most an idle generation with it.
<1>1. ASSUME NEW view \in GenerateView, generatePage' = [generatePage EXCEPT ![p] = view],
             \/ generation' = generation
             \/ \E g \in Generation : /\ generation[g] = "idle"
                                      /\ generation' = [generation EXCEPT ![g] = "requested"],
             view.phase \in {"generating", "done"} => view.of \in Generation,
             view.phase = "done" => generation[view.of] = "done",
             UNCHANGED <<datasetStatus, abandoned, detailVars, runVars>>
      PROVE  GenerationInv' /\ UNCHANGED runVars
  <2>1. UNCHANGED <<datasetStatus, abandoned, drawnStatus, datasetFetch, run, runFeed,
                    evalRunning, activeRunId, runsOverlapped>>
    BY <1>1 DEF detailVars, runVars
  <2>2. /\ generation' \in [Generation -> {"idle", "done", "error"} \union Alive]
        /\ \A g \in Generation :
              /\ generation[g] # "idle" => generation'[g] = generation[g]
              /\ generation'[g] # generation[g] => generation'[g] = "requested"
    BY <1>1 DEF GenerationInv, EvaluationTypeOK, Alive, StagesAtWork
  <2>3. EvaluationTypeOK'
    BY <1>0, <1>1, <2>1, <2>2 DEF GenerationInv, EvaluationTypeOK, GenerateView
  <2>4. GeneratingHasPipeline'
    BY <2>1, <2>2 DEF GenerationInv, GeneratingHasPipeline, StagesAtWork
  <2>5. generatePage'[p] = view /\ \A q \in GeneratePage \ {p} : generatePage'[q] = generatePage[q]
    BY <1>0, <1>1
  <2>6. ToldInv'
    <3> SUFFICES ASSUME NEW q \in GeneratePage
                 PROVE  /\ generatePage'[q].phase \in {"generating", "done"} =>
                              generatePage'[q].of \in Generation
                        /\ generatePage'[q].phase = "done" =>
                              generation'[generatePage'[q].of] = "done"
      BY DEF ToldInv
    <3>1. CASE q = p
      BY <1>1, <2>2, <2>5, <3>1
    <3>2. CASE q # p
      BY <2>2, <2>5, <3>2 DEF GenerationInv, ToldInv
    <3> QED BY <3>1, <3>2
  <2>7. EndedInv'
    BY <2>1, <2>2 DEF GenerationInv, EndedInv, Moved
  <2> QED BY <1>1, <2>3, <2>4, <2>6, <2>7 DEF GenerationInv
<1>2. ASSUME NEW g \in Generation, HandleStart(p, g)
      PROVE  GenerationInv' /\ UNCHANGED runVars
  <2> DEFINE view == [phase |-> "generating", hasStarted |-> TRUE, of |-> g]
  <2>1. view \in GenerateView /\ view.phase = "generating" /\ view.of \in Generation
    BY DEF GenerateView
  <2> QED BY <1>1, <1>2, <2>1 DEF HandleStart
<1>3. ASSUME NEW phase \in {"done", "error", "lost"}, GeneratePageHears(p, phase)
      PROVE  GenerationInv' /\ UNCHANGED runVars
  <2> DEFINE view == [generatePage[p] EXCEPT !.phase = phase]
  <2>1. view \in GenerateView /\ view.phase = phase /\ view.of = generatePage[p].of
    BY <1>0 DEF GenerateView
  <2>2. /\ generatePage' = [generatePage EXCEPT ![p] = view] /\ view.of \in Generation
        /\ phase = "done" => generation[view.of] = "done"
        /\ UNCHANGED <<generation, datasetStatus, abandoned, detailVars, runVars>>
    BY <1>3, <2>1 DEF GeneratePageHears, GenerationInv, ToldInv
  <2> QED BY <1>1, <2>1, <2>2
<1>4. CASE RetryGeneration(p)
  <2> DEFINE view == [generatePage[p] EXCEPT !.phase = "ready", !.hasStarted = FALSE]
  <2>1. view \in GenerateView /\ view.phase = "ready"
    BY <1>0 DEF GenerateView
  <2>2. /\ generatePage' = [generatePage EXCEPT ![p] = view]
        /\ UNCHANGED <<generation, datasetStatus, abandoned, detailVars, runVars>>
    BY <1>0, <1>4 DEF RetryGeneration, GenerateView
  <2> QED BY <1>1, <2>1, <2>2
<1>5. CASE ReopenGeneratePage(p)
  <2> DEFINE view == [phase |-> "ready", hasStarted |-> FALSE, of |-> NoGeneration]
  <2>1. view \in GenerateView /\ view.phase = "ready"
    BY DEF GenerateView
  <2> QED BY <1>1, <1>5, <2>1 DEF ReopenGeneratePage
<1> QED BY <1>2, <1>3, <1>4, <1>5

LEMMA DatasetPageKeeps ==
    ASSUME GenerationInv, NEW c \in DatasetFetch,
           PollDataset(c) \/ ServerReadsDataset(c) \/ DatasetArrives(c) \/ DatasetFetchFails(c)
    PROVE  GenerationInv' /\ UNCHANGED runVars
<1>1. /\ UNCHANGED <<datasetStatus, generation, generatePage, abandoned, run, runFeed,
                     evalRunning, activeRunId, runsOverlapped>>
      /\ UNCHANGED runVars
  BY DEF PollDataset, ServerReadsDataset, DatasetArrives, DatasetFetchFails,
         generationVars, runVars
<1>2. /\ drawnStatus' \in DatasetStatus \union {"none"}
      /\ datasetFetch' \in [DatasetFetch -> DatasetStatus \union {"none", "sent"}]
  BY DEF PollDataset, ServerReadsDataset, DatasetArrives, DatasetFetchFails,
         GenerationInv, EvaluationTypeOK
<1>3. EvaluationTypeOK'
  BY <1>1, <1>2 DEF GenerationInv, EvaluationTypeOK
<1>4. GeneratingHasPipeline' /\ ToldInv' /\ EndedInv'
  BY <1>1 DEF GenerationInv, GeneratingHasPipeline, ToldInv, EndedInv, Moved
<1> QED BY <1>1, <1>3, <1>4 DEF GenerationInv

LEMMA RunsKeep ==
    ASSUME EvaluationInv, NEW r \in Run,
           CreateRun(r) \/ RunCreated(r) \/ ServerRuns(r) \/ RunFeedEnds(r)
    PROVE  EvaluationInv'
<1>1. UNCHANGED <<datasetStatus, generation, generatePage, abandoned, drawnStatus, datasetFetch>>
  BY DEF CreateRun, RunCreated, ServerRuns, RunFeedEnds, RunHeard, generationVars, detailVars
<1>2. GeneratingHasPipeline' /\ ToldInv' /\ EndedInv'
  BY <1>1 DEF EvaluationInv, GenerationInv, GeneratingHasPipeline, ToldInv, EndedInv, Moved
<1>3. EvaluationTypeOK
  BY DEF EvaluationInv, GenerationInv
<1>4. CASE CreateRun(r) \/ ServerRuns(r)
  <2>1. /\ run' \in [Run -> {"none", "PENDING", "RUNNING", "COMPLETED", "FAILED"}]
        /\ UNCHANGED <<runFeed, evalRunning, activeRunId, runsOverlapped>>
    BY <1>3, <1>4 DEF CreateRun, ServerRuns, EvaluationTypeOK
  <2>2. EvaluationTypeOK'
    BY <1>1, <1>3, <2>1 DEF EvaluationTypeOK
  <2>3. FollowedInv'
    BY <2>1 DEF EvaluationInv, FollowedInv, OpenRuns
  <2> QED BY <1>2, <2>2, <2>3 DEF EvaluationInv, GenerationInv
<1>5. CASE RunCreated(r)
  <2>1. /\ runFeed' = [runFeed EXCEPT ![r] = "open"] /\ runFeed[r] = "none"
        /\ activeRunId' = r /\ evalRunning' = TRUE /\ run' = run
        /\ runsOverlapped' = (runsOverlapped \/ OpenRuns # {})
    BY <1>5 DEF RunCreated
  <2>2. runsOverlapped' \in BOOLEAN /\ (~runsOverlapped' => ~runsOverlapped /\ OpenRuns = {})
    BY <2>1
  <2>3. EvaluationTypeOK'
    BY <1>1, <1>3, <2>1, <2>2 DEF EvaluationTypeOK
  <2>4. OpenRuns' = OpenRuns \union {r}
    BY <1>3, <2>1 DEF OpenRuns, EvaluationTypeOK
  <2>5. FollowedInv'
    BY <2>1, <2>2, <2>4 DEF FollowedInv
  <2> QED BY <1>2, <2>3, <2>5 DEF EvaluationInv, GenerationInv
<1>6. ASSUME NEW as \in {"ended", "lost"}, RunHeard(r, as) PROVE EvaluationInv'
  <2>1. /\ runFeed[r] = "open" /\ runFeed' = [runFeed EXCEPT ![r] = as]
        /\ as = "ended" => evalRunning' = FALSE
        /\ as = "lost" => evalRunning' = evalRunning
        /\ UNCHANGED <<run, activeRunId, runsOverlapped>>
    BY <1>6 DEF RunHeard
  <2>2. EvaluationTypeOK'
    BY <1>1, <1>3, <2>1 DEF EvaluationTypeOK
  <2>3. OpenRuns' = OpenRuns \ {r} /\ r \in OpenRuns /\ runFeed'[r] = as
    BY <1>3, <2>1 DEF OpenRuns, EvaluationTypeOK
  <2>4. FollowedInv'
    BY <2>1, <2>3 DEF EvaluationInv, FollowedInv
  <2> QED BY <1>2, <2>2, <2>4 DEF EvaluationInv, GenerationInv
<1> QED BY <1>4, <1>5, <1>6 DEF RunFeedEnds

LEMMA EvaluationGoesOnSo == EvaluationInv /\ [EvaluationNext]_evaluationVars => EvaluationInv'
<1> SUFFICES ASSUME EvaluationInv, [EvaluationNext]_evaluationVars PROVE EvaluationInv'
  OBVIOUS
<1>1. GenerationInv
  BY DEF EvaluationInv
<1>2. ASSUME GenerationInv', UNCHANGED runVars PROVE EvaluationInv'
  BY <1>2 DEF EvaluationInv, FollowedInv, OpenRuns, runVars
<1>3. ASSUME NEW g \in Generation, PipelineAdvances(g) PROVE EvaluationInv'
  BY <1>1, <1>2, <1>3, PipelineKeeps
<1>4. CASE ServiceDies
  BY <1>1, <1>2, <1>4, DeathKeeps
<1>5. ASSUME NEW p \in GeneratePage,
             \/ \E g \in Generation : HandleStart(p, g)
             \/ \E phase \in {"done", "error", "lost"} : GeneratePageHears(p, phase)
             \/ RetryGeneration(p)
             \/ ReopenGeneratePage(p)
      PROVE  EvaluationInv'
  BY <1>1, <1>2, <1>5, GeneratePageKeeps
<1>6. ASSUME NEW c \in DatasetFetch,
             PollDataset(c) \/ ServerReadsDataset(c) \/ DatasetArrives(c) \/ DatasetFetchFails(c)
      PROVE  EvaluationInv'
  BY <1>1, <1>2, <1>6, DatasetPageKeeps
<1>7. ASSUME NEW r \in Run, CreateRun(r) \/ RunCreated(r) \/ ServerRuns(r) \/ RunFeedEnds(r)
      PROVE  EvaluationInv'
  BY <1>7, RunsKeep
<1>8. CASE UNCHANGED evaluationVars
  <2>1. /\ UNCHANGED <<datasetStatus, generation, generatePage, abandoned, drawnStatus,
                       datasetFetch, run, runFeed, evalRunning, activeRunId, runsOverlapped>>
        /\ UNCHANGED runVars
    BY <1>8 DEF evaluationVars, generationVars, detailVars, runVars
  <2>2. GenerationInv'
    BY <1>1, <2>1 DEF GenerationInv, EvaluationTypeOK, GeneratingHasPipeline, ToldInv,
                      EndedInv, Moved
  <2> QED BY <1>2, <2>1, <2>2
<1> QED BY <1>3, <1>4, <1>5, <1>6, <1>7, <1>8 DEF EvaluationNext

\* What the pages say of work on the server is true of the work: a data set in
\* generation has a pipeline, or had one that ended without a word; a page that
\* reports a finished one is right until another generation has begun; the
\* indicator stands for a run that is followed (EvalController and the
\* evaluation pages).
THEOREM EvaluationStaysTrue == EvaluationSpec => []EvaluationIsShown
<1>1. ASSUME EvaluationInv PROVE EvaluationIsShown
  <2>1. GeneratingHasPipeline
    BY <1>1 DEF EvaluationInv, GenerationInv
  <2>2. DoneIsCompleted
    BY <1>1 DEF EvaluationInv, GenerationInv, ToldInv, EndedInv, Moved, DoneIsCompleted
  <2>3. RunningIsShown
    BY <1>1 DEF EvaluationInv, FollowedInv, RunningIsShown
  <2> QED BY <2>1, <2>2, <2>3 DEF EvaluationIsShown
<1> QED BY <1>1, EvaluationStarts, EvaluationGoesOnSo, PTL DEF EvaluationSpec

-----------------------------------------------------------------------------
(* The forms of the spaces (SpaceForms)                                    *)

\* The page that creates is of no space, the one that edits of exactly one.
ViewInv ==
    \A t \in FormTab :
        /\ shownForm[t].page \in {"list", "create"} => shownForm[t].of = {}
        /\ shownForm[t].page = "detail" => \E s \in KnowledgeSpace : shownForm[t].of = {s}

\* What a write carries is what its form held.
CarriesItsForm(w) ==
    /\ \A f \in NamedFields : w.values[f] = w.filled[f]
    /\ w.into # {} => /\ w.values = w.filled
                      /\ \E s \in KnowledgeSpace : w.into = {s}
                      /\ w.state = "stored" => w.made = w.into

WritesInv == \A w \in writes : CarriesItsForm(w)

\* A button is blocked by the one write of its page.
BlockedInv ==
    /\ \A w, x \in writes : w.live /\ x.live /\ w.tab = x.tab => w = x
    /\ \A t \in FormTab :
          shownForm[t].loading <=> \E w \in writes : w.tab = t /\ w.live

FormsInv == SpaceFormsTypeOK /\ ViewInv /\ WritesInv /\ BlockedInv

LEMMA FormsStart == SpaceFormsInit => FormsInv
<1> SUFFICES ASSUME SpaceFormsInit PROVE FormsInv
  OBVIOUS
<1>1. ListPage \in FormPages
  BY DEF ListPage, FormPages, FormValues, NoSuchSpace
<1>2. storedSpaces \in [KnowledgeSpace -> FormValues]
  BY DEF SpaceFormsInit, FormValues, NoSuchSpace
<1>3. writes = {} /\ \A t \in FormTab : shownForm[t] = ListPage
  BY DEF SpaceFormsInit
<1>4. SpaceFormsTypeOK
  BY <1>1, <1>2 DEF SpaceFormsInit, SpaceFormsTypeOK
<1>5. ViewInv /\ WritesInv /\ BlockedInv
  BY <1>3 DEF ViewInv, WritesInv, BlockedInv, ListPage
<1> QED BY <1>4, <1>5 DEF FormsInv

\* Another page in a tab: the writes of the page that was left are on their own.
LEMMA ShowKeeps ==
    ASSUME FormsInv, NEW t \in FormTab, NEW v \in FormPages, Show(t, v),
           ~v.loading, v.page \in {"list", "create"} => v.of = {},
           v.page = "detail" => \E s \in KnowledgeSpace : v.of = {s}
    PROVE  FormsInv'
<1> DEFINE After(w) == IF w.tab = t THEN [w EXCEPT !.live = FALSE] ELSE w
<1>1. /\ shownForm' = [shownForm EXCEPT ![t] = v] /\ storedSpaces' = storedSpaces
      /\ writes' = {After(w) : w \in writes}
  BY DEF Show, Orphaned
<1>2. /\ shownForm'[t] = v /\ shownForm' \in [FormTab -> FormPages]
      /\ \A u \in FormTab \ {t} : shownForm'[u] = shownForm[u]
  BY <1>1 DEF FormsInv, SpaceFormsTypeOK
<1>3. \A w \in writes :
         /\ After(w) \in Writes /\ After(w).tab = w.tab /\ After(w).values = w.values
         /\ After(w).filled = w.filled /\ After(w).into = w.into
         /\ After(w).state = w.state /\ After(w).made = w.made
         /\ After(w).live <=> w.live /\ w.tab # t
         /\ w.tab # t => After(w) = w
  <2> SUFFICES ASSUME NEW w \in writes
               PROVE  /\ After(w) \in Writes /\ After(w).tab = w.tab
                      /\ After(w).values = w.values /\ After(w).filled = w.filled
                      /\ After(w).into = w.into /\ After(w).state = w.state
                      /\ After(w).made = w.made
                      /\ After(w).live <=> w.live /\ w.tab # t
                      /\ w.tab # t => After(w) = w
    OBVIOUS
  <2>1. w \in Writes
    BY DEF FormsInv, SpaceFormsTypeOK
  <2>2. CASE w.tab = t
    BY <2>1, <2>2 DEF Writes
  <2>3. CASE w.tab # t
    BY <2>1, <2>3
  <2> QED BY <2>2, <2>3
<1> HIDE DEF After
<1>4. SpaceFormsTypeOK'
  BY <1>1, <1>2, <1>3 DEF FormsInv, SpaceFormsTypeOK
<1>5. ViewInv'
  <2> SUFFICES ASSUME NEW u \in FormTab
               PROVE  /\ shownForm'[u].page \in {"list", "create"} => shownForm'[u].of = {}
                      /\ shownForm'[u].page = "detail" =>
                            \E s \in KnowledgeSpace : shownForm'[u].of = {s}
    BY DEF ViewInv
  <2> QED BY <1>2 DEF FormsInv, ViewInv
<1>6. WritesInv'
  <2> SUFFICES ASSUME NEW w \in writes PROVE CarriesItsForm(After(w))
    BY <1>1 DEF WritesInv, CarriesItsForm
  <2>1. CarriesItsForm(w)
    BY DEF FormsInv, WritesInv
  <2> QED BY <1>3, <2>1 DEF CarriesItsForm
<1>7. BlockedInv'
  <2>1. \A w, x \in writes' : w.live /\ x.live /\ w.tab = x.tab => w = x
    <3> SUFFICES ASSUME NEW w \in writes, NEW x \in writes, After(w).live, After(x).live,
                        After(w).tab = After(x).tab
                 PROVE  After(w) = After(x)
      BY <1>1
    <3>1. w.live /\ x.live /\ w.tab = x.tab
      BY <1>3
    <3> QED BY <3>1 DEF FormsInv, BlockedInv
  <2>2. ASSUME NEW u \in FormTab
        PROVE  shownForm'[u].loading <=> \E w \in writes' : w.tab = u /\ w.live
    <3>1. (\E w \in writes' : w.tab = u /\ w.live)
             <=> \E w \in writes : w.tab = u /\ w.live /\ u # t
      BY <1>1, <1>3
    <3>2. CASE u = t
      BY <1>2, <3>1, <3>2
    <3>3. CASE u # t
      BY <1>2, <3>1, <3>3 DEF FormsInv, BlockedInv
    <3> QED BY <3>2, <3>3
  <2> QED BY <2>1, <2>2 DEF BlockedInv
<1> QED BY <1>4, <1>5, <1>6, <1>7 DEF FormsInv

\* Work on a page, without a write.
LEMMA FillingKeeps ==
    ASSUME FormsInv, NEW t \in FormTab, NEW v \in FormPages,
           shownForm' = [shownForm EXCEPT ![t] = v], UNCHANGED <<storedSpaces, writes>>,
           v.page = shownForm[t].page, v.of = shownForm[t].of,
           v.loading = shownForm[t].loading
    PROVE  FormsInv'
<1>1. /\ shownForm'[t] = v /\ shownForm' \in [FormTab -> FormPages]
      /\ \A u \in FormTab \ {t} : shownForm'[u] = shownForm[u]
  BY DEF FormsInv, SpaceFormsTypeOK
<1>2. \A u \in FormTab : /\ shownForm'[u].page = shownForm[u].page
                         /\ shownForm'[u].of = shownForm[u].of
                         /\ shownForm'[u].loading = shownForm[u].loading
  BY <1>1
<1>3. SpaceFormsTypeOK' /\ WritesInv'
  BY <1>1 DEF FormsInv, SpaceFormsTypeOK, WritesInv, CarriesItsForm
<1>4. ViewInv'
  BY <1>2 DEF FormsInv, ViewInv
<1>5. BlockedInv'
  BY <1>2 DEF FormsInv, BlockedInv
<1> QED BY <1>3, <1>4, <1>5 DEF FormsInv

LEMMA SendKeeps ==
    ASSUME FormsInv, NEW t \in FormTab, NEW values \in FormValues,
           ~shownForm[t].loading, Send(t, values),
           \A f \in NamedFields : values[f] = shownForm[t].form[f],
           shownForm[t].page # "list",
           shownForm[t].page = "detail" => values = shownForm[t].form
    PROVE  FormsInv'
<1> DEFINE new == [tab |-> t, into |-> shownForm[t].of, values |-> values,
                   filled |-> shownForm[t].form, live |-> TRUE, state |-> "sent", made |-> {}]
           v == [shownForm[t] EXCEPT !.loading = TRUE]
<1>1. shownForm[t] \in FormPages /\ shownForm \in [FormTab -> FormPages]
  BY DEF FormsInv, SpaceFormsTypeOK
<1>2. /\ new \in Writes /\ new.tab = t /\ new.live /\ new.values = values
      /\ new.filled = shownForm[t].form /\ new.into = shownForm[t].of /\ new.state = "sent"
  BY <1>1 DEF Writes, FormPages
<1>3. /\ v \in FormPages /\ v.loading /\ v.page = shownForm[t].page /\ v.of = shownForm[t].of
  BY <1>1 DEF FormPages
<1>4. /\ shownForm' = [shownForm EXCEPT ![t] = v] /\ storedSpaces' = storedSpaces
      /\ writes' = writes \union {new}
  BY <1>1 DEF Send, FormPages
<1> HIDE DEF new, v
<1>5. /\ shownForm'[t] = v /\ shownForm' \in [FormTab -> FormPages]
      /\ \A u \in FormTab \ {t} : shownForm'[u] = shownForm[u]
  BY <1>1, <1>3, <1>4
<1>6. SpaceFormsTypeOK'
  BY <1>2, <1>4, <1>5 DEF FormsInv, SpaceFormsTypeOK
<1>7. ViewInv'
  <2> SUFFICES ASSUME NEW u \in FormTab
               PROVE  /\ shownForm'[u].page \in {"list", "create"} => shownForm'[u].of = {}
                      /\ shownForm'[u].page = "detail" =>
                            \E s \in KnowledgeSpace : shownForm'[u].of = {s}
    BY DEF ViewInv
  <2>1. shownForm'[u].page = shownForm[u].page /\ shownForm'[u].of = shownForm[u].of
    BY <1>3, <1>5
  <2> QED BY <2>1 DEF FormsInv, ViewInv
<1>8. CarriesItsForm(new)
  <2>1. shownForm[t].page \in {"create", "detail"}
    BY <1>1 DEF FormPages
  <2>2. CASE shownForm[t].page = "create"
    BY <1>2, <2>2 DEF CarriesItsForm, FormsInv, ViewInv
  <2>3. CASE shownForm[t].page = "detail"
    BY <1>2, <2>3 DEF CarriesItsForm, FormsInv, ViewInv
  <2> QED BY <2>1, <2>2, <2>3
<1>9. WritesInv'
  <2> SUFFICES ASSUME NEW w \in writes \union {new} PROVE CarriesItsForm(w)
    BY <1>4 DEF WritesInv, CarriesItsForm
  <2> QED BY <1>8 DEF FormsInv, WritesInv
<1>10. \A w \in writes : ~(w.tab = t /\ w.live)
  BY DEF FormsInv, BlockedInv
<1>11. BlockedInv'
  <2>1. \A w, x \in writes' : w.live /\ x.live /\ w.tab = x.tab => w = x
    BY <1>2, <1>4, <1>10 DEF FormsInv, BlockedInv
  <2>2. ASSUME NEW u \in FormTab
        PROVE  shownForm'[u].loading <=> \E w \in writes' : w.tab = u /\ w.live
    <3>1. CASE u = t
      BY <1>2, <1>3, <1>4, <1>5, <3>1
    <3>2. CASE u # t
      BY <1>2, <1>4, <1>5, <3>2 DEF FormsInv, BlockedInv
    <3> QED BY <3>1, <3>2
  <2> QED BY <2>1, <2>2 DEF BlockedInv
<1> QED BY <1>6, <1>7, <1>9, <1>11 DEF FormsInv

\* ingest-service answers.
LEMMA WriteSpaceKeeps ==
    ASSUME FormsInv, NEW w \in writes, WriteSpace(w)
    PROVE  FormsInv'
<1>1. w \in Writes /\ CarriesItsForm(w) /\ w.state = "sent" /\ shownForm' = shownForm
  BY DEF FormsInv, SpaceFormsTypeOK, WritesInv, WriteSpace
<1>2. ASSUME NEW x \in Writes, writes' = (writes \ {w}) \union {x},
             x.tab = w.tab, x.live = w.live, CarriesItsForm(x),
             storedSpaces' \in [KnowledgeSpace -> FormValues]
      PROVE  FormsInv'
  <2>1. SpaceFormsTypeOK' /\ ViewInv'
    BY <1>1, <1>2 DEF FormsInv, SpaceFormsTypeOK, ViewInv
  <2>2. WritesInv'
    <3> SUFFICES ASSUME NEW y \in (writes \ {w}) \union {x} PROVE CarriesItsForm(y)
      BY <1>2 DEF WritesInv, CarriesItsForm
    <3> QED BY <1>2 DEF FormsInv, WritesInv
  <2>3. \A y, z \in writes' : y.live /\ z.live /\ y.tab = z.tab => y = z
    BY <1>2 DEF FormsInv, BlockedInv
  <2>4. ASSUME NEW u \in FormTab
        PROVE  shownForm'[u].loading <=> \E y \in writes' : y.tab = u /\ y.live
    <3>1. (\E y \in writes' : y.tab = u /\ y.live) <=> \E y \in writes : y.tab = u /\ y.live
      BY <1>2
    <3> QED BY <1>1, <3>1 DEF FormsInv, BlockedInv
  <2> QED BY <2>1, <2>2, <2>3, <2>4 DEF FormsInv, BlockedInv
<1>3. ASSUME NEW s \in KnowledgeSpace, w.into # {} => s \in w.into,
             storedSpaces' = [storedSpaces EXCEPT ![s] = w.values],
             writes' = (writes \ {w}) \union {[w EXCEPT !.state = "stored", !.made = {s}]}
      PROVE  FormsInv'
  <2> DEFINE x == [w EXCEPT !.state = "stored", !.made = {s}]
  <2>1. /\ x \in Writes /\ x.tab = w.tab /\ x.live = w.live /\ x.values = w.values
        /\ x.filled = w.filled /\ x.into = w.into /\ x.made = {s}
    BY <1>1 DEF Writes
  <2>2. writes' = (writes \ {w}) \union {x}
    BY <1>3
  <2> HIDE DEF x
  <2>3. CarriesItsForm(x)
    BY <1>1, <1>3, <2>1 DEF CarriesItsForm
  <2>4. storedSpaces' \in [KnowledgeSpace -> FormValues]
    BY <1>1, <1>3 DEF FormsInv, SpaceFormsTypeOK, Writes
  <2> QED BY <1>2, <2>1, <2>2, <2>3, <2>4
<1>4. ASSUME writes' = (writes \ {w}) \union {[w EXCEPT !.state = "refused"]},
             storedSpaces' = storedSpaces
      PROVE  FormsInv'
  <2> DEFINE x == [w EXCEPT !.state = "refused"]
  <2>1. /\ x \in Writes /\ x.tab = w.tab /\ x.live = w.live /\ x.values = w.values
        /\ x.filled = w.filled /\ x.into = w.into /\ x.state = "refused"
    BY <1>1 DEF Writes
  <2>2. writes' = (writes \ {w}) \union {x}
    BY <1>4
  <2> HIDE DEF x
  <2>3. CarriesItsForm(x)
    BY <1>1, <2>1 DEF CarriesItsForm
  <2>4. storedSpaces' \in [KnowledgeSpace -> FormValues]
    BY <1>4 DEF FormsInv, SpaceFormsTypeOK
  <2> QED BY <1>2, <2>1, <2>2, <2>3, <2>4
<1>5. CASE w.into = {}
  BY <1>3, <1>4, <1>5 DEF WriteSpace
<1>6. CASE w.into # {}
  <2>1. w.into \subseteq KnowledgeSpace
    BY <1>1 DEF Writes
  <2> QED BY <1>3, <1>4, <1>6, <2>1 DEF WriteSpace
<1> QED BY <1>5, <1>6

\* The page hears of its write, or of one of the page before it.
LEMMA AnswerKeeps ==
    ASSUME FormsInv, NEW w \in writes, WriteSucceeds(w) \/ WriteFails(w)
    PROVE  FormsInv'
<1> DEFINE t == w.tab
<1>1. w \in Writes /\ t \in FormTab /\ w.live \in BOOLEAN
  BY DEF FormsInv, SpaceFormsTypeOK, Writes
<1>2. shownForm[t] \in FormPages /\ shownForm \in [FormTab -> FormPages]
  BY <1>1 DEF FormsInv, SpaceFormsTypeOK
<1>3. writes' = writes \ {w} /\ storedSpaces' = storedSpaces
  BY DEF WriteSucceeds, WriteFails
<1>4. PICK v \in FormPages :
         /\ shownForm' = [shownForm EXCEPT ![t] = v]
         /\ v.page = shownForm[t].page /\ v.of = shownForm[t].of
         /\ w.live => ~v.loading
         /\ ~w.live => v.loading = shownForm[t].loading
  <2>1. CASE WriteSucceeds(w) /\ w.live
    <3> DEFINE v == [shownForm[t] EXCEPT !.loading = FALSE, !.editing = FALSE, !.leaving = TRUE]
    <3>1. /\ v \in FormPages /\ v.page = shownForm[t].page /\ v.of = shownForm[t].of
          /\ ~v.loading
      BY <1>2 DEF FormPages
    <3>2. shownForm' = [shownForm EXCEPT ![t] = v]
      BY <1>2, <2>1 DEF WriteSucceeds
    <3> QED BY <2>1, <3>1, <3>2
  <2>2. CASE WriteSucceeds(w) /\ ~w.live
    <3> DEFINE leaving == (shownForm[t].leaving \/ shownForm[t].page # "list")
               v == [shownForm[t] EXCEPT !.leaving = leaving]
    <3>1. /\ v \in FormPages /\ v.page = shownForm[t].page /\ v.of = shownForm[t].of
          /\ v.loading = shownForm[t].loading
      BY <1>2 DEF FormPages
    <3>2. shownForm' = [shownForm EXCEPT ![t] = v]
      BY <1>2, <2>2 DEF WriteSucceeds
    <3> QED BY <2>2, <3>1, <3>2
  <2>3. CASE WriteFails(w) /\ w.live
    <3> DEFINE v == [shownForm[t] EXCEPT !.loading = FALSE]
    <3>1. /\ v \in FormPages /\ v.page = shownForm[t].page /\ v.of = shownForm[t].of
          /\ ~v.loading
      BY <1>2 DEF FormPages
    <3>2. shownForm' = [shownForm EXCEPT ![t] = v]
      BY <1>2, <2>3 DEF WriteFails
    <3> QED BY <2>3, <3>1, <3>2
  <2>4. CASE WriteFails(w) /\ ~w.live
    <3>1. shownForm' = [shownForm EXCEPT ![t] = shownForm[t]]
      BY <1>2, <2>4 DEF WriteFails
    <3> QED BY <1>2, <2>4, <3>1
  <2> QED BY <1>1, <2>1, <2>2, <2>3, <2>4
<1> HIDE DEF t
<1>5. /\ shownForm'[t] = v /\ shownForm' \in [FormTab -> FormPages]
      /\ \A u \in FormTab \ {t} : shownForm'[u] = shownForm[u]
  BY <1>1, <1>2, <1>4
<1>6. SpaceFormsTypeOK' /\ WritesInv'
  BY <1>3, <1>5 DEF FormsInv, SpaceFormsTypeOK, WritesInv, CarriesItsForm
<1>7. ViewInv'
  <2> SUFFICES ASSUME NEW u \in FormTab
               PROVE  /\ shownForm'[u].page \in {"list", "create"} => shownForm'[u].of = {}
                      /\ shownForm'[u].page = "detail" =>
                            \E s \in KnowledgeSpace : shownForm'[u].of = {s}
    BY DEF ViewInv
  <2>1. shownForm'[u].page = shownForm[u].page /\ shownForm'[u].of = shownForm[u].of
    BY <1>4, <1>5
  <2> QED BY <2>1 DEF FormsInv, ViewInv
<1>8. BlockedInv'
  <2>1. \A y, z \in writes' : y.live /\ z.live /\ y.tab = z.tab => y = z
    BY <1>3 DEF FormsInv, BlockedInv
  <2>2. ASSUME NEW u \in FormTab
        PROVE  shownForm'[u].loading <=> \E y \in writes' : y.tab = u /\ y.live
    <3>1. CASE u # t
      <4>1. (\E y \in writes' : y.tab = u /\ y.live) <=> \E y \in writes : y.tab = u /\ y.live
        BY <1>3, <3>1 DEF t
      <4> QED BY <1>5, <3>1, <4>1 DEF FormsInv, BlockedInv
    <3>2. CASE u = t /\ w.live
      <4>1. \A y \in writes' : ~(y.tab = u /\ y.live)
        BY <1>3, <3>2 DEF FormsInv, BlockedInv, t
      <4> QED BY <1>4, <1>5, <3>2, <4>1
    <3>3. CASE u = t /\ ~w.live
      <4>1. (\E y \in writes' : y.tab = u /\ y.live) <=> \E y \in writes : y.tab = u /\ y.live
        BY <1>3, <3>3
      <4> QED BY <1>4, <1>5, <3>3, <4>1 DEF FormsInv, BlockedInv
    <3> QED BY <1>1, <3>1, <3>2, <3>3
  <2> QED BY <2>1, <2>2 DEF BlockedInv
<1> QED BY <1>6, <1>7, <1>8 DEF FormsInv

LEMMA FormsGoOn == FormsInv /\ [SpaceFormsNext]_spaceFormVars => FormsInv'
<1> SUFFICES ASSUME FormsInv, [SpaceFormsNext]_spaceFormVars PROVE FormsInv'
  OBVIOUS
<1>0. /\ \A t \in FormTab : shownForm[t] \in FormPages
      /\ shownForm \in [FormTab -> FormPages] /\ storedSpaces \in [KnowledgeSpace -> FormValues]
      /\ ListPage \in FormPages
  BY DEF FormsInv, SpaceFormsTypeOK, ListPage, FormPages, FormValues, NoSuchSpace
<1>1. ASSUME NEW t \in FormTab, OpenCreateForm(t) PROVE FormsInv'
  <2> DEFINE v == [ListPage EXCEPT !.page = "create", !.form = InitialForm]
  <2>1. InitialForm \in FormValues
    BY DEF FormValues, InitialForm, Entered
  <2>2. v \in FormPages /\ ~v.loading /\ v.page = "create" /\ v.of = {}
    BY <1>0, <2>1 DEF ListPage, FormPages
  <2>3. Show(t, v)
    BY <1>1 DEF OpenCreateForm
  <2> HIDE DEF v
  <2> QED BY <2>2, <2>3, ShowKeeps
<1>2. ASSUME NEW t \in FormTab, NEW s \in KnowledgeSpace, OpenSpaceDetail(t, s) PROVE FormsInv'
  <2> DEFINE v == [ListPage EXCEPT !.page = "detail", !.of = {s}, !.form = storedSpaces[s]]
  <2>1. v \in FormPages /\ ~v.loading /\ v.page = "detail" /\ v.of = {s}
    BY <1>0 DEF ListPage, FormPages
  <2>2. Show(t, v)
    BY <1>2 DEF OpenSpaceDetail
  <2> HIDE DEF v
  <2> QED BY <2>1, <2>2, ShowKeeps
<1>3. ASSUME NEW t \in FormTab, LeaveForm(t) PROVE FormsInv'
  <2>1. ~ListPage.loading /\ ListPage.page = "list" /\ ListPage.of = {}
    BY DEF ListPage
  <2> QED BY <1>0, <1>3, <2>1, ShowKeeps DEF LeaveForm
<1>4. ASSUME NEW t \in FormTab, NEW f \in FormField, NEW x \in Entered \union {"blank"},
             EnterValue(t, f, x)
      PROVE  FormsInv'
  <2> DEFINE form == [shownForm[t].form EXCEPT ![f] = x]
             v == [shownForm[t] EXCEPT !.form = form]
  <2>1. form \in FormValues
    BY <1>0 DEF FormPages, FormValues
  <2>2. /\ v \in FormPages /\ v.page = shownForm[t].page /\ v.of = shownForm[t].of
        /\ v.loading = shownForm[t].loading
    BY <1>0, <2>1 DEF FormPages
  <2>3. shownForm' = [shownForm EXCEPT ![t] = v] /\ UNCHANGED <<storedSpaces, writes>>
    BY <1>4 DEF EnterValue
  <2> HIDE DEF v
  <2> QED BY <2>2, <2>3, FillingKeeps
<1>5. ASSUME NEW t \in FormTab, NEW n \in 0 .. 2, GoToStep(t, n) PROVE FormsInv'
  <2> DEFINE v == [shownForm[t] EXCEPT !.step = n]
  <2>1. /\ v \in FormPages /\ v.page = shownForm[t].page /\ v.of = shownForm[t].of
        /\ v.loading = shownForm[t].loading
    BY <1>0 DEF FormPages
  <2>2. shownForm' = [shownForm EXCEPT ![t] = v] /\ UNCHANGED <<storedSpaces, writes>>
    BY <1>5 DEF GoToStep
  <2> HIDE DEF v
  <2> QED BY <2>1, <2>2, FillingKeeps
<1>6. ASSUME NEW t \in FormTab, ToggleEditing(t) PROVE FormsInv'
  <2> DEFINE v == [shownForm[t] EXCEPT !.editing = ~shownForm[t].editing]
  <2>1. /\ v \in FormPages /\ v.page = shownForm[t].page /\ v.of = shownForm[t].of
        /\ v.loading = shownForm[t].loading
    BY <1>0 DEF FormPages
  <2>2. shownForm' = [shownForm EXCEPT ![t] = v] /\ UNCHANGED <<storedSpaces, writes>>
    BY <1>6 DEF ToggleEditing
  <2> HIDE DEF v
  <2> QED BY <2>1, <2>2, FillingKeeps
<1>7. ASSUME NEW t \in FormTab, SubmitNewSpace(t) PROVE FormsInv'
  <2> DEFINE values == [f \in FormField |-> IF f \in NamedFields THEN shownForm[t].form[f]
                                            ELSE "initial"]
  <2>1. values \in FormValues /\ \A f \in NamedFields : values[f] = shownForm[t].form[f]
    BY <1>0 DEF FormPages, FormValues, FormField, NamedFields
  <2>2. Send(t, values) /\ shownForm[t].page = "create" /\ ~shownForm[t].loading
    BY <1>7 DEF SubmitNewSpace
  <2> HIDE DEF values
  <2> QED BY <2>1, <2>2, SendKeeps
<1>8. ASSUME NEW t \in FormTab, SubmitEditedSpace(t) PROVE FormsInv'
  <2>1. shownForm[t].form \in FormValues
    BY <1>0 DEF FormPages
  <2>2. Send(t, shownForm[t].form) /\ shownForm[t].page = "detail" /\ ~shownForm[t].loading
    BY <1>8 DEF SubmitEditedSpace
  <2> QED BY <2>1, <2>2, SendKeeps
<1>9. ASSUME NEW w \in writes, WriteSpace(w) \/ WriteSucceeds(w) \/ WriteFails(w)
      PROVE  FormsInv'
  BY <1>9, WriteSpaceKeeps, AnswerKeeps
<1>10. CASE UNCHANGED spaceFormVars
  BY <1>10 DEF spaceFormVars, FormsInv, SpaceFormsTypeOK, ViewInv, WritesInv,
               CarriesItsForm, BlockedInv
<1> QED
  BY <1>1, <1>2, <1>3, <1>4, <1>5, <1>6, <1>7, <1>8, <1>9, <1>10 DEF SpaceFormsNext

\* Each form writes its own fields, once: what is stored is what its page held
\* when the write was sent, and a page has at most one write on its way
\* (spaces/create and spaces/[id]).
THEOREM FormsStayTheirs == SpaceFormsSpec => []FormsWriteTheirFields
<1>1. ASSUME FormsInv PROVE FormsWriteTheirFields
  <2>1. NamedFieldsAreKept
    BY <1>1 DEF FormsInv, WritesInv, CarriesItsForm, NamedFieldsAreKept
  <2>2. ASSUME NEW t \in FormTab
        PROVE  LET own == {w \in writes : w.tab = t /\ w.live}
               IN  Cardinality(own) <= 1 /\ (shownForm[t].loading <=> own # {})
    <3> DEFINE own == {w \in writes : w.tab = t /\ w.live}
    <3>1. \A w, x \in own : w = x
      BY <1>1 DEF FormsInv, BlockedInv
    <3>2. Cardinality(own) \in {0, 1}
      <4>1. CASE own = {}
        BY <4>1, FS_EmptySet
      <4>2. CASE own # {}
        <5>1. PICK w \in own : own = {w}
          BY <3>1, <4>2
        <5> QED BY <5>1, FS_Singleton
      <4> QED BY <4>1, <4>2
    <3>3. shownForm[t].loading <=> own # {}
      BY <1>1 DEF FormsInv, BlockedInv
    <3>4. Cardinality(own) <= 1
      BY <3>2
    <3> QED BY <3>3, <3>4
  <2>3. OneWritePerPage
    BY <2>2 DEF OneWritePerPage
  <2> QED BY <2>1, <2>3 DEF FormsWriteTheirFields
<1> QED BY <1>1, FormsStart, FormsGoOn, PTL DEF SpaceFormsSpec

-----------------------------------------------------------------------------
(* The spaces (KnowledgeSpaces)                                            *)

-----------------------------------------------------------------------------
(* The inductive invariant                                                 *)

\* A path never changes once it is made, so the path of a space goes on where
\* the path of its parent ends, and the parent has been stored before.
PathInv == \A n \in Node : spaceTree[n].path # <<>> =>
    /\ spaceTree[Parent(n)].state \in {"stored", "gone"}
    /\ spaceTree[n].path = Append(spaceTree[Parent(n)].path, Parent(n))

\* A subtree was empty when it was counted: what is in it came later.
EmptyInv == \A s \in emptied : \A n \in Node :
    Stored(n) /\ Under(n, s) => DocsIn(n) \subseteq late

ParentInv == \A n \in Node :
    Stored(n) /\ spaceTree[n].path # <<>> /\ n \notin late => Stored(Parent(n))

HomeInv == \A n \in Node : \A d \in DocsIn(n) : Stored(n) \/ d \in late

TreeInv == PathInv /\ EmptyInv /\ ParentInv /\ HomeInv

\* An update that is alone with its space removes all the rows there are.
AloneInv == \A s \in Node \ crossed : \A u \in OpenUpdates(s) :
    /\ aclUpdate[u].rows = spaceAcl[s]
    /\ \A v \in OpenUpdates(s) : v = u

AgreeInv == \A n \in Node \ crossed : \A d \in DocsIn(n) \intersect reached :
    docRow[d].acl \intersect Role = spaceAcl[n] \intersect Role

AclInv ==
    /\ AloneInv /\ AgreeInv
    /\ \A d \in reached : docRow[d].state # "absent"

SpacesInv == SpacesTypeOK /\ TreeInv /\ AclInv

-----------------------------------------------------------------------------
(* Types                                                                   *)

SpaceRow == [state: {"absent", "creating", "stored", "gone"}, path: Seq(Node)]
DocEntry == [state: {"absent", "draft", "committed"}, space: Node, acl: SUBSET Accessor]
Request  == [space: Node, entries: SUBSET Accessor, rows: SUBSET Accessor, open: BOOLEAN]

TreeTypes ==
    /\ spaceTree \in [Node -> SpaceRow]
    /\ \A n \in Node : Len(spaceTree[n].path) < MaxDepth
    /\ emptied \subseteq Node
DocTypes == docRow \in [SpaceDoc -> DocEntry]
AclTypes ==
    /\ spaceAcl \in [Node -> SUBSET Accessor]
    /\ aclUpdate \in [AclRequest -> Request]
    /\ crossed \subseteq Node
PastTypes == late \subseteq Node \union SpaceDoc /\ reached \subseteq SpaceDoc

LEMMA TypesInParts == SpacesTypeOK <=> TreeTypes /\ DocTypes /\ AclTypes /\ PastTypes
BY DEF SpacesTypeOK, TreeTypes, DocTypes, AclTypes, PastTypes, SpaceRow, DocEntry, Request

LEMMA TreeTypesStep ==
    ASSUME SpacesTypeOK, [SpacesNext]_spacesVars
    PROVE  TreeTypes'
<1>0. TreeTypes
  BY TypesInParts
<1>1. ASSUME NEW n \in Node, NEW p \in Node, CreateSpace(n, p) PROVE TreeTypes'
  <2> DEFINE path == Append(spaceTree[p].path, p)
  <2>1. path \in Seq(Node) /\ Len(path) < MaxDepth
    BY <1>0, <1>1, SpacesAssumption DEF CreateSpace, TreeTypes, SpaceRow
  <2> HIDE DEF path
  <2>2. /\ spaceTree' = [spaceTree EXCEPT ![n] = [state |-> "creating", path |-> path]]
        /\ UNCHANGED emptied
    BY <1>1 DEF CreateSpace, path
  <2> QED BY <1>0, <2>1, <2>2 DEF TreeTypes, SpaceRow
<1>2. ASSUME NEW n \in Node, CreateCommits(n) PROVE TreeTypes'
  BY <1>0, <1>2 DEF CreateCommits, TreeTypes, SpaceRow
<1>3. ASSUME NEW n \in Node, BeginDeleteSpace(n) PROVE TreeTypes'
  BY <1>0, <1>3 DEF BeginDeleteSpace, TreeTypes
<1>4. ASSUME NEW s \in Node, DeleteSubtree(s) PROVE TreeTypes'
  BY <1>0, <1>4 DEF DeleteSubtree, TreeTypes, SpaceRow
<1>5. CASE UNCHANGED <<spaceTree, emptied>>
  BY <1>0, <1>5 DEF TreeTypes
<1> QED
  BY <1>1, <1>2, <1>3, <1>4, <1>5 DEF SpacesNext, spacesVars, RegisterDoc, CommitDoc,
     DeleteRegisteredDoc, ReplaceAcl, AclCommits, AclRollsBack

LEMMA DocTypesStep ==
    ASSUME SpacesTypeOK, [SpacesNext]_spacesVars
    PROVE  DocTypes'
<1>0. DocTypes /\ AclTypes
  BY TypesInParts
<1>1. ASSUME NEW d \in SpaceDoc, NEW s \in Node, RegisterDoc(d, s) PROVE DocTypes'
  BY <1>0, <1>1 DEF RegisterDoc, DocTypes, DocEntry
<1>2. ASSUME NEW d \in SpaceDoc, NEW e \in SUBSET Accessor, CommitDoc(d, e) PROVE DocTypes'
  <2> DEFINE row == [docRow[d] EXCEPT !.state = "committed", !.acl = @ \union e]
  <2>1. docRow[d] \in DocEntry
    BY <1>0 DEF DocTypes
  <2>2. row \in DocEntry
    BY <2>1 DEF DocEntry
  <2>3. docRow' = [docRow EXCEPT ![d] = row]
    BY <1>2 DEF CommitDoc
  <2> HIDE DEF row
  <2> QED BY <1>0, <2>2, <2>3 DEF DocTypes
<1>3. ASSUME NEW d \in SpaceDoc, DeleteRegisteredDoc(d) PROVE DocTypes'
  <2> DEFINE row == [docRow[d] EXCEPT !.state = "absent"]
  <2>1. docRow[d] \in DocEntry
    BY <1>0 DEF DocTypes
  <2>2. row \in DocEntry
    BY <2>1 DEF DocEntry
  <2>3. docRow' = [docRow EXCEPT ![d] = row]
    BY <1>3 DEF DeleteRegisteredDoc
  <2> HIDE DEF row
  <2> QED BY <1>0, <2>2, <2>3 DEF DocTypes
<1>4. ASSUME NEW u \in AclRequest, AclCommits(u) PROVE DocTypes'
  <2> DEFINE s == aclUpdate[u].space
             e == aclUpdate[u].entries
             Written(d) == IF d \in DocsIn(s) THEN [docRow[d] EXCEPT !.acl = Cascade(@, e)]
                           ELSE docRow[d]
  <2>1. \A acl \in SUBSET Accessor : Cascade(acl, e) \in SUBSET Accessor
    BY <1>0 DEF Cascade, AclTypes, Request, Accessor
  <2>2. docRow' = [d \in SpaceDoc |-> Written(d)]
    BY <1>4 DEF AclCommits
  <2> HIDE DEF s, e
  <2>3. ASSUME NEW d \in SpaceDoc PROVE Written(d) \in DocEntry
    <3>1. docRow[d] \in DocEntry
      BY <1>0 DEF DocTypes
    <3>2. Cascade(docRow[d].acl, e) \in SUBSET Accessor
      BY <2>1, <3>1 DEF DocEntry
    <3> QED BY <3>1, <3>2 DEF DocEntry
  <2> HIDE DEF Written
  <2> QED BY <2>2, <2>3 DEF DocTypes
<1>5. CASE UNCHANGED docRow
  BY <1>0, <1>5 DEF DocTypes
<1> QED
  BY <1>1, <1>2, <1>3, <1>4, <1>5 DEF SpacesNext, spacesVars, CreateSpace, CreateCommits,
     BeginDeleteSpace, DeleteSubtree, ReplaceAcl, AclRollsBack

LEMMA AclTypesStep ==
    ASSUME SpacesTypeOK, [SpacesNext]_spacesVars
    PROVE  AclTypes'
<1>0. AclTypes
  BY TypesInParts
<1>1. NoUpdate \in Request
  BY SpacesAssumption DEF NoUpdate, Request
<1>2. ASSUME NEW u \in AclRequest, NEW s \in Node, NEW e \in SUBSET Accessor,
             ReplaceAcl(u, s, e)
      PROVE  AclTypes'
  BY <1>0, <1>2 DEF ReplaceAcl, AclTypes, Request
<1>3. ASSUME NEW u \in AclRequest, AclCommits(u) PROVE AclTypes'
  <2> DEFINE s == aclUpdate[u].space
             taken == aclUpdate[u].rows
             Left(v) == IF v = u THEN NoUpdate
                        ELSE IF aclUpdate[v].open /\ aclUpdate[v].space = s
                        THEN [aclUpdate[v] EXCEPT !.rows = @ \ taken]
                        ELSE aclUpdate[v]
  <2>1. aclUpdate' = [v \in AclRequest |-> Left(v)]
    BY <1>3 DEF AclCommits
  <2>2. ASSUME NEW v \in AclRequest PROVE Left(v) \in Request
    <3>1. aclUpdate[v] \in Request
      BY <1>0 DEF AclTypes
    <3>2. [aclUpdate[v] EXCEPT !.rows = @ \ taken] \in Request
      BY <3>1 DEF Request
    <3> QED BY <1>1, <3>1, <3>2
  <2>3. aclUpdate' \in [AclRequest -> Request]
    <3> HIDE DEF Left
    <3> QED BY <2>1, <2>2
  <2>4. spaceAcl' \in [Node -> SUBSET Accessor]
    BY <1>0, <1>3 DEF AclCommits, AclTypes, Request
  <2> QED BY <1>0, <1>3, <2>3, <2>4 DEF AclCommits, AclTypes
<1>4. ASSUME NEW u \in AclRequest, AclRollsBack(u) PROVE AclTypes'
  BY <1>0, <1>1, <1>4 DEF AclRollsBack, AclTypes
<1>5. CASE UNCHANGED <<spaceAcl, aclUpdate, crossed>>
  BY <1>0, <1>5 DEF AclTypes
<1> QED
  BY <1>2, <1>3, <1>4, <1>5 DEF SpacesNext, spacesVars, CreateSpace, CreateCommits,
     BeginDeleteSpace, DeleteSubtree, RegisterDoc, CommitDoc, DeleteRegisteredDoc

LEMMA PastTypesStep ==
    ASSUME SpacesTypeOK, [SpacesNext]_spacesVars
    PROVE  PastTypes'
<1>0. PastTypes
  BY TypesInParts
<1> QED
  BY <1>0 DEF PastTypes, SpacesNext, spacesVars, CreateSpace, CreateCommits,
     BeginDeleteSpace, DeleteSubtree, RegisterDoc, CommitDoc, DeleteRegisteredDoc,
     ReplaceAcl, AclCommits, AclRollsBack, DocsIn

LEMMA SpacesTypeStep ==
    ASSUME SpacesTypeOK, [SpacesNext]_spacesVars
    PROVE  SpacesTypeOK'
<1>1. TreeTypes' /\ DocTypes' /\ AclTypes' /\ PastTypes'
  BY TreeTypesStep, DocTypesStep, AclTypesStep, PastTypesStep
<1> QED
  BY <1>1 DEF SpacesTypeOK, TreeTypes, DocTypes, AclTypes, PastTypes, SpaceRow, DocEntry,
     Request

-----------------------------------------------------------------------------
(* The tree and its documents                                              *)

\* The last element of an extended path, and what lies on it.
LEMMA PathEnds ==
    ASSUME NEW p \in Seq(Node), NEW m \in Node
    PROVE  /\ Append(p, m) # <<>>
           /\ Append(p, m)[Len(Append(p, m))] = m
           /\ \A s : (\E i \in DOMAIN Append(p, m) : Append(p, m)[i] = s)
                        <=> s = m \/ \E i \in DOMAIN p : p[i] = s
OBVIOUS

\* What lies under a space lies under whatever its parent lies under.
LEMMA UnderParent ==
    ASSUME SpacesTypeOK, PathInv, NEW n \in Node, NEW s \in Node,
           spaceTree[n].path # <<>>
    PROVE  Parent(n) \in Node /\ (Under(Parent(n), s) => Under(n, s))
<1>1. spaceTree[n].path \in Seq(Node) /\ Parent(n) \in Node
  BY DEF SpacesTypeOK, Parent
<1>2. spaceTree[n].path = Append(spaceTree[Parent(n)].path, Parent(n))
  BY DEF PathInv
<1>3. spaceTree[Parent(n)].path \in Seq(Node)
  BY <1>1 DEF SpacesTypeOK
<1>4. (\E i \in DOMAIN spaceTree[n].path : spaceTree[n].path[i] = s)
        <=> s = Parent(n) \/ \E i \in DOMAIN spaceTree[Parent(n)].path :
                                 spaceTree[Parent(n)].path[i] = s
  <2> DEFINE m == Parent(n)
             p == spaceTree[m].path
  <2>1. m \in Node /\ p \in Seq(Node) /\ spaceTree[n].path = Append(p, m)
    BY <1>1, <1>2, <1>3
  <2> HIDE DEF m, p
  <2>2. (\E i \in DOMAIN Append(p, m) : Append(p, m)[i] = s)
          <=> s = m \/ \E i \in DOMAIN p : p[i] = s
    BY <2>1, PathEnds
  <2> QED BY <2>1, <2>2 DEF m, p
<1> QED BY <1>1, <1>4 DEF Under

\* Steps that leave the tree and its deletions alone.
LEMMA TreeRests ==
    ASSUME TreeInv, UNCHANGED <<spaceTree, emptied>>, late \subseteq late',
           \A n \in Node : DocsIn(n)' \subseteq DocsIn(n)
    PROVE  TreeInv'
BY DEF TreeInv, PathInv, EmptyInv, ParentInv, HomeInv, Parent, Stored, Under

LEMMA TreeStep ==
    ASSUME SpacesTypeOK, TreeInv, [SpacesNext]_spacesVars
    PROVE  TreeInv'
<1>1. ASSUME NEW n \in Node, NEW p \in Node, CreateSpace(n, p) PROVE TreeInv'
  <2> DEFINE path == Append(spaceTree[p].path, p)
  <2>1. /\ spaceTree' = [spaceTree EXCEPT ![n] = [state |-> "creating", path |-> path]]
        /\ spaceTree[n].state = "absent" /\ spaceTree[p].state = "stored"
        /\ UNCHANGED <<emptied, docRow, late>>
    BY <1>1 DEF CreateSpace, Stored
  <2>2. path # <<>> /\ path[Len(path)] = p
    BY PathEnds DEF SpacesTypeOK
  <2> HIDE DEF path
  <2>3. spaceTree'[n] = [state |-> "creating", path |-> path]
        /\ \A m \in Node \ {n} : spaceTree'[m] = spaceTree[m]
    BY <2>1 DEF SpacesTypeOK
  <2>4. \A m \in Node : /\ Stored(m)' <=> Stored(m)
                        /\ DocsIn(m)' = DocsIn(m)
                        /\ Stored(m) => \A s \in Node : Under(m, s)' <=> Under(m, s)
    BY <2>1, <2>3 DEF Stored, DocsIn, Under
  <2>5. \A m \in Node \ {n} : Parent(m)' = Parent(m)
    BY <2>3 DEF Parent
  <2>6. Parent(n)' = p /\ p # n
    BY <2>1, <2>2, <2>3 DEF Parent
  <2>7. PathInv'
    <3> SUFFICES ASSUME NEW m \in Node, spaceTree'[m].path # <<>>
                 PROVE  /\ spaceTree'[Parent(m)'].state \in {"stored", "gone"}
                        /\ spaceTree'[m].path = Append(spaceTree'[Parent(m)'].path, Parent(m)')
      BY DEF PathInv
    <3>1. CASE m = n
      BY <3>1, <2>1, <2>3, <2>6 DEF path
    <3>2. CASE m # n
      <4>1. spaceTree[m].path # <<>> /\ spaceTree[m].path \in Seq(Node)
        BY <3>2, <2>3 DEF SpacesTypeOK
      <4>2. Parent(m) \in Node /\ Parent(m) # n
        <5>1. Parent(m) \in Node
          BY <4>1 DEF Parent
        <5>2. spaceTree[Parent(m)].state # "absent"
          BY <4>1 DEF TreeInv, PathInv
        <5> QED BY <5>1, <5>2, <2>1
      <4> QED BY <3>2, <4>1, <4>2, <2>3, <2>5 DEF TreeInv, PathInv
    <3> QED BY <3>1, <3>2
  <2>8. EmptyInv'
    BY <2>1, <2>4 DEF TreeInv, EmptyInv, SpacesTypeOK
  <2>9. ParentInv'
    <3> SUFFICES ASSUME NEW m \in Node, Stored(m)', spaceTree'[m].path # <<>>, m \notin late'
                 PROVE  Stored(Parent(m))'
      BY DEF ParentInv
    <3>1. m # n
      BY <2>3 DEF Stored
    <3>2. Stored(m) /\ spaceTree[m].path # <<>> /\ spaceTree[m].path \in Seq(Node)
      BY <3>1, <2>3 DEF Stored, SpacesTypeOK
    <3>3. Stored(Parent(m)) /\ Parent(m) \in Node
      BY <3>2, <2>1 DEF TreeInv, ParentInv, Parent
    <3> QED BY <3>1, <3>3, <2>1, <2>3, <2>5 DEF Stored
  <2>10. HomeInv'
    BY <2>1, <2>4 DEF TreeInv, HomeInv
  <2> QED BY <2>7, <2>8, <2>9, <2>10 DEF TreeInv
<1>2. ASSUME NEW n \in Node, CreateCommits(n) PROVE TreeInv'
  <2>1. /\ spaceTree[n].state = "creating"
        /\ \A m \in Node : /\ spaceTree'[m].path = spaceTree[m].path
                           /\ m # n => spaceTree'[m] = spaceTree[m]
        /\ spaceTree'[n].state = "stored"
        /\ UNCHANGED <<emptied, docRow>>
        /\ late' = IF Stored(Parent(n)) THEN late ELSE late \union {n}
    BY <1>2 DEF CreateCommits, SpacesTypeOK
  <2>2. \A m \in Node : /\ Parent(m)' = Parent(m) /\ DocsIn(m)' = DocsIn(m)
                        /\ \A s \in Node : Under(m, s)' <=> Under(m, s)
                        /\ Stored(m) => Stored(m)'
                        /\ m # n => (Stored(m)' <=> Stored(m))
    BY <2>1 DEF Parent, DocsIn, Under, Stored
  <2>3. DocsIn(n) \subseteq late
    BY <2>1 DEF TreeInv, HomeInv, Stored
  <2>4. \A m \in Node : spaceTree[m].path # <<>> => Parent(m) \in Node
    BY DEF SpacesTypeOK, Parent
  <2>5. PathInv'
    <3> SUFFICES ASSUME NEW m \in Node, spaceTree[m].path # <<>>
                 PROVE  /\ spaceTree'[Parent(m)].state \in {"stored", "gone"}
                        /\ spaceTree'[m].path = Append(spaceTree'[Parent(m)].path, Parent(m))
      BY <2>1, <2>2 DEF PathInv
    <3>1. /\ Parent(m) \in Node /\ spaceTree[Parent(m)].state \in {"stored", "gone"}
          /\ spaceTree[m].path = Append(spaceTree[Parent(m)].path, Parent(m))
      BY <2>4 DEF TreeInv, PathInv
    <3>2. Parent(m) # n
      BY <2>1, <3>1
    <3> QED BY <2>1, <3>1, <3>2
  <2>6. EmptyInv'
    <3> SUFFICES ASSUME NEW s \in emptied, NEW m \in Node, Stored(m)', Under(m, s)
                 PROVE  DocsIn(m) \subseteq late
      BY <2>1, <2>2 DEF EmptyInv, SpacesTypeOK
    <3>1. CASE m = n
      BY <3>1, <2>3
    <3>2. CASE m # n
      BY <3>2, <2>2 DEF TreeInv, EmptyInv
    <3> QED BY <3>1, <3>2
  <2>7. ParentInv'
    BY <2>1, <2>2, <2>4 DEF TreeInv, ParentInv, Stored
  <2>8. HomeInv'
    BY <2>1, <2>2 DEF TreeInv, HomeInv
  <2> QED BY <2>5, <2>6, <2>7, <2>8 DEF TreeInv
<1>3. ASSUME NEW s \in Node, BeginDeleteSpace(s) PROVE TreeInv'
  <2>1. EmptyInv'
    <3>1. \A n \in Node : Stored(n) /\ Under(n, s) => DocsIn(n) = {}
      BY <1>3 DEF BeginDeleteSpace, DocsInSubtree
    <3> QED BY <1>3, <3>1 DEF BeginDeleteSpace, TreeInv, EmptyInv, Stored, Under, DocsIn
  <2> QED BY <1>3, <2>1 DEF BeginDeleteSpace, TreeInv, PathInv, ParentInv, HomeInv,
                            Parent, Stored, DocsIn
<1>4. ASSUME NEW s \in Node, DeleteSubtree(s) PROVE TreeInv'
  <2>1. /\ s \in emptied /\ emptied' \subseteq emptied /\ UNCHANGED <<docRow, late>>
        /\ \A m \in Node : /\ spaceTree'[m].path = spaceTree[m].path
                           /\ spaceTree'[m].state = IF Stored(m) /\ Under(m, s) THEN "gone"
                                                    ELSE spaceTree[m].state
    BY <1>4 DEF DeleteSubtree, SpacesTypeOK
  <2>2. \A m \in Node : /\ Parent(m)' = Parent(m) /\ DocsIn(m)' = DocsIn(m)
                        /\ \A r \in Node : Under(m, r)' <=> Under(m, r)
                        /\ Stored(m)' <=> Stored(m) /\ ~Under(m, s)
    BY <2>1 DEF Parent, DocsIn, Under, Stored
  <2>3. \A m \in Node : spaceTree[m].path # <<>> =>
              Parent(m) \in Node /\ (Under(Parent(m), s) => Under(m, s))
    BY UnderParent DEF TreeInv
  <2>4. PathInv'
    <3> SUFFICES ASSUME NEW m \in Node, spaceTree[m].path # <<>>
                 PROVE  /\ spaceTree'[Parent(m)].state \in {"stored", "gone"}
                        /\ spaceTree'[m].path = Append(spaceTree'[Parent(m)].path, Parent(m))
      BY <2>1, <2>2 DEF PathInv
    <3>1. /\ Parent(m) \in Node /\ spaceTree[Parent(m)].state \in {"stored", "gone"}
          /\ spaceTree[m].path = Append(spaceTree[Parent(m)].path, Parent(m))
      BY <2>3 DEF TreeInv, PathInv
    <3> QED BY <3>1, <2>1
  <2>5. EmptyInv'
    BY <2>1, <2>2 DEF TreeInv, EmptyInv, SpacesTypeOK
  <2>6. ParentInv'
    BY <2>1, <2>2, <2>3 DEF TreeInv, ParentInv, Stored
  <2>7. HomeInv'
    BY <2>1, <2>2 DEF TreeInv, HomeInv, EmptyInv
  <2> QED BY <2>4, <2>5, <2>6, <2>7 DEF TreeInv
<1>5. ASSUME NEW d \in SpaceDoc, NEW s \in Node, RegisterDoc(d, s) PROVE TreeInv'
  <2>1. /\ UNCHANGED <<spaceTree, emptied>> /\ late \subseteq late'
        /\ \/ Stored(s) /\ (\A r \in emptied : ~Under(s, r))
           \/ d \in late'
        /\ \A n \in Node : DocsIn(n)' \subseteq DocsIn(n) \union (IF n = s THEN {d} ELSE {})
    BY <1>5 DEF RegisterDoc, SpacesTypeOK, DocsIn
  <2>2. \A m \in Node : /\ Parent(m)' = Parent(m) /\ (Stored(m)' <=> Stored(m))
                        /\ \A r \in Node : Under(m, r)' <=> Under(m, r)
    BY <2>1 DEF Parent, Stored, Under
  <2>3. PathInv'
    BY <2>1, <2>2 DEF TreeInv, PathInv
  <2>4. ParentInv'
    <3> SUFFICES ASSUME NEW m \in Node, Stored(m), spaceTree[m].path # <<>>, m \notin late'
                 PROVE  Stored(Parent(m))
      BY <2>1, <2>2 DEF ParentInv, Stored, Parent
    <3> QED BY <2>1 DEF TreeInv, ParentInv
  <2>5. EmptyInv'
    <3> SUFFICES ASSUME NEW r \in emptied, NEW m \in Node, Stored(m), Under(m, r)
                 PROVE  DocsIn(m)' \subseteq late'
      BY <2>1, <2>2 DEF EmptyInv, SpacesTypeOK
    <3>1. DocsIn(m) \subseteq late
      BY DEF TreeInv, EmptyInv
    <3> QED BY <2>1, <3>1
  <2>6. HomeInv'
    <3> SUFFICES ASSUME NEW m \in Node, NEW x \in DocsIn(m)' PROVE Stored(m) \/ x \in late'
      BY <2>1, <2>2 DEF HomeInv
    <3> QED BY <2>1 DEF TreeInv, HomeInv
  <2> QED BY <2>3, <2>4, <2>5, <2>6 DEF TreeInv
<1>6. ASSUME NEW d \in SpaceDoc, NEW e \in SUBSET Accessor, CommitDoc(d, e) PROVE TreeInv'
  <2>1. \A n \in Node : DocsIn(n)' \subseteq DocsIn(n)
    BY <1>6 DEF CommitDoc, SpacesTypeOK, DocsIn
  <2> QED BY <1>6, <2>1, TreeRests DEF CommitDoc
<1>7. ASSUME NEW d \in SpaceDoc, DeleteRegisteredDoc(d) PROVE TreeInv'
  <2>1. \A n \in Node : DocsIn(n)' \subseteq DocsIn(n)
    BY <1>7 DEF DeleteRegisteredDoc, SpacesTypeOK, DocsIn
  <2> QED BY <1>7, <2>1, TreeRests DEF DeleteRegisteredDoc
<1>8. ASSUME NEW u \in AclRequest, NEW s \in Node, NEW e \in SUBSET Accessor,
             ReplaceAcl(u, s, e)
      PROVE  TreeInv'
  BY <1>8, TreeRests DEF ReplaceAcl, DocsIn
<1>9. ASSUME NEW u \in AclRequest, AclCommits(u) PROVE TreeInv'
  <2>1. \A n \in Node : DocsIn(n)' \subseteq DocsIn(n)
    BY <1>9 DEF AclCommits, SpacesTypeOK, DocsIn
  <2> QED BY <1>9, <2>1, TreeRests DEF AclCommits
<1>10. ASSUME NEW u \in AclRequest, AclRollsBack(u) PROVE TreeInv'
  BY <1>10, TreeRests DEF AclRollsBack, DocsIn
<1>11. CASE UNCHANGED spacesVars
  BY <1>11, TreeRests DEF spacesVars, DocsIn
<1> QED
  BY <1>1, <1>2, <1>3, <1>4, <1>5, <1>6, <1>7, <1>8, <1>9, <1>10, <1>11 DEF SpacesNext

-----------------------------------------------------------------------------
(* The access lists                                                        *)

\* Steps of the tree: neither lists nor documents change.
LEMMA AclRests ==
    ASSUME AclInv, UNCHANGED <<docRow, spaceAcl, aclUpdate, reached, crossed>>
    PROVE  AclInv'
BY DEF AclInv, AloneInv, AgreeInv, OpenUpdates, DocsIn

\* Steps of a document that takes it out of reach, or finds it there.
LEMMA AclOfDocument ==
    ASSUME AclInv, UNCHANGED <<spaceAcl, aclUpdate, crossed>>, NEW d \in SpaceDoc,
           \A c \in SpaceDoc \ {d} : docRow'[c] = docRow[c],
           reached' \subseteq reached \ {d}, reached \subseteq SpaceDoc
    PROVE  AclInv'
BY DEF AclInv, AloneInv, AgreeInv, OpenUpdates, DocsIn

LEMMA AclStep ==
    ASSUME SpacesTypeOK, AclInv, [SpacesNext]_spacesVars
    PROVE  AclInv'
<1>1. ASSUME NEW n \in Node, NEW p \in Node, CreateSpace(n, p) PROVE AclInv'
  BY <1>1, AclRests DEF CreateSpace
<1>2. ASSUME NEW n \in Node, CreateCommits(n) PROVE AclInv'
  BY <1>2, AclRests DEF CreateCommits
<1>3. ASSUME NEW n \in Node, BeginDeleteSpace(n) PROVE AclInv'
  BY <1>3, AclRests DEF BeginDeleteSpace
<1>4. ASSUME NEW n \in Node, DeleteSubtree(n) PROVE AclInv'
  BY <1>4, AclRests DEF DeleteSubtree
<1>5. ASSUME NEW d \in SpaceDoc, NEW s \in Node, RegisterDoc(d, s) PROVE AclInv'
  BY <1>5, AclOfDocument DEF RegisterDoc, SpacesTypeOK, AclInv
<1>6. ASSUME NEW d \in SpaceDoc, NEW e \in SUBSET Accessor, CommitDoc(d, e) PROVE AclInv'
  BY <1>6, AclOfDocument DEF CommitDoc, SpacesTypeOK
<1>7. ASSUME NEW d \in SpaceDoc, DeleteRegisteredDoc(d) PROVE AclInv'
  BY <1>7, AclOfDocument DEF DeleteRegisteredDoc, SpacesTypeOK
<1>8. ASSUME NEW u \in AclRequest, NEW s \in Node, NEW e \in SUBSET Accessor,
             ReplaceAcl(u, s, e)
      PROVE  AclInv'
  <2>1. /\ ~aclUpdate[u].open
        /\ aclUpdate'[u] = [space |-> s, entries |-> e, rows |-> spaceAcl[s], open |-> TRUE]
        /\ \A v \in AclRequest \ {u} : aclUpdate'[v] = aclUpdate[v]
        /\ crossed' = IF OpenUpdates(s) = {} THEN crossed ELSE crossed \union {s}
        /\ UNCHANGED <<docRow, spaceAcl, reached>>
    BY <1>8 DEF ReplaceAcl, SpacesTypeOK
  <2>2. OpenUpdates(s)' = OpenUpdates(s) \union {u}
    BY <2>1 DEF OpenUpdates
  <2>3. \A t \in Node \ {s} : OpenUpdates(t)' = OpenUpdates(t) /\ u \notin OpenUpdates(t)
    BY <2>1 DEF OpenUpdates
  <2>4. AloneInv'
    <3> SUFFICES ASSUME NEW t \in Node \ crossed', NEW v \in OpenUpdates(t)'
                 PROVE  /\ aclUpdate'[v].rows = spaceAcl'[t]
                        /\ \A w \in OpenUpdates(t)' : w = v
      BY DEF AloneInv
    <3>1. CASE t = s
      BY <3>1, <2>1, <2>2
    <3>2. CASE t # s
      <4>1. v \in OpenUpdates(t) /\ v # u /\ v \in AclRequest
        BY <3>2, <2>3 DEF OpenUpdates
      <4> QED BY <3>2, <4>1, <2>1, <2>3 DEF AclInv, AloneInv
    <3> QED BY <3>1, <3>2
  <2>5. AgreeInv'
    BY <2>1 DEF AclInv, AgreeInv, DocsIn
  <2> QED BY <2>1, <2>4, <2>5 DEF AclInv
<1>9. ASSUME NEW u \in AclRequest, AclCommits(u) PROVE AclInv'
  <2> DEFINE s == aclUpdate[u].space
             e == aclUpdate[u].entries
             taken == aclUpdate[u].rows
  <2>1. /\ s \in Node /\ e \in SUBSET Accessor /\ u \in OpenUpdates(s)
        /\ UNCHANGED crossed /\ reached' = reached \union DocsIn(s)
        /\ spaceAcl'[s] = (spaceAcl[s] \ taken) \union e
        /\ \A t \in Node \ {s} : spaceAcl'[t] = spaceAcl[t]
    BY <1>9 DEF AclCommits, SpacesTypeOK, OpenUpdates
  <2>2. \A d \in SpaceDoc : /\ docRow'[d].state = docRow[d].state
                            /\ docRow'[d].space = docRow[d].space
                            /\ docRow'[d].acl = IF d \in DocsIn(s)
                                                THEN Cascade(docRow[d].acl, e)
                                                ELSE docRow[d].acl
    BY <1>9 DEF AclCommits, SpacesTypeOK
  <2>3. \A v \in AclRequest :
          aclUpdate'[v] = IF v = u THEN NoUpdate
                          ELSE IF aclUpdate[v].open /\ aclUpdate[v].space = s
                          THEN [aclUpdate[v] EXCEPT !.rows = @ \ taken]
                          ELSE aclUpdate[v]
    BY <1>9 DEF AclCommits
  <2> HIDE DEF s, e, taken
  <2>4. \A t \in Node : DocsIn(t)' = DocsIn(t)
    BY <2>2 DEF DocsIn
  <2>5. \A t \in Node : OpenUpdates(t)' = OpenUpdates(t) \ {u}
    <3>1. ~aclUpdate'[u].open
      <4>1. aclUpdate'[u] = NoUpdate
        BY <2>3
      <4> QED BY <4>1 DEF NoUpdate
    <3>2. \A v \in AclRequest \ {u} : /\ aclUpdate'[v].open = aclUpdate[v].open
                                      /\ aclUpdate'[v].space = aclUpdate[v].space
      BY <2>3 DEF SpacesTypeOK
    <3> QED BY <3>1, <3>2 DEF OpenUpdates
  <2>6. AloneInv'
    <3> SUFFICES ASSUME NEW t \in Node \ crossed, NEW v \in OpenUpdates(t) \ {u}
                 PROVE  /\ aclUpdate'[v].rows = spaceAcl'[t]
                        /\ \A w \in OpenUpdates(t) \ {u} : w = v
      BY <2>1, <2>5 DEF AloneInv
    <3>1. v \in AclRequest /\ aclUpdate[v].space = t /\ aclUpdate[v].rows = spaceAcl[t]
          /\ \A w \in OpenUpdates(t) : w = v
      BY DEF AclInv, AloneInv, OpenUpdates
    <3>2. t # s
      BY <2>1, <3>1
    <3> QED BY <3>1, <3>2, <2>1, <2>3
  <2>7. s \notin crossed => spaceAcl'[s] = e
    BY <2>1 DEF AclInv, AloneInv, taken
  <2>8. \A d \in DocsIn(s) : docRow'[d].acl \intersect Role = e \intersect Role
    <3> SUFFICES ASSUME NEW d \in DocsIn(s)
                 PROVE  docRow'[d].acl \intersect Role = e \intersect Role
      OBVIOUS
    <3>1. docRow'[d].acl = Cascade(docRow[d].acl, e)
      BY <2>2 DEF DocsIn
    <3> QED BY <3>1, SpacesAssumption DEF Cascade
  <2>9. AgreeInv'
    <3> SUFFICES ASSUME NEW t \in Node \ crossed, NEW d \in DocsIn(t) \intersect reached'
                 PROVE  docRow'[d].acl \intersect Role = spaceAcl'[t] \intersect Role
      BY <2>1, <2>4 DEF AgreeInv
    <3>1. CASE t = s
      BY <3>1, <2>7, <2>8
    <3>2. CASE t # s
      <4>1. d \in SpaceDoc /\ d \notin DocsIn(s) /\ d \in reached
        BY <3>2, <2>1 DEF DocsIn
      <4> QED BY <3>2, <4>1, <2>1, <2>2 DEF AclInv, AgreeInv
    <3> QED BY <3>1, <3>2
  <2>10. \A d \in reached' : docRow'[d].state # "absent"
    BY <2>1, <2>2 DEF AclInv, DocsIn, SpacesTypeOK
  <2> QED BY <2>6, <2>9, <2>10 DEF AclInv
<1>10. ASSUME NEW u \in AclRequest, AclRollsBack(u) PROVE AclInv'
  <2>1. /\ UNCHANGED <<docRow, spaceAcl, reached, crossed>>
        /\ \A t \in Node : OpenUpdates(t)' = OpenUpdates(t) \ {u}
        /\ \A v \in AclRequest \ {u} : aclUpdate'[v] = aclUpdate[v]
    BY <1>10 DEF AclRollsBack, OpenUpdates, NoUpdate, SpacesTypeOK
  <2>2. AloneInv'
    BY <2>1 DEF AclInv, AloneInv, OpenUpdates
  <2> QED BY <2>1, <2>2 DEF AclInv, AgreeInv, DocsIn
<1>11. CASE UNCHANGED spacesVars
  BY <1>11, AclRests DEF spacesVars
<1> QED
  BY <1>1, <1>2, <1>3, <1>4, <1>5, <1>6, <1>7, <1>8, <1>9, <1>10, <1>11 DEF SpacesNext

-----------------------------------------------------------------------------
(* Theorems                                                                *)

LEMMA SpacesInvInit ==
    ASSUME SpacesInit
    PROVE  SpacesInv
<1> USE SpacesAssumption DEF SpacesInit
<1>1. SpacesTypeOK
  BY DEF SpacesTypeOK, NoUpdate
<1>2. TreeInv
  BY DEF TreeInv, PathInv, EmptyInv, ParentInv, HomeInv, DocsIn
<1>3. AclInv
  BY DEF AclInv, AloneInv, AgreeInv, OpenUpdates, NoUpdate
<1> QED BY <1>1, <1>2, <1>3 DEF SpacesInv

LEMMA SpacesInvStep ==
    ASSUME SpacesInv, [SpacesNext]_spacesVars
    PROVE  SpacesInv'
BY SpacesTypeStep, TreeStep, AclStep DEF SpacesInv

\* Type correctness of the spaces, their documents and their access lists, and
\* the bound on the depth of the tree that createSpace keeps.
THEOREM SpaceTypes == SpacesSpec => []SpacesTypeOK
<1>1. SpacesInit => SpacesInv
  BY SpacesInvInit
<1>2. SpacesInv /\ [SpacesNext]_spacesVars => SpacesInv'
  BY SpacesInvStep
<1>3. SpacesInv => SpacesTypeOK
  BY DEF SpacesInv
<1> QED BY <1>1, <1>2, <1>3, PTL DEF SpacesSpec

\* deleteSpace leaves neither a space nor a document behind but those that came
\* after its count, and updateSpaceAcl leaves a space and the documents it has
\* reached with the same roles, unless two updates of the space crossed.
THEOREM SpacesStayWhole == SpacesSpec => []SpacesAreWhole
<1>1. SpacesInit => SpacesInv
  BY SpacesInvInit
<1>2. SpacesInv /\ [SpacesNext]_spacesVars => SpacesInv'
  BY SpacesInvStep
<1>3. SpacesInv => SpacesAreWhole
  BY DEF SpacesInv, TreeInv, ParentInv, HomeInv, AclInv, AgreeInv, SpacesAreWhole
<1> QED BY <1>1, <1>2, <1>3, PTL DEF SpacesSpec

-----------------------------------------------------------------------------
(* All the pages                                                           *)

\* The pages share no state: what is composed of them takes the steps of each.
LEMMA PartsOfTheConsoles ==
    Spec => /\ SkillSpec /\ AgentSpec /\ ModelSpec /\ QuerySpec /\ TraceSpec /\ BoardSpec
            /\ EvaluationSpec /\ SpaceFormsSpec /\ SpacesSpec
<1>1. Init => /\ SkillInit /\ AgentInit /\ ModelInit /\ QueryInit /\ TraceInit /\ BoardInit
              /\ EvaluationInit /\ SpaceFormsInit /\ SpacesInit
  BY DEF Init
<1>2. [Next]_vars => /\ [SkillNext]_skillVars /\ [AgentNext]_agentVars
                     /\ [ModelNext]_modelVars /\ [QueryNext]_queryVars
                     /\ [TraceNext]_traceVars /\ [BoardNext]_boardVars
                     /\ [EvaluationNext]_evaluationVars
                     /\ [SpaceFormsNext]_spaceFormVars /\ [SpacesNext]_spacesVars
  BY DEF Next, vars, pageVars, OnSkills, OnExperts, OnModels, OnQueries, OnTraces, OnBoard,
         OnEvaluation, OnSpaces, OnTree, OnAccess
<1> QED BY <1>1, <1>2, PTL DEF Spec, SkillSpec, AgentSpec, ModelSpec, QuerySpec, TraceSpec,
                               BoardSpec, EvaluationSpec, SpaceFormsSpec, SpacesSpec

\* A table of the monitor that is not loading answers what its controls ask, and
\* a trace is shown with the detail of its own that was asked for last, unless
\* an answer overtook another one (loadData, handleExpand and openTraceDrawer).
THEOREM MonitorStaysTrue == Spec => []MonitorAnswers
<1>1. RowsAnswerTheQuery /\ DetailsAreWanted => MonitorAnswers
  BY DEF MonitorAnswers
<1> QED BY <1>1, PartsOfTheConsoles, RowsStayTrue, DetailsStayWanted, PTL

\* Every variable of the administration keeps its type, and the tree of the spaces
\* its greatest depth, whichever of the pages is at work.
THEOREM ConsolePagesStayTyped == Spec => []ConsolePagesTypeOK
<1>1. Init => screen \in Screen
  BY DEF Init
<1>2. screen \in Screen /\ [Next]_vars => (screen \in Screen)'
  BY DEF Next, vars, Screen, OnSkills, OnExperts, OnModels, OnQueries, OnTraces, OnBoard,
         OnEvaluation, OnSpaces, OnTree, OnAccess
<1>3. ASSUME SkillInv PROVE SkillTypeOK
  <2>1. \A i \in Present :
           /\ items[i].id = i /\ items[i].source \in Source
           /\ items[i].status \in SkillStatus /\ items[i].enabled \in BOOLEAN
           /\ items[i].content \in Content
    BY <1>3 DEF SkillInv, ItemsInv, SkillItem, Present
  <2>2. selectedItem.id \in Skill \union {NoSkill} /\ editingItem.id \in Skill \union {NoSkill}
    BY <1>3, AbsentIsAnItem DEF SkillInv, CopiesInv, IsCopy
  <2> QED BY <1>3, <2>1, <2>2 DEF SkillInv, SkillSetsInv, SkillTypeOK
<1>4. /\ AgentInv => AgentTypeOK
      /\ ModelInv => ModelTypeOK
      /\ QueryInv => QueryTypeOK
      /\ TraceInv => TraceTypeOK
      /\ BoardInv => BoardTypeOK
      /\ EvaluationInv => EvaluationTypeOK
      /\ FormsInv => SpaceFormsTypeOK
  BY DEF AgentInv, ModelInv, QueryInv, TraceInv, BoardInv, EvaluationInv, GenerationInv,
         FormsInv
<1>5. Spec => [](screen \in Screen)
  BY <1>1, <1>2, PTL DEF Spec
<1>6. /\ SkillSpec => []SkillTypeOK
      /\ AgentSpec => []AgentTypeOK
      /\ ModelSpec => []ModelTypeOK
      /\ QuerySpec => []QueryTypeOK
  BY <1>3, <1>4, SkillsStart, SkillsGoOn, AgentsStart, AgentsGoOn, ModelsStart, ModelsGoOn,
     QueriesStart, QueriesGoOn, PTL DEF SkillSpec, AgentSpec, ModelSpec, QuerySpec
<1>7. /\ TraceSpec => []TraceTypeOK
      /\ BoardSpec => []BoardTypeOK
      /\ EvaluationSpec => []EvaluationTypeOK
      /\ SpaceFormsSpec => []SpaceFormsTypeOK
  BY <1>4, TracesStart, TracesGoOn, BoardStarts, BoardGoesOn, EvaluationStarts,
     EvaluationGoesOnSo, FormsStart, FormsGoOn, PTL
     DEF TraceSpec, BoardSpec, EvaluationSpec, SpaceFormsSpec
<1>8. /\ screen \in Screen /\ SkillTypeOK /\ AgentTypeOK /\ ModelTypeOK /\ QueryTypeOK
      /\ TraceTypeOK /\ BoardTypeOK /\ EvaluationTypeOK /\ SpaceFormsTypeOK /\ SpacesTypeOK
      => ConsolePagesTypeOK
  BY DEF ConsolePagesTypeOK
<1> QED BY <1>5, <1>6, <1>7, <1>8, SpaceTypes, PartsOfTheConsoles, PTL

\* What the pages promise is true of the whole, whichever of them is at work.
THEOREM ConsolePagesStayTrue ==
    Spec => [](/\ ReviewIsKept /\ AgentsAreGoverned /\ ModelPanelIsTrue /\ MonitorAnswers
               /\ CardIsWhereStored /\ EvaluationIsShown /\ FormsWriteTheirFields
               /\ SpacesAreWhole)
<1>1. Spec => /\ []ReviewIsKept /\ []AgentsAreGoverned /\ []ModelPanelIsTrue
              /\ []MonitorAnswers
  BY PartsOfTheConsoles, ReviewStaysKept, AgentsStayGoverned, PanelStaysTrue,
     MonitorStaysTrue
<1>2. Spec => /\ []CardIsWhereStored /\ []EvaluationIsShown /\ []FormsWriteTheirFields
              /\ []SpacesAreWhole
  BY PartsOfTheConsoles, CardsStandWhereStored, EvaluationStaysTrue, FormsStayTheirs,
     SpacesStayWhole
<1> QED BY <1>1, <1>2, PTL
=============================================================================
