------------------------------ MODULE SpaceForms ------------------------------
(***************************************************************************)
(* The two forms of a knowledge space: the three steps that create one     *)
(* (spaces/create) and the page that shows one and edits it (spaces/[id]). *)
(* A tab shows one of them or the list; its calls outlive the page.        *)
(***************************************************************************)
EXTENDS Naturals, FiniteSets

CONSTANTS
    KnowledgeSpace,     \* identifiers; the first ones exist from the start
    ExistingSpace,
    FormTab,
    MaxLeft             \* bound: writes on their way whose page was left

ASSUME SpaceFormsAssumption == ExistingSpace \subseteq KnowledgeSpace

VARIABLES
    storedSpaces,     \* as ingest-service stores them
    shownForm,  \* the page of each tab
    writes      \* the writes that are not answered yet

spaceFormVars == <<storedSpaces, shownForm, writes>>

\* name: a required field; rules: the four fields that start with a value;
\* parsing: smartParseEnabled and the description.  Values: "blank" is none,
\* "initial" what a new form shows, "entered" what somebody put there.
FormField   == {"name", "rules", "parsing"}
NamedFields == {"name", "rules"}
Entered     == {"entered"}
FormValues  == [FormField -> Entered \union {"blank", "initial"}]

NoSuchSpace == [f \in FormField |-> "blank"]
InitialForm == [f \in FormField |-> IF f = "name" THEN "blank" ELSE "initial"]
Exists(s)   == storedSpaces[s] # NoSuchSpace

\* What a tab shows: form holds the fields, also those that no item shows.
\* loading: the button that saves is blocked.  leaving: the router is on its
\* way to the list, the page still works.
FormPages == [page: {"list", "create", "detail"}, of: SUBSET KnowledgeSpace,
              form: FormValues, step: 0..2, editing: BOOLEAN,
              loading: BOOLEAN, leaving: BOOLEAN]
ListPage  == [page |-> "list", of |-> {}, form |-> NoSuchSpace, step |-> 0,
              editing |-> FALSE, loading |-> FALSE, leaving |-> FALSE]

\* A write: values is what is sent, filled the whole form when it was sent,
\* live says that its page is still open.
Writes == [tab: FormTab, into: SUBSET KnowledgeSpace, values: FormValues, filled: FormValues,
           live: BOOLEAN, state: {"sent", "stored", "refused"}, made: SUBSET KnowledgeSpace]

SpaceFormsTypeOK ==
    /\ storedSpaces \in [KnowledgeSpace -> FormValues]
    /\ shownForm \in [FormTab -> FormPages]
    /\ writes \in SUBSET Writes

SpaceFormsInit ==
    /\ storedSpaces = [s \in KnowledgeSpace |->
                    IF s \in ExistingSpace THEN [f \in FormField |-> "initial"] ELSE NoSuchSpace]
    /\ shownForm = [t \in FormTab |-> ListPage]
    /\ writes = {}

-----------------------------------------------------------------------------
(* Pages come and go                                                       *)

Orphaned(t) == {IF w.tab = t THEN [w EXCEPT !.live = FALSE] ELSE w : w \in writes}

Show(t, view) ==
    /\ shownForm' = [shownForm EXCEPT ![t] = view]
    /\ writes' = Orphaned(t)
    /\ UNCHANGED storedSpaces

OpenCreateForm(t) ==
    /\ shownForm[t].page = "list"
    /\ Show(t, [ListPage EXCEPT !.page = "create", !.form = InitialForm])

\* The space is read into the page and into the form; a page whose read fails
\* stays empty, as good as the list.
OpenSpaceDetail(t, s) ==
    /\ shownForm[t].page = "list" /\ Exists(s)
    /\ Show(t, [ListPage EXCEPT !.page = "detail", !.of = {s}, !.form = storedSpaces[s]])

\* Cancel, back, another page of the portal, or the router arriving.
LeaveForm(t) ==
    /\ shownForm[t].page # "list"
    /\ Show(t, ListPage)

-----------------------------------------------------------------------------
(* Filling in                                                              *)

\* The fields of the step that is shown, or all of them while a space is edited.
ItemsOf(v) ==
    CASE v.page = "detail"                -> IF v.editing THEN FormField ELSE {}
      [] v.page = "create" /\ v.step = 0  -> {"name", "parsing"}
      [] v.page = "create" /\ v.step = 1  -> {"parsing"}
      [] v.page = "create" /\ v.step = 2  -> {"rules"}
      [] OTHER                            -> {}

EnterValue(t, f, v) ==
    /\ f \in ItemsOf(shownForm[t])
    /\ v \in IF f = "name" THEN Entered \union {"blank"} ELSE Entered
    /\ shownForm' = [shownForm EXCEPT ![t].form[f] = v]
    /\ UNCHANGED <<storedSpaces, writes>>

GoToStep(t, n) ==
    /\ shownForm[t].page = "create"
    /\ n \in {shownForm[t].step - 1, shownForm[t].step + 1} \intersect 0..2
    /\ shownForm' = [shownForm EXCEPT ![t].step = n]
    /\ UNCHANGED <<storedSpaces, writes>>

\* Editing is begun, or cancelled: the fields keep what was entered.
ToggleEditing(t) ==
    /\ shownForm[t].page = "detail"
    /\ shownForm' = [shownForm EXCEPT ![t].editing = ~@]
    /\ UNCHANGED <<storedSpaces, writes>>

-----------------------------------------------------------------------------
(* Saving                                                                  *)

Send(t, values) ==
    /\ Cardinality({w \in writes : ~w.live}) <= MaxLeft
    /\ shownForm' = [shownForm EXCEPT ![t].loading = TRUE]
    /\ writes' = writes \union
           {[tab |-> t, into |-> shownForm[t].of, values |-> values,
             filled |-> shownForm[t].form, live |-> TRUE, state |-> "sent", made |-> {}]}
    /\ UNCHANGED storedSpaces

\* A button that is not blocked while the page saves.
NotBlocked(t) ==
    LET v == shownForm[t] IN
    /\ v.page = "create" /\ v.step = 2
    /\ Send(t, [f \in FormField |-> IF f \in NamedFields THEN v.form[f] ELSE "initial"])

\* The last step creates: the named fields are sent, the rules of the items
\* that are not shown (the name is required) are not checked.
SubmitNewSpace(t) ==
    LET v == shownForm[t] IN
    /\ v.page = "create" /\ v.step = 2 /\ ~v.loading
    /\ Send(t, [f \in FormField |-> IF f \in NamedFields THEN v.form[f] ELSE "initial"])

\* An edited space: every field is on the page and is sent.
SubmitEditedSpace(t) ==
    LET v == shownForm[t] IN
    /\ v.page = "detail" /\ v.editing /\ ~v.loading
    /\ v.form["name"] # "blank"
    /\ Send(t, v.form)

\* ingest-service: a space without a name is refused (400); an update writes
\* every field it is given.
WriteSpace(w) ==
    /\ w.state = "sent"
    /\ \/ /\ w.values["name"] # "blank"
          /\ \E s \in IF w.into = {} THEN {x \in KnowledgeSpace : ~Exists(x)} ELSE w.into :
                /\ storedSpaces' = [storedSpaces EXCEPT ![s] = w.values]
                /\ writes' = (writes \ {w}) \union {[w EXCEPT !.state = "stored", !.made = {s}]}
       \/ /\ writes' = (writes \ {w}) \union {[w EXCEPT !.state = "refused"]}
          /\ UNCHANGED storedSpaces
    /\ UNCHANGED shownForm

\* Done: the router is sent to the list, whatever page the tab shows by then.
WriteSucceeds(w) ==
    LET v == shownForm[w.tab] IN
    /\ w.state = "stored"
    /\ shownForm' = [shownForm EXCEPT ![w.tab] =
           IF w.live THEN [v EXCEPT !.loading = FALSE, !.editing = FALSE, !.leaving = TRUE]
           ELSE [v EXCEPT !.leaving = (v.leaving \/ v.page # "list")]]
    /\ writes' = writes \ {w} /\ UNCHANGED storedSpaces

WriteFails(w) ==
    /\ w.state = "refused"
    /\ shownForm' = [shownForm EXCEPT ![w.tab] =
           IF w.live THEN [@ EXCEPT !.loading = FALSE] ELSE @]
    /\ writes' = writes \ {w} /\ UNCHANGED storedSpaces

SpaceFormsNext ==
    \/ \E t \in FormTab :
          \/ OpenCreateForm(t) \/ LeaveForm(t) \/ ToggleEditing(t)
          \/ SubmitNewSpace(t) \/ SubmitEditedSpace(t)
          \/ \E s \in KnowledgeSpace : OpenSpaceDetail(t, s)
          \/ \E n \in 0..2 : GoToStep(t, n)
          \/ \E f \in FormField, v \in Entered \union {"blank"} : EnterValue(t, f, v)
    \/ \E w \in writes : WriteSpace(w) \/ WriteSucceeds(w) \/ WriteFails(w)

SpaceFormsSpec == SpaceFormsInit /\ [][SpaceFormsNext]_spaceFormVars

-----------------------------------------------------------------------------
(* Properties                                                              *)

\* A step that stores a new space stores the fields of its three steps as they
\* were filled in when the creation was sent, the ones whose items were not on
\* the page any more included; a saved space is the page's, and its fields are
\* the form's, not what was entered while the write was on its way.
NamedFieldsAreKept ==
    \A w \in writes : w.state = "stored" =>
        /\ \A f \in NamedFields : w.values[f] = w.filled[f]
        /\ w.into # {} => w.made = w.into /\ w.values = w.filled

\* A page has at most one write on its way, and its button is blocked while it
\* has: no space is created twice from one form before the first is answered.
OneWritePerPage ==
    \A t \in FormTab :
        LET own == {w \in writes : w.tab = t /\ w.live}
        IN  Cardinality(own) <= 1 /\ (shownForm[t].loading <=> own # {})

\* Each form writes its own fields, once.
FormsWriteTheirFields == NamedFieldsAreKept /\ OneWritePerPage

\* A new space is what was filled in on all three steps (create/page.tsx: the
\* switch of the second step, the description of the first).
CreatedIsAsFilled ==
    \A w \in writes : w.state = "stored" => w.values = w.filled
=============================================================================
