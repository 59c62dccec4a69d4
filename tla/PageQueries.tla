------------------------------ MODULE PageQueries ------------------------------
(***************************************************************************)
(* The tables of the portal that are fetched for a filter: the tabs of the *)
(* monitor page, the list of data sets and the tree of spaces.  They share *)
(* no state, so one of them, the view, is looked at.  Nothing cancels a    *)
(* fetch or compares its answer with the filter of the moment; answers     *)
(* arrive in any order.                                                    *)
(***************************************************************************)
EXTENDS Naturals, Sequences, SequencesExt

CONSTANTS Filter,       \* the values of a filter
          MaxFetches    \* bound on the fetches of a view under way

ASSUME PageQueriesAssumption == MaxFetches \in Nat \ {0}

VARIABLES
    queryView,
    shown,        \* the tab is the active one
    query,        \* what the controls ask for
    rows,         \* the query the shown rows are the answer to
    busy,         \* the loading flag
    fetches,      \* the fetches under way, in the order they were begun
    deletes,      \* whether a deletion is under way
    trouble       \* history: the last answer was overtaken, or an error

queryVars == <<queryView, shown, query, rows, busy, fetches, deletes, trouble>>

Table   == {"traces", "feedback", "badcases", "operations"}
MonitorTab     == Table \union {"dashboard", "kanban"}
Listing == {"datasets", "spaces"}

\* The tenant is known only after the page has been drawn with another one.
Query == [filter : Filter, page : {0, 1}, tenantKnown : BOOLEAN]
Empty == [filter |-> "none", page |-> 0, tenantKnown |-> FALSE]

QueryTypeOK ==
    /\ queryView \in MonitorTab \union Listing
    /\ {shown, busy, deletes, trouble} \subseteq BOOLEAN
    /\ query \in Query /\ rows \in Query \union {Empty}
    /\ fetches \in Seq([query : Query, overtaken : BOOLEAN])
    /\ Len(fetches) =< MaxFetches

\* The effects of the traces and of the feedback are written down twice.
Effects == IF queryView \in {"traces", "feedback"} THEN 2 ELSE 1

Begun(q, n) == [i \in 1 .. n |-> [query |-> q, overtaken |-> FALSE]]

Fetch(q, n) ==
    /\ Len(fetches) + n =< MaxFetches
    /\ fetches' = fetches \o Begun(q, n)
    /\ busy' = TRUE

QueryInit ==
    /\ queryView \in MonitorTab \union Listing
    /\ shown = (queryView \in Listing \union {"dashboard"})
    /\ query \in {q \in Query : q.page = 0 /\ ~q.tenantKnown}
    /\ rows = Empty /\ deletes = FALSE /\ trouble = FALSE
    /\ fetches = IF shown THEN Begun(query, 1) ELSE <<>>
    /\ busy = shown

-----------------------------------------------------------------------------
(* The controls                                                            *)

\* An effect follows a change of the query or of the tab, busy or not.
Effect(q) == IF shown' THEN Fetch(q, Effects) ELSE UNCHANGED <<fetches, busy>>

TenantKnown ==
    /\ ~query.tenantKnown /\ queryView # "spaces"
    /\ query' = [query EXCEPT !.tenantKnown = TRUE]
    /\ UNCHANGED <<queryView, shown, rows, deletes, trouble>>
    /\ Effect(query')

\* Leaving the dashboard or the board removes the component, and what it was
\* waiting for.
LeaveTab ==
    /\ queryView \in MonitorTab /\ shown /\ shown' = FALSE
    /\ IF queryView \notin Table
       THEN rows' = Empty /\ busy' = FALSE /\ fetches' = <<>> /\ trouble' = FALSE
       ELSE UNCHANGED <<rows, busy, fetches, trouble>>
    /\ UNCHANGED <<queryView, query, deletes>>

EnterTab ==
    /\ queryView \in MonitorTab /\ ~shown /\ shown' = TRUE
    /\ Fetch(query, Effects)
    /\ UNCHANGED <<queryView, query, rows, deletes, trouble>>

\* The filter is missing from the effect's dependencies.
ForgetsTheEffect(f) ==
    /\ shown /\ f # query.filter
    /\ query' = [query EXCEPT !.filter = f, !.page = 0]
    /\ UNCHANGED <<queryView, shown, rows, busy, fetches, deletes, trouble>>

\* The filters stay usable during a fetch.
SetFilter(f) ==
    /\ shown /\ f # query.filter
    /\ query' = [query EXCEPT !.filter = f, !.page = 0]
    /\ Fetch(query', Effects)
    /\ UNCHANGED <<queryView, shown, rows, deletes, trouble>>

SetPeriod(f)           == queryView = "dashboard"  /\ SetFilter(f)
SetTraceFilter(f)      == queryView = "traces"     /\ SetFilter(f)
SetFeedbackFilter(f)   == queryView = "feedback"   /\ SetFilter(f)
SetBadcaseFilter(f)    == queryView = "badcases"   /\ SetFilter(f)
SetKanbanFilter(f)     == queryView = "kanban"     /\ SetFilter(f)
SetOpsFilter(f)        == queryView = "operations" /\ SetFilter(f)

\* A table that is loading does not take clicks.
SetPage(p) ==
    /\ shown /\ ~busy /\ p # query.page
    /\ query' = [query EXCEPT !.page = p]
    /\ Fetch(query', Effects)
    /\ UNCHANGED <<queryView, shown, rows, deletes, trouble>>

SetTracePage(p)    == queryView = "traces"     /\ SetPage(p)
SetFeedbackPage(p) == queryView = "feedback"   /\ SetPage(p)
SetBadcasePage(p)  == queryView = "badcases"   /\ SetPage(p)
SetOpsPage(p)      == queryView = "operations" /\ SetPage(p)

\* The button is loading while the table is.
ReloadTable ==
    /\ queryView \in MonitorTab /\ shown /\ ~busy /\ Fetch(query, 1)
    /\ UNCHANGED <<queryView, shown, query, rows, deletes, trouble>>

\* A deletion that succeeds fetches the list again.
DeleteEntry ==
    /\ ~deletes /\ rows # Empty /\ deletes' = TRUE
    /\ UNCHANGED <<queryView, shown, query, rows, busy, fetches, trouble>>

DeleteDataset == queryView = "datasets" /\ DeleteEntry
DeleteSpace   == queryView = "spaces"   /\ DeleteEntry

EntryDeleted ==
    /\ deletes /\ deletes' = FALSE
    /\ \/ Fetch(query, 1)
       \/ UNCHANGED <<fetches, busy>>
    /\ UNCHANGED <<queryView, shown, query, rows, trouble>>

-----------------------------------------------------------------------------
(* The answers                                                             *)

\* The fetches before it are overtaken.
Taken(i) ==
    fetches' = RemoveAt([k \in DOMAIN fetches |->
                            IF k < i THEN [fetches[k] EXCEPT !.overtaken = TRUE]
                            ELSE fetches[k]], i)

\* Whichever fetch ends first takes the loading flag away.
FetchArrives(i) ==
    /\ Taken(i) /\ busy' = FALSE
    /\ rows' = fetches[i].query
    /\ trouble' = fetches[i].overtaken
    /\ UNCHANGED <<queryView, shown, query, deletes>>

FetchFails(i) ==
    /\ Taken(i) /\ busy' = FALSE /\ trouble' = TRUE
    /\ UNCHANGED <<queryView, shown, query, rows, deletes>>

FetchEnds == \E i \in DOMAIN fetches : FetchArrives(i) \/ FetchFails(i)

TracesAnswered     == queryView = "traces"     /\ FetchEnds
FeedbackAnswered   == queryView = "feedback"   /\ FetchEnds
BadcasesAnswered   == queryView = "badcases"   /\ FetchEnds
OperationsAnswered == queryView = "operations" /\ FetchEnds
MetricsAnswered    == queryView = "dashboard"  /\ FetchEnds
KanbanAnswered     == queryView = "kanban"     /\ FetchEnds
DatasetsAnswered   == queryView = "datasets"   /\ FetchEnds
SpacesAnswered     == queryView = "spaces"     /\ FetchEnds

QueryAnswered ==
    \/ TracesAnswered \/ FeedbackAnswered \/ BadcasesAnswered
    \/ OperationsAnswered \/ MetricsAnswered \/ KanbanAnswered
    \/ DatasetsAnswered \/ SpacesAnswered

QueryNext ==
    \/ TenantKnown \/ LeaveTab \/ EnterTab
    \/ \E f \in Filter :
          \/ SetPeriod(f) \/ SetTraceFilter(f) \/ SetFeedbackFilter(f)
          \/ SetBadcaseFilter(f) \/ SetKanbanFilter(f) \/ SetOpsFilter(f)
    \/ \E p \in {0, 1} :
          \/ SetTracePage(p) \/ SetFeedbackPage(p)
          \/ SetBadcasePage(p) \/ SetOpsPage(p)
    \/ ReloadTable \/ DeleteDataset \/ DeleteSpace \/ EntryDeleted
    \/ QueryAnswered

QuerySpec == QueryInit /\ [][QueryNext]_queryVars

-----------------------------------------------------------------------------
(* Properties                                                              *)

\* The rows answer the filter, the page and the tenant that are shown, unless
\* that fetch is still under way, or the last answer was an error or belonged
\* to a fetch that a later one had overtaken.
RowsAnswerTheQuery ==
    shown /\ rows # query =>
        trouble \/ \E i \in DOMAIN fetches : fetches[i].query = query
=============================================================================
