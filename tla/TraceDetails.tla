----------------------------- MODULE TraceDetails -----------------------------
(***************************************************************************)
(* The details of a request's trace: the rows that unfold in the table of  *)
(* the monitor page, and the drawer of the monitor page and of the         *)
(* question page.  Both fetch the detail and neither looks, when it        *)
(* arrives, at what the user did in the meantime.                          *)
(***************************************************************************)
EXTENDS Naturals, FiniteSets

CONSTANTS Trace, NoTrace,
          Lookup       \* calls of getPipelineTrace; bounds those under way

ASSUME TraceDetailsAssumption == NoTrace \notin Trace

VARIABLES
    expandedTraceKeys,
    traceDetailCache,   \* the traces whose detail, or failure, is kept
    lookup,             \* the calls: by whom, for which trace, newKeys
    wanted,             \* history: the rows the user has unfolded
    crossedRows,        \* history: a row was clicked during a fetch of a row
    traceDrawerOpen, detailTraceId, traceDetail, traceDetailLoading,
    crossedDrawer       \* history: the drawer was opened anew during a fetch

rowVars    == <<expandedTraceKeys, traceDetailCache, wanted, crossedRows>>
drawerVars == <<traceDrawerOpen, detailTraceId, traceDetail, traceDetailLoading,
                crossedDrawer>>
traceVars  == <<rowVars, lookup, drawerVars>>

NoLookup == [by |-> "none", trace |-> NoTrace, newKeys |-> {}]

TraceTypeOK ==
    /\ expandedTraceKeys \subseteq Trace /\ traceDetailCache \subseteq Trace
    /\ wanted \subseteq Trace
    /\ lookup \in [Lookup -> [by : {"none", "row", "drawer"},
                              trace : Trace \union {NoTrace},
                              newKeys : SUBSET Trace]]
    /\ {crossedRows, crossedDrawer, traceDrawerOpen, traceDetailLoading} \subseteq BOOLEAN
    /\ {detailTraceId, traceDetail} \subseteq Trace \union {NoTrace}

TraceInit ==
    /\ expandedTraceKeys = {} /\ traceDetailCache = {}
    /\ lookup = [c \in Lookup |-> NoLookup]
    /\ wanted = {} /\ crossedRows = FALSE
    /\ traceDrawerOpen = FALSE /\ traceDetailLoading = FALSE
    /\ detailTraceId = NoTrace /\ traceDetail = NoTrace /\ crossedDrawer = FALSE

LookingUp(by) == {c \in Lookup : lookup[c].by = by}

StartLookup(by, t, keys) ==
    \E c \in LookingUp("none") :
        lookup' = [lookup EXCEPT ![c] = [by |-> by, trace |-> t, newKeys |-> keys]]

-----------------------------------------------------------------------------
(* The rows                                                                *)

\* The keys are taken from the render of the click, and set after the fetch.
ExpandRow(t) ==
    LET newKeys == expandedTraceKeys \union {t} IN
    /\ t \notin expandedTraceKeys
    /\ wanted' = wanted \union {t}
    /\ crossedRows' = (crossedRows \/ LookingUp("row") # {})
    /\ \/ /\ t \in traceDetailCache
          /\ expandedTraceKeys' = newKeys /\ UNCHANGED lookup
       \/ /\ t \notin traceDetailCache
          /\ StartLookup("row", t, newKeys) /\ UNCHANGED expandedTraceKeys
    /\ UNCHANGED <<traceDetailCache, drawerVars>>

CollapseRow(t) ==
    /\ t \in expandedTraceKeys
    /\ expandedTraceKeys' = expandedTraceKeys \ {t}
    /\ wanted' = wanted \ {t}
    /\ crossedRows' = (crossedRows \/ LookingUp("row") # {})
    /\ UNCHANGED <<traceDetailCache, lookup, drawerVars>>

\* A failure is kept too, and is not fetched again.
RowDetailArrives(c) ==
    /\ lookup[c].by = "row"
    /\ traceDetailCache' = traceDetailCache \union {lookup[c].trace}
    /\ expandedTraceKeys' = lookup[c].newKeys
    /\ lookup' = [lookup EXCEPT ![c] = NoLookup]
    /\ UNCHANGED <<wanted, crossedRows, drawerVars>>

-----------------------------------------------------------------------------
(* The drawer                                                              *)

OpenTraceDrawer(t) ==
    /\ ~traceDrawerOpen /\ StartLookup("drawer", t, {})
    /\ traceDrawerOpen' = TRUE /\ traceDetailLoading' = TRUE
    /\ detailTraceId' = t /\ traceDetail' = NoTrace
    /\ crossedDrawer' = (LookingUp("drawer") # {})
    /\ UNCHANGED rowVars

CloseTraceDrawer ==
    /\ traceDrawerOpen /\ traceDrawerOpen' = FALSE
    /\ UNCHANGED <<rowVars, lookup, detailTraceId, traceDetail,
                   traceDetailLoading, crossedDrawer>>

\* After a failure the question page leaves the detail it has, the monitor
\* page shows none.
DrawerDetailArrives(c) ==
    /\ lookup[c].by = "drawer"
    /\ traceDetail' \in {lookup[c].trace, NoTrace, traceDetail}
    /\ traceDetailLoading' = FALSE
    /\ lookup' = [lookup EXCEPT ![c] = NoLookup]
    /\ UNCHANGED <<rowVars, traceDrawerOpen, detailTraceId, crossedDrawer>>

TraceNext ==
    \/ \E t \in Trace : ExpandRow(t) \/ CollapseRow(t) \/ OpenTraceDrawer(t)
    \/ CloseTraceDrawer
    \/ \E c \in Lookup : RowDetailArrives(c) \/ DrawerDetailArrives(c)

TraceSpec == TraceInit /\ [][TraceNext]_traceVars

-----------------------------------------------------------------------------
(* Properties                                                              *)

\* When nothing is being fetched the rows that are unfolded are those the user
\* has unfolded, unless a row was clicked during the fetch of another: the
\* answer sets the keys of the moment its own row was clicked.
RowsAreWanted ==
    LookingUp("row") = {} /\ ~crossedRows => expandedTraceKeys = wanted

\* A row that is unfolded has its detail or its failure; none waits for ever.
UnfoldedRowHasDetail == expandedTraceKeys \subseteq traceDetailCache

\* The drawer shows the trace it was opened for, unless it was closed and
\* opened for another one during the fetch of the first.
DrawerShowsItsTrace ==
    ~crossedDrawer => traceDetail \in {detailTraceId, NoTrace}

\* The details on the page are of the traces the user opened.
DetailsAreWanted == RowsAreWanted /\ UnfoldedRowHasDetail /\ DrawerShowsItsTrace
=============================================================================
