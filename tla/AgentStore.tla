------------------------------ MODULE AgentStore ------------------------------
(***************************************************************************)
(* The expert agents (useAgents): one list under one key of localStorage,  *)
(* and the copy of it each tab has read when a page with agents was        *)
(* opened.  Every change of a tab writes that tab's whole list.  The pages *)
(* are the agents of everybody (experts), one's own (experts/mine), and    *)
(* the pages that only read: the chat entry and the question page.         *)
(***************************************************************************)
CONSTANTS
    Agent,      \* identifiers
    DefaultAgents,  \* the agents that come with the portal
    Tab

ASSUME AgentStoreAssumption == DefaultAgents \subseteq Agent

VARIABLES
    stored,       \* localStorage: the status of each agent
    agents,       \* the copy of each tab
    page,         \* the page of each tab
    rejectTarget, \* the agents whose rejection a tab asks to confirm
    created,      \* history: agents that were created, and not removed since
    approved,     \* history: agents approved since they were last submitted
    overwritten   \* history: a tab has written a list older than the stored one

agentVars == <<stored, agents, page, rejectTarget, created, approved, overwritten>>

AgentStatus == {"DRAFT", "PENDING", "PUBLISHED", "LISTED"}
Agents      == [Agent -> AgentStatus \union {"absent"}]
Page        == {"none", "experts", "mine", "reader"}

AgentTypeOK ==
    /\ stored \in Agents /\ agents \in [Tab -> Agents] /\ page \in [Tab -> Page]
    /\ rejectTarget \in [Tab -> SUBSET Agent]
    /\ created \subseteq Agent /\ approved \subseteq Agent
    /\ overwritten \in BOOLEAN

AgentInit ==
    /\ stored = [a \in Agent |-> "absent"]
    /\ agents = [t \in Tab |-> stored] /\ page = [t \in Tab |-> "none"]
    /\ rejectTarget = [t \in Tab |-> {}]
    /\ created = {} /\ approved = DefaultAgents /\ overwritten = FALSE

-----------------------------------------------------------------------------
(* useAgents                                                               *)

\* The shipped agents are taken as they are shipped (LISTED, one of the four
\* PUBLISHED), whatever was stored.
MergeDefaultAgents(list) ==
    [a \in Agent |-> IF a \in DefaultAgents THEN "LISTED" ELSE list[a]]

\* The list of before the change is written.
PersistsTheOldList(t, list) ==
    /\ agents' = [agents EXCEPT ![t] = list] /\ stored' = agents[t]
    /\ overwritten' = (overwritten \/ agents[t] # stored)

Persist(t, list) ==
    /\ agents' = [agents EXCEPT ![t] = list] /\ stored' = list
    /\ overwritten' = (overwritten \/ agents[t] # stored)

\* A page with agents is opened in a tab: the list is read, merged, written.
OpenAgentPage(t, to) ==
    /\ page' = [page EXCEPT ![t] = to]
    /\ agents' = [agents EXCEPT ![t] = MergeDefaultAgents(stored)]
    /\ stored' = MergeDefaultAgents(stored)
    /\ rejectTarget' = [rejectTarget EXCEPT ![t] = {}]
    /\ UNCHANGED <<created, approved, overwritten>>

SubmitForReview(t, a) ==
    /\ Persist(t, [agents[t] EXCEPT ![a] = "PENDING"])
    /\ approved' = approved \ {a} /\ UNCHANGED created

ApproveAgent(t, a) ==
    /\ Persist(t, [agents[t] EXCEPT ![a] = "PUBLISHED"])
    /\ approved' = approved \union {a} /\ UNCHANGED created

ListAgent(t, a) ==
    /\ Persist(t, [agents[t] EXCEPT ![a] = "LISTED"])
    /\ UNCHANGED <<created, approved>>

UnlistAgent(t, a) ==
    /\ Persist(t, [agents[t] EXCEPT ![a] = "PUBLISHED"])
    /\ UNCHANGED <<created, approved>>

RemoveAgent(t, a) ==
    /\ Persist(t, [agents[t] EXCEPT ![a] = "absent"])
    /\ created' = created \ {a} /\ UNCHANGED approved

AddAgent(t, a, status) ==
    /\ a \notin DefaultAgents \union created
    /\ agents[t][a] = "absent" /\ stored[a] = "absent"
    /\ Persist(t, [agents[t] EXCEPT ![a] = status])
    /\ created' = created \union {a} /\ approved' = approved \ {a}

-----------------------------------------------------------------------------
(* The pages                                                               *)

\* The buttons of an agent, by the status the tab shows; the dialog that asks
\* for the reason of a rejection covers them.
ShowsAgents(t) == page[t] \in {"experts", "mine"} /\ rejectTarget[t] = {}

AgentAction(t, a) ==
    /\ ShowsAgents(t)
    /\ CASE agents[t][a] = "DRAFT"     -> SubmitForReview(t, a) \/ RemoveAgent(t, a)
         [] agents[t][a] = "PENDING"   -> ApproveAgent(t, a)
         [] agents[t][a] = "PUBLISHED" -> ListAgent(t, a)
         [] agents[t][a] = "LISTED"    -> UnlistAgent(t, a)
         [] OTHER                      -> FALSE
    /\ UNCHANGED <<page, rejectTarget>>

\* The drawer: a new agent, on both pages.
SaveAgent(t, a, status) ==
    /\ ShowsAgents(t) /\ AddAgent(t, a, status)
    /\ UNCHANGED <<page, rejectTarget>>

\* The drawer of one's own agents edits a draft; the tab's list is written also
\* when the draft stays one.
SaveEditedAgent(t, a, status) ==
    /\ ShowsAgents(t) /\ page[t] = "mine" /\ agents[t][a] = "DRAFT"
    /\ IF status = "PENDING" THEN SubmitForReview(t, a)
       ELSE Persist(t, agents[t]) /\ UNCHANGED <<created, approved>>
    /\ UNCHANGED <<page, rejectTarget>>

OpenRejectModal(t, a) ==
    /\ ShowsAgents(t) /\ agents[t][a] = "PENDING"
    /\ rejectTarget' = [rejectTarget EXCEPT ![t] = {a}]
    /\ UNCHANGED <<stored, agents, page, created, approved, overwritten>>

RejectAgent(t, a) ==
    /\ Persist(t, [agents[t] EXCEPT ![a] = "DRAFT"])
    /\ UNCHANGED <<created, approved>>

\* Confirmed, or cancelled.
CloseRejectModal(t) ==
    /\ rejectTarget[t] # {}
    /\ \/ \E a \in rejectTarget[t] : RejectAgent(t, a)
       \/ UNCHANGED <<stored, agents, created, approved, overwritten>>
    /\ rejectTarget' = [rejectTarget EXCEPT ![t] = {}]
    /\ UNCHANGED page

AgentNext ==
    \E t \in Tab :
        \/ \E to \in Page \ {"none"} : OpenAgentPage(t, to)
        \/ CloseRejectModal(t)
        \/ \E a \in Agent :
              \/ AgentAction(t, a) \/ OpenRejectModal(t, a)
              \/ \E status \in {"DRAFT", "PENDING"} :
                    SaveAgent(t, a, status) \/ SaveEditedAgent(t, a, status)

AgentSpec == AgentInit /\ [][AgentNext]_agentVars

-----------------------------------------------------------------------------
(* Properties                                                              *)

\* An agent others can talk to was approved after it was last submitted, in
\* whichever tab and on whichever page each step was taken, unless a tab wrote
\* a list it had read before another tab's change.
PublishedAgentIsApproved ==
    \A a \in Agent :
        stored[a] \in {"PUBLISHED", "LISTED"} => a \in approved \/ overwritten

\* No agent is lost and none comes back, with the same exception.
AgentsAreKept ==
    overwritten \/ \A a \in Agent \ DefaultAgents : stored[a] # "absent" <=> a \in created

\* A shipped agent can always be talked to once a page has been opened: no
\* path of the review takes it away.
ShippedStayUsable ==
    \A t \in Tab : page[t] # "none" =>
        \A a \in DefaultAgents : agents[t][a] \in {"PUBLISHED", "LISTED"}

\* The list in the browser's storage survives the tabs that share it.
AgentsAreGoverned ==
    PublishedAgentIsApproved /\ AgentsAreKept /\ ShippedStayUsable
=============================================================================
