---------------------------- MODULE KnowledgeSpaces ----------------------------
(***************************************************************************)
(* ingest-service: the tree of knowledge spaces, the documents registered  *)
(* in them, and the access lists of both.  The check and the write of a    *)
(* request are two statements of a READ COMMITTED transaction, and other   *)
(* requests come between them.  A list is a set of accessors: USER, ROLE   *)
(* and DEPT have their permissions left out, a DEPT is treated as a ROLE.  *)
(***************************************************************************)
EXTENDS Naturals, Sequences

CONSTANTS
    Node, RootNode,     \* identifiers of spaces; one exists from the start
    SpaceDoc,           \* documents
    Role, User,         \* accessors
    AclRequest,         \* requests that replace the access list of a space
    MaxDepth            \* MAX_DEPTH

ASSUME SpacesAssumption ==
    RootNode \in Node /\ Role \intersect User = {} /\ MaxDepth \in Nat \ {0}

VARIABLES
    spaceTree,   \* per space: its row and its node_path
    emptied,     \* spaces whose subtree was counted empty and is to be deleted
    docRow,      \* per document: its row, its space, its doc_acl rows
    spaceAcl,    \* the space_acl rows of every space
    aclUpdate,   \* per request: what it is about to write, the rows it removes
    late,        \* history: what was inserted under a space after its deletion began
    reached,     \* history: documents whose list was last written by a cascade
    crossed      \* history: spaces with two updates open at once

spacesVars == <<spaceTree, emptied, docRow, spaceAcl, aclUpdate, late, reached, crossed>>

Accessor  == Role \union User
Stored(n) == spaceTree[n].state = "stored"
Parent(n)   == spaceTree[n].path[Len(spaceTree[n].path)]
Under(n, s) == n = s \/ \E i \in DOMAIN spaceTree[n].path : spaceTree[n].path[i] = s
DocsIn(s)   == {d \in SpaceDoc : docRow[d].state # "absent" /\ docRow[d].space = s}
NoUpdate    == [space |-> RootNode, entries |-> {}, rows |-> {}, open |-> FALSE]

SpacesTypeOK ==
    /\ spaceTree \in [Node -> [state: {"absent", "creating", "stored", "gone"},
                               path: Seq(Node)]]
    /\ \A n \in Node : Len(spaceTree[n].path) < MaxDepth
    /\ emptied \subseteq Node
    /\ docRow \in [SpaceDoc -> [state: {"absent", "draft", "committed"}, space: Node,
                                acl: SUBSET Accessor]]
    /\ spaceAcl \in [Node -> SUBSET Accessor]
    /\ aclUpdate \in [AclRequest -> [space: Node, entries: SUBSET Accessor,
                                    rows: SUBSET Accessor, open: BOOLEAN]]
    /\ late \subseteq Node \union SpaceDoc /\ reached \subseteq SpaceDoc
    /\ crossed \subseteq Node

SpacesInit ==
    /\ spaceTree = [n \in Node |->
          [state |-> IF n = RootNode THEN "stored" ELSE "absent", path |-> <<>>]]
    /\ emptied = {}
    /\ docRow = [d \in SpaceDoc |-> [state |-> "absent", space |-> RootNode, acl |-> {}]]
    /\ spaceAcl = [n \in Node |-> {}]
    /\ aclUpdate = [u \in AclRequest |-> NoUpdate]
    /\ late = {} /\ reached = {} /\ crossed = {}

-----------------------------------------------------------------------------
(* The tree                                                                *)

\* The parent is read, and the path of the child is made from it.
CreateSpace(n, parent) ==
    /\ spaceTree[n].state = "absent" /\ Stored(parent)
    /\ Len(spaceTree[parent].path) + 1 < MaxDepth
    /\ spaceTree' = [spaceTree EXCEPT
          ![n] = [state |-> "creating", path |-> Append(spaceTree[parent].path, parent)]]
    /\ UNCHANGED <<emptied, docRow, spaceAcl, aclUpdate, late, reached, crossed>>

\* No foreign key ties the row to its parent.
CreateCommits(n) ==
    /\ spaceTree[n].state = "creating"
    /\ spaceTree' = [spaceTree EXCEPT ![n].state = "stored"]
    /\ late' = IF Stored(Parent(n)) THEN late ELSE late \union {n}
    /\ UNCHANGED <<emptied, docRow, spaceAcl, aclUpdate, reached, crossed>>

\* The documents of the space itself.
OwnDocs(s) == DocsIn(s)

DocsInSubtree(s) == UNION {DocsIn(n) : n \in {m \in Node : Stored(m) /\ Under(m, s)}}

BeginDeleteSpace(s) ==
    /\ Stored(s) /\ s \notin emptied /\ DocsInSubtree(s) = {}
    /\ emptied' = emptied \union {s}
    /\ UNCHANGED <<spaceTree, docRow, spaceAcl, aclUpdate, late, reached, crossed>>

\* One statement removes what it finds; access lists stay.
DeleteSubtree(s) ==
    /\ s \in emptied /\ emptied' = emptied \ {s}
    /\ spaceTree' = [n \in Node |-> IF Stored(n) /\ Under(n, s)
                                    THEN [spaceTree[n] EXCEPT !.state = "gone"]
                                    ELSE spaceTree[n]]
    /\ UNCHANGED <<docRow, spaceAcl, aclUpdate, late, reached, crossed>>

-----------------------------------------------------------------------------
(* Documents of a space                                                    *)

\* The space of the request is not looked up.
RegisterDoc(d, s) ==
    /\ docRow[d].state = "absent" /\ docRow[d].acl = {}
    /\ spaceTree[s].state \in {"stored", "gone"}
    /\ docRow' = [docRow EXCEPT ![d] = [state |-> "draft", space |-> s, acl |-> {}]]
    /\ late' = IF Stored(s) /\ \A r \in emptied : ~Under(s, r) THEN late
               ELSE late \union {d}
    /\ UNCHANGED <<spaceTree, emptied, spaceAcl, aclUpdate, reached, crossed>>

\* The list of the request is added; a row that is there already refuses it.
CommitDoc(d, entries) ==
    /\ docRow[d].state = "draft" /\ docRow[d].acl \intersect entries = {}
    /\ docRow' = [docRow EXCEPT ![d].state = "committed", ![d].acl = @ \union entries]
    /\ reached' = reached \ {d}
    /\ UNCHANGED <<spaceTree, emptied, spaceAcl, aclUpdate, late, crossed>>

\* The rows of its list stay behind.
DeleteRegisteredDoc(d) ==
    /\ docRow[d].state # "absent"
    /\ docRow' = [docRow EXCEPT ![d].state = "absent"]
    /\ reached' = reached \ {d}
    /\ UNCHANGED <<spaceTree, emptied, spaceAcl, aclUpdate, late, crossed>>

-----------------------------------------------------------------------------
(* updateSpaceAcl                                                          *)

OpenUpdates(s) == {u \in AclRequest : aclUpdate[u].open /\ aclUpdate[u].space = s}

\* The DELETE sees the rows that are committed when it starts.
ReplaceAcl(u, s, entries) ==
    /\ ~aclUpdate[u].open /\ Stored(s)
    /\ aclUpdate' = [aclUpdate EXCEPT
          ![u] = [space |-> s, entries |-> entries, rows |-> spaceAcl[s], open |-> TRUE]]
    /\ crossed' = IF OpenUpdates(s) = {} THEN crossed ELSE crossed \union {s}
    /\ UNCHANGED <<spaceTree, emptied, docRow, spaceAcl, late, reached>>

\* Adding the entries and forgetting to take the former ones away.
CascadeAdds(acl, entries) == acl \union (entries \intersect Role)

\* Without an entry for a role the whole list of a document is cleared.
Cascade(acl, entries) ==
    IF entries \intersect Role = {} THEN {}
    ELSE (acl \intersect User) \union (entries \intersect Role)

\* Hibernate inserts a row with a generated key at once and deletes at the next
\* flush: an entry that a document has already is a duplicate.
Duplicates(u) ==
    LET e == aclUpdate[u].entries IN
    \/ (spaceAcl[aclUpdate[u].space] \ aclUpdate[u].rows) \intersect e # {}
    \/ \E d \in DocsIn(aclUpdate[u].space) : docRow[d].acl \intersect e \intersect Role # {}

\* The update and the cascade commit together; the rows it has removed are no
\* longer there for another update that wanted to remove them.
AclCommits(u) ==
    LET s == aclUpdate[u].space  e == aclUpdate[u].entries IN
    /\ aclUpdate[u].open /\ ~Duplicates(u)
    /\ spaceAcl' = [spaceAcl EXCEPT ![s] = (@ \ aclUpdate[u].rows) \union e]
    /\ docRow' = [d \in SpaceDoc |-> IF d \in DocsIn(s)
                                     THEN [docRow[d] EXCEPT !.acl = Cascade(@, e)]
                                     ELSE docRow[d]]
    /\ aclUpdate' = [v \in AclRequest |->
          IF v = u THEN NoUpdate
          ELSE IF aclUpdate[v].open /\ aclUpdate[v].space = s
          THEN [aclUpdate[v] EXCEPT !.rows = @ \ aclUpdate[u].rows]
          ELSE aclUpdate[v]]
    /\ reached' = reached \union DocsIn(s)
    /\ UNCHANGED <<spaceTree, emptied, late, crossed>>

\* A duplicate, or a lost connection.
AclRollsBack(u) ==
    /\ aclUpdate[u].open
    /\ aclUpdate' = [aclUpdate EXCEPT ![u] = NoUpdate]
    /\ UNCHANGED <<spaceTree, emptied, docRow, spaceAcl, late, reached, crossed>>

SpacesNext ==
    \/ \E n \in Node : \/ CreateCommits(n) \/ BeginDeleteSpace(n) \/ DeleteSubtree(n)
                       \/ \E p \in Node : CreateSpace(n, p)
    \/ \E d \in SpaceDoc : \/ DeleteRegisteredDoc(d)
                           \/ \E s \in Node : RegisterDoc(d, s)
                           \/ \E e \in SUBSET Accessor : CommitDoc(d, e)
    \/ \E u \in AclRequest : \/ AclCommits(u) \/ AclRollsBack(u)
                            \/ \E s \in Node, e \in SUBSET Accessor : ReplaceAcl(u, s, e)

SpacesSpec == SpacesInit /\ [][SpacesNext]_spacesVars

-----------------------------------------------------------------------------
(* Properties                                                              *)

\* Nothing in the database ties the tree, the documents and the lists together.
\* What was not inserted behind a deletion under way is in a space that exists,
\* and a document that the last update of its space has reached gives its roles
\* what the space gives them, unless two updates of the space were open at once.
SpacesAreWhole ==
    /\ \A n \in Node : Stored(n) /\ spaceTree[n].path # <<>> /\ n \notin late =>
          Stored(Parent(n))
    /\ \A n \in Node : \A d \in DocsIn(n) : Stored(n) \/ d \in late
    /\ \A n \in Node \ crossed : \A d \in DocsIn(n) \intersect reached :
          docRow[d].acl \intersect Role = spaceAcl[n] \intersect Role
=============================================================================
