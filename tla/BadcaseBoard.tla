----------------------------- MODULE BadcaseBoard -----------------------------
(***************************************************************************)
(* The board on which reported answers are dragged from column to column:  *)
(* a card moves at once, the server is told, and a failure moves it back   *)
(* to the column it came from.  The board can be fetched at any time.      *)
(***************************************************************************)
EXTENDS Naturals, FiniteSets

CONSTANTS Badcase, Column, NoBadcase,
          Drop     \* calls of updateBadcaseStatus; bounds those under way

ASSUME BoardAssumption == NoBadcase \notin Badcase

VARIABLES
    serverColumn,   \* the status the server has stored
    boardItems,          \* the columns shown; "absent" before the first fetch
    drop,           \* the moves under way
    boardFetch,     \* the fetch under way, and what it has read
    mixed           \* history: the cards whose column may be wrong

boardVars == <<serverColumn, boardItems, drop, boardFetch, mixed>>

NoDrop  == [id |-> NoBadcase, from |-> "absent", to |-> "absent", pc |-> "none"]
NoFetch == [pc |-> "none", read |-> [b \in Badcase |-> "absent"], crossed |-> {}]

BoardTypeOK ==
    /\ serverColumn \in [Badcase -> Column]
    /\ boardItems \in [Badcase -> Column \union {"absent"}]
    /\ drop \in [Drop -> [id : Badcase \union {NoBadcase},
                          from : Column \union {"absent"},
                          to : Column \union {"absent"},
                          pc : {"none", "sent", "stored"}]]
    /\ boardFetch \in [pc : {"none", "sent", "read"},
                       read : [Badcase -> Column \union {"absent"}],
                       crossed : SUBSET Badcase]
    /\ mixed \subseteq Badcase

Moving == {drop[d].id : d \in Drop} \ {NoBadcase}

BoardInit ==
    /\ serverColumn \in [Badcase -> Column]
    /\ boardItems = [b \in Badcase |-> "absent"]
    /\ drop = [d \in Drop |-> NoDrop]
    /\ boardFetch = [NoFetch EXCEPT !.pc = "sent"]
    /\ mixed = {}

-----------------------------------------------------------------------------
HandleDrop(d, b, column) ==
    /\ drop[d] = NoDrop /\ boardItems[b] \notin {"absent", column}
    /\ boardItems' = [boardItems EXCEPT ![b] = column]
    /\ drop' = [drop EXCEPT ![d] = [id |-> b, from |-> boardItems[b], to |-> column,
                                    pc |-> "sent"]]
    /\ mixed' = IF b \in Moving THEN mixed \union {b} ELSE mixed
    /\ boardFetch' = IF boardFetch.pc = "none" THEN boardFetch
                     ELSE [boardFetch EXCEPT !.crossed = @ \union {b}]
    /\ UNCHANGED serverColumn

ServerMoves(d) ==
    /\ drop[d].pc = "sent"
    /\ serverColumn' = [serverColumn EXCEPT ![drop[d].id] = drop[d].to]
    /\ drop' = [drop EXCEPT ![d].pc = "stored"]
    /\ UNCHANGED <<boardItems, boardFetch, mixed>>

DropSucceeds(d) ==
    /\ drop[d].pc = "stored"
    /\ drop' = [drop EXCEPT ![d] = NoDrop]
    /\ UNCHANGED <<serverColumn, boardItems, boardFetch, mixed>>

\* Without the rollback of a move.
KeepsFailedMove(d) ==
    /\ drop[d].pc # "none"
    /\ drop' = [drop EXCEPT ![d] = NoDrop]
    /\ UNCHANGED <<serverColumn, boardItems, boardFetch, mixed>>

\* The request failed, or its answer was lost.
DropFails(d) ==
    LET b == drop[d].id IN
    /\ drop[d].pc # "none"
    /\ boardItems' = IF boardItems[b] = "absent" THEN boardItems
                ELSE [boardItems EXCEPT ![b] = drop[d].from]
    /\ mixed' = IF drop[d].pc = "stored" THEN mixed \union {b} ELSE mixed
    /\ drop' = [drop EXCEPT ![d] = NoDrop]
    /\ UNCHANGED <<serverColumn, boardFetch>>

-----------------------------------------------------------------------------
\* The button is blocked during a fetch.
FetchBoard ==
    /\ boardFetch.pc = "none"
    /\ boardFetch' = [NoFetch EXCEPT !.pc = "sent", !.crossed = Moving]
    /\ UNCHANGED <<serverColumn, boardItems, drop, mixed>>

ServerReadsBoard ==
    /\ boardFetch.pc = "sent"
    /\ boardFetch' = [boardFetch EXCEPT !.pc = "read", !.read = serverColumn]
    /\ UNCHANGED <<serverColumn, boardItems, drop, mixed>>

BoardArrives ==
    /\ boardFetch.pc = "read"
    /\ boardItems' = boardFetch.read
    /\ mixed' = boardFetch.crossed
    /\ boardFetch' = NoFetch
    /\ UNCHANGED <<serverColumn, drop>>

BoardFails ==
    /\ boardFetch.pc # "none"
    /\ boardFetch' = NoFetch
    /\ UNCHANGED <<serverColumn, boardItems, drop, mixed>>

BoardNext ==
    \/ \E d \in Drop :
          \/ \E b \in Badcase, column \in Column : HandleDrop(d, b, column)
          \/ ServerMoves(d) \/ DropSucceeds(d) \/ DropFails(d)
    \/ FetchBoard \/ ServerReadsBoard \/ BoardArrives \/ BoardFails

BoardSpec == BoardInit /\ [][BoardNext]_boardVars

-----------------------------------------------------------------------------
(* Properties                                                              *)

\* A card that is not being moved stands in the column the server has stored,
\* unless two of its moves overlapped, the board was fetched during a move of
\* it, or a move was stored and its answer lost.
CardIsWhereStored ==
    \A b \in Badcase \ Moving :
        boardItems[b] \in {serverColumn[b], "absent"} \/ b \in mixed
=============================================================================
