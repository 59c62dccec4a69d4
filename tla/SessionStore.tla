----------------------------- MODULE SessionStore -----------------------------
(***************************************************************************)
(* rag-service: one session in PostgreSQL (a row, its messages) and its    *)
(* copy in Redis, which a question reads before it is answered and extends *)
(* afterwards.  Requests run side by side; Redis entries expire, Redis     *)
(* calls fail, transactions roll back, and the session may be deleted.     *)
(* The row and the messages of a cache miss are read in one step.          *)
(***************************************************************************)
EXTENDS Naturals, SequencesExt

CONSTANTS
    Ask,        \* chat requests of the session, each with one question
    OldTurn,    \* a turn of an earlier request
    NoAsk,
    MaxTurns,   \* app.session.max-turns
    RedisFaults \* how many Redis calls may fail

ASSUME SessionAssumption ==
    /\ NoAsk \notin Ask \union {OldTurn} /\ OldTurn \notin Ask
    /\ MaxTurns \in Nat \ {0} /\ RedisFaults \in Nat

VARIABLES
    sessionRow,    \* the rag_session row; "leaving" while its delete is open
    messageRows,   \* rag_message rows by created_at, open transactions included
    keptTurns,     \* turns whose transaction has committed
    sessionTitle,
    sessionCache,  \* the turns under kb:session:<id>, or NoCache
    asking,        \* per request: where it is, the SessionData it holds
    removal,       \* where deleteSession is
    redisLeft,
    doubt,         \* history: two users of the cache crossed, or a call failed
    interleaved,   \* history: two appends were open at once
    phantom        \* history: an append rolled back after it had written the cache

sessionVars == <<sessionRow, messageRows, keptTurns, sessionTitle, sessionCache,
                 asking, removal, redisLeft, doubt, interleaved, phantom>>

NoCache == <<"no entry">>
CachedTurn == (Ask \union {OldTurn}) \X (Ask \union {OldTurn})
Open    == {"answer", "cache", "commit"}           \* the transaction has begun
Window  == {"fillLoad", "fillSave", "insert"} \union Open
AskPc   == Window \union {"idle", "generating", "over"}

SessionTypeOK ==
    /\ sessionRow \in {"stored", "leaving", "gone"}
    /\ \A i \in DOMAIN messageRows :
          messageRows[i] \in [role : {"user", "assistant"}, turn : Ask \union {OldTurn}]
    /\ keptTurns \subseteq Ask \union {OldTurn}
    /\ sessionTitle \in Ask \union {OldTurn, NoAsk}
    /\ sessionCache = NoCache \/ sessionCache \in Seq(CachedTurn)
    /\ \A r \in Ask : asking[r].pc \in AskPc /\ asking[r].turns \in Seq(CachedTurn)
    /\ removal \in {"idle", "cache", "commit", "over"}
    /\ redisLeft \in 0..RedisFaults
    /\ {doubt, interleaved, phantom} \subseteq BOOLEAN

Resting == [r \in Ask |-> [pc |-> "idle", turns |-> <<>>]]
Said(role, r) == [role |-> role, turn |-> r]

\* A session just created, with its empty entry, or an older one.
SessionInit ==
    /\ sessionRow = "stored" /\ asking = Resting /\ removal = "idle"
    /\ \/ /\ messageRows = <<>> /\ keptTurns = {} /\ sessionTitle = NoAsk
          /\ sessionCache = <<>>
       \/ /\ messageRows = <<Said("user", OldTurn), Said("assistant", OldTurn)>>
          /\ keptTurns = {OldTurn} /\ sessionTitle = OldTurn
          /\ sessionCache = NoCache
    /\ redisLeft = RedisFaults
    /\ doubt = FALSE /\ interleaved = FALSE /\ phantom = FALSE

-----------------------------------------------------------------------------
(* getSession                                                              *)

\* Those of the rows that belong to these turns.
OfTurns(rows, turns) ==
    FlattenSeq([i \in DOMAIN rows |-> IF rows[i].turn \in turns THEN <<rows[i]>> ELSE <<>>])

Visible == OfTurns(messageRows, keptTurns)

\* An answer belongs to the last question before it that has none yet.
ReadRow(acc, m) ==
    IF m.role = "user" THEN [query |-> m.turn, turns |-> acc.turns]
    ELSE IF acc.query = NoAsk THEN acc
    ELSE [query |-> NoAsk, turns |-> Append(acc.turns, <<acc.query, m.turn>>)]

RebuildTurns(rows) ==
    LET read[i \in 0 .. Len(rows)] ==
            IF i = 0 THEN [query |-> NoAsk, turns |-> <<>>]
            ELSE ReadRow(read[i - 1], rows[i])
    IN read[Len(rows)].turns

Go(r, pc, turns) == asking' = [asking EXCEPT ![r] = [pc |-> pc, turns |-> turns]]
Over(r)          == Go(r, "over", <<>>)

\* A Redis call works, or one of the failing ones is used up.
Redis(works)   == works /\ UNCHANGED redisLeft
RedisDown      == redisLeft > 0 /\ redisLeft' = redisLeft - 1

OthersAtWork(r) == removal \in {"cache", "commit"}
                   \/ \E q \in Ask \ {r} : asking[q].pc \in Window

\* From here to its end the request relies on what it has read.
Enter(r) == doubt' = (doubt \/ OthersAtWork(r))

\* The history for the answer, then, when it is generated, the turns to extend.
Purposes == {[from |-> "idle", hit |-> "generating", fill |-> "fillLoad"],
             [from |-> "generating", hit |-> "insert", fill |-> "fillSave"]}

CacheHit(r) == \E p \in Purposes :
    /\ asking[r].pc = p.from
    /\ sessionCache # NoCache /\ Redis(TRUE)
    /\ Go(r, p.hit, IF p.hit = "insert" THEN sessionCache ELSE <<>>)
    /\ IF p.hit = "insert" THEN Enter(r) ELSE UNCHANGED doubt
    /\ UNCHANGED <<sessionRow, messageRows, keptTurns, sessionTitle, sessionCache,
                   removal, interleaved, phantom>>

\* No entry, or Redis does not answer: the rows are read.  A session that is
\* gone is no error here; the save goes on with an empty one.
CacheMiss(r) == \E p \in Purposes :
    /\ asking[r].pc = p.from
    /\ Redis(sessionCache = NoCache) \/ RedisDown
    /\ IF sessionRow = "gone"
       THEN Go(r, p.hit, <<>>)
       ELSE Go(r, p.fill, RebuildTurns(Visible))
    /\ Enter(r)
    /\ UNCHANGED <<sessionRow, messageRows, keptTurns, sessionTitle, sessionCache,
                   removal, interleaved, phantom>>

\* saveToRedis logs a failure and goes on; an old entry stays.
SaveToRedis(turns) ==
    \/ Redis(TRUE) /\ sessionCache' = turns /\ UNCHANGED doubt
    \/ RedisDown /\ UNCHANGED sessionCache /\ doubt' = (doubt \/ sessionCache # NoCache)

FillCache(r) == \E p \in Purposes :
    /\ asking[r].pc = p.fill
    /\ SaveToRedis(asking[r].turns)
    /\ Go(r, p.hit, IF p.hit = "insert" THEN asking[r].turns ELSE <<>>)
    /\ UNCHANGED <<sessionRow, messageRows, keptTurns, sessionTitle, removal,
                   interleaved, phantom>>

-----------------------------------------------------------------------------
(* appendTurnWithCitations: one transaction                                *)

\* The question is inserted at once and holds the session row against a delete;
\* without the row the foreign key refuses it.
SaveQuestion(r) ==
    /\ asking[r].pc = "insert" /\ sessionRow # "leaving"
    /\ IF sessionRow = "gone"
       THEN Over(r) /\ UNCHANGED <<messageRows, interleaved>>
       ELSE /\ messageRows' = Append(messageRows, Said("user", r))
            /\ asking' = [asking EXCEPT ![r].pc = "answer"]
            /\ interleaved' = (interleaved \/ \E q \in Ask : asking[q].pc \in Open)
    /\ UNCHANGED <<sessionRow, keptTurns, sessionTitle, sessionCache, removal,
                   redisLeft, doubt, phantom>>

FirstTurn(r) == asking[r].turns = <<>>

\* The answer, and the title of a session without turns: its row is locked.
SaveAnswer(r) ==
    /\ asking[r].pc = "answer"
    /\ FirstTurn(r) => \A q \in Ask : asking[q].pc \in {"cache", "commit"} => ~FirstTurn(q)
    /\ messageRows' = Append(messageRows, Said("assistant", r))
    /\ asking' = [asking EXCEPT ![r].pc = "cache"]
    /\ UNCHANGED <<sessionRow, keptTurns, sessionTitle, sessionCache, removal,
                   redisLeft, doubt, interleaved, phantom>>

\* The first turns instead of the last.
KeepFirst(turns) ==
    IF Len(turns) > MaxTurns THEN SubSeq(turns, 1, MaxTurns) ELSE turns

LastTurns(turns) ==
    IF Len(turns) > MaxTurns THEN SubSeq(turns, Len(turns) - MaxTurns + 1, Len(turns))
    ELSE turns

\* The entry is written before the transaction ends.
WriteCache(r) ==
    /\ asking[r].pc = "cache"
    /\ SaveToRedis(LastTurns(Append(asking[r].turns, <<r, r>>)))
    /\ asking' = [asking EXCEPT ![r].pc = "commit"]
    /\ UNCHANGED <<sessionRow, messageRows, keptTurns, sessionTitle, removal,
                   interleaved, phantom>>

CommitTurn(r) ==
    /\ asking[r].pc = "commit" /\ Over(r)
    /\ keptTurns' = keptTurns \union {r}
    /\ sessionTitle' = IF FirstTurn(r) THEN r ELSE sessionTitle
    /\ UNCHANGED <<sessionRow, messageRows, sessionCache, removal, redisLeft, doubt,
                   interleaved, phantom>>

\* An exception or a lost connection; nothing takes the entry back.
TurnRollsBack(r) ==
    /\ asking[r].pc \in Open /\ Over(r)
    /\ messageRows' = OfTurns(messageRows, (Ask \union {OldTurn}) \ {r})
    /\ IF asking[r].pc = "commit" THEN doubt' = TRUE /\ phantom' = TRUE
       ELSE UNCHANGED <<doubt, phantom>>
    /\ UNCHANGED <<sessionRow, keptTurns, sessionTitle, sessionCache, removal,
                   redisLeft, interleaved>>

-----------------------------------------------------------------------------
(* deleteSession, and the expiry of the entry                              *)

\* The DELETE waits for transactions that have inserted messages of the row.
DeleteSession ==
    /\ removal = "idle" /\ sessionRow = "stored"
    /\ \A r \in Ask : asking[r].pc \notin Open
    /\ sessionRow' = "leaving" /\ removal' = "cache"
    /\ doubt' = (doubt \/ \E r \in Ask : asking[r].pc \in Window)
    /\ UNCHANGED <<messageRows, keptTurns, sessionTitle, sessionCache, asking,
                   redisLeft, interleaved, phantom>>

\* Deleting the row and leaving the entry to its expiry.
LeaveEntry ==
    /\ removal = "cache" /\ removal' = "commit"
    /\ UNCHANGED <<sessionRow, messageRows, keptTurns, sessionTitle, sessionCache,
                   asking, redisLeft, doubt, interleaved, phantom>>

\* Before the commit: until then a question still finds the rows.
DeleteFromRedis ==
    /\ removal = "cache" /\ removal' = "commit"
    /\ \/ Redis(TRUE) /\ sessionCache' = NoCache /\ UNCHANGED doubt
       \/ RedisDown /\ UNCHANGED sessionCache /\ doubt' = (doubt \/ sessionCache # NoCache)
    /\ UNCHANGED <<sessionRow, messageRows, keptTurns, sessionTitle, asking, interleaved,
                   phantom>>

\* The messages go with the row: ON DELETE CASCADE.
DeleteCommits ==
    /\ removal = "commit" /\ removal' = "over"
    /\ sessionRow' = "gone" /\ messageRows' = <<>> /\ keptTurns' = {}
    /\ sessionTitle' = NoAsk
    /\ UNCHANGED <<sessionCache, asking, redisLeft, doubt, interleaved, phantom>>

DeleteRollsBack ==
    /\ removal \in {"cache", "commit"} /\ removal' = "over" /\ sessionRow' = "stored"
    /\ UNCHANGED <<messageRows, keptTurns, sessionTitle, sessionCache, asking,
                   redisLeft, doubt, interleaved, phantom>>

\* Nothing of a doubtful entry is left when nobody is holding a copy.
EntryExpires ==
    /\ sessionCache # NoCache /\ sessionCache' = NoCache
    /\ doubt' = (doubt /\ (removal \in {"cache", "commit"}
                            \/ \E r \in Ask : asking[r].pc \in Window))
    /\ UNCHANGED <<sessionRow, messageRows, keptTurns, sessionTitle, asking, removal,
                   redisLeft, interleaved, phantom>>

SessionNext ==
    \/ \E r \in Ask :
          \/ CacheHit(r) \/ CacheMiss(r) \/ FillCache(r)
          \/ SaveQuestion(r) \/ SaveAnswer(r) \/ WriteCache(r)
          \/ CommitTurn(r) \/ TurnRollsBack(r)
    \/ DeleteSession \/ DeleteFromRedis \/ DeleteCommits \/ DeleteRollsBack
    \/ EntryExpires

SessionSpec == SessionInit /\ [][SessionNext]_sessionVars

-----------------------------------------------------------------------------
(* Properties                                                              *)

SessionIsQuiet ==
    /\ \A r \in Ask : asking[r].pc \notin Window
    /\ removal \in {"idle", "over"}

\* The entry is the end of the stored conversation, and as much of it as a
\* question is to see.
EntryAgrees ==
    LET turns == RebuildTurns(Visible) IN
    /\ sessionRow = "stored"
    /\ IsSuffix(sessionCache, turns)
    /\ Len(sessionCache) >= IF Len(turns) > MaxTurns THEN MaxTurns ELSE Len(turns)

\* Two stores without a common transaction: unless users of the entry crossed or
\* a Redis call or transaction failed since it last expired, a quiet session is
\* the same in both.  Unless two appends were open at once, an entry pairs each
\* question with its own answer.  Unless an append rolled back too late, a
\* quiet session with turns has a title.
HistoryIsTrue ==
    /\ SessionIsQuiet /\ ~doubt /\ sessionCache # NoCache => EntryAgrees
    /\ sessionCache # NoCache /\ ~interleaved =>
          \A i \in DOMAIN sessionCache : sessionCache[i][1] = sessionCache[i][2]
    /\ SessionIsQuiet /\ keptTurns # {} /\ sessionTitle = NoAsk => phantom
=============================================================================
