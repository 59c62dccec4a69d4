------------------------------ MODULE SseReader ------------------------------
(***************************************************************************)
(* The event-stream parsers of the portal (ragChatStream, generateDataset, *)
(* executeEvalRun): each event is sent as an "event:" line, a "data:" line *)
(* and a blank line, and the network cuts the lines into chunks anywhere.  *)
(* An incomplete line is kept for the next chunk; currentEvent and         *)
(* currentData are declared inside the loop that reads the chunks.         *)
(* A line stands for its event: the number of the event in sent.           *)
(***************************************************************************)
EXTENDS Naturals, Sequences

CONSTANT MaxEvents  \* bound on the events of one stream

ASSUME MaxEventsAssumption == MaxEvents \in Nat

VARIABLES
    client,        \* the function that reads
    sent,          \* the kinds of the events the server has sent
    closed,        \* the server has closed the connection
    readerPc,      \* "fetch", "reading", or how the function ended
    parsed,        \* the events whose three lines have been parsed
    part,          \* the lines of the next event that have been parsed
    left,          \* the lines of the chunk that are still to be parsed
    currentEvent, currentData,
    delivered,     \* the calls of the callbacks: <<event, data>>
    cut            \* history: the events that reached the reader in pieces

serverVars == <<sent, closed>>
readerVars == <<client, readerPc, parsed, part, left, currentEvent, currentData,
                delivered, cut>>
sseVars == <<serverVars, readerVars>>

Client == {"ragChatStream", "generateDataset", "executeEvalRun"}
Kind   == {"token", "stage", "done", "error"}
Final  == {"done", "error"}

SseTypeOK ==
    /\ client \in Client
    /\ sent \in Seq(Kind) /\ closed \in BOOLEAN
    /\ readerPc \in {"fetch", "reading", "done", "error", "thrown", "silent"}
    /\ parsed \in Nat /\ part \in 0 .. 2 /\ left \in Nat
    /\ currentEvent \in Nat /\ currentData \in Nat
    /\ delivered \in Seq(Nat \X Nat)
    /\ cut \subseteq Nat
    /\ 3 * parsed + part + left =< 3 * Len(sent)

SseInit ==
    /\ client \in Client
    /\ sent = <<>> /\ closed = FALSE /\ readerPc = "fetch"
    /\ parsed = 0 /\ part = 0 /\ left = 0
    /\ currentEvent = 0 /\ currentData = 0
    /\ delivered = <<>> /\ cut = {}

-----------------------------------------------------------------------------
(* The server                                                              *)

Terminated == sent # <<>> /\ sent[Len(sent)] \in Final

\* Tokens are sent by the chat endpoint only.
Emit(kind) ==
    /\ ~closed /\ ~Terminated /\ Len(sent) < MaxEvents
    /\ kind = "token" => client = "ragChatStream"
    /\ sent' = Append(sent, kind)
    /\ UNCHANGED <<closed, readerVars>>

\* After the last event, or because the server stops.
Close ==
    /\ ~closed /\ closed' = TRUE
    /\ UNCHANGED <<sent, readerVars>>

-----------------------------------------------------------------------------
(* The function in the browser                                             *)

\* An HTTP error calls onError and throws; a failing fetch throws only.
FetchStream ==
    /\ readerPc = "fetch"
    /\ readerPc' \in {"reading", "error", "thrown"}
    /\ UNCHANGED <<serverVars, client, parsed, part, left, currentEvent,
                   currentData, delivered, cut>>

\* The incomplete line is kept and parsed as well.
ParsesTheLastLine(n) ==
    /\ readerPc = "reading" /\ left = 0
    /\ n \in 1 .. 3 * Len(sent) - (3 * parsed + part)
    /\ left' = n + 1
    /\ currentEvent' = 0 /\ currentData' = 0
    /\ UNCHANGED <<serverVars, client, readerPc, parsed, part, delivered, cut>>

\* The next chunk completes n more lines.
ReadChunk(n) ==
    /\ readerPc = "reading" /\ left = 0
    /\ n \in 1 .. 3 * Len(sent) - (3 * parsed + part)
    /\ left' = n
    /\ currentEvent' = 0 /\ currentData' = 0
    /\ cut' = IF part = 0 THEN cut ELSE cut \union {parsed + 1}
    /\ UNCHANGED <<serverVars, client, readerPc, parsed, part, delivered>>

\* The connection is lost: reader.read rejects.
ReadFails ==
    /\ readerPc = "reading" /\ left = 0
    /\ readerPc' = "thrown"
    /\ UNCHANGED <<serverVars, client, parsed, part, left, currentEvent,
                   currentData, delivered, cut>>

\* The stream is over: the function returns, whatever it has delivered.
ReadEnds ==
    /\ readerPc = "reading" /\ left = 0 /\ closed
    /\ 3 * parsed + part = 3 * Len(sent)
    /\ readerPc' = "silent"
    /\ UNCHANGED <<serverVars, client, parsed, part, left, currentEvent,
                   currentData, delivered, cut>>

EventLine ==
    /\ readerPc = "reading" /\ left > 0 /\ part = 0
    /\ currentEvent' = parsed + 1
    /\ part' = 1 /\ left' = left - 1
    /\ UNCHANGED <<serverVars, client, readerPc, parsed, currentData, delivered, cut>>

DataLine ==
    /\ readerPc = "reading" /\ left > 0 /\ part = 1
    /\ currentData' = parsed + 1
    /\ part' = 2 /\ left' = left - 1
    /\ UNCHANGED <<serverVars, client, readerPc, parsed, currentEvent, delivered, cut>>

\* Without the return after onDone.
GoesOnAfterTheEnd(kind) == "reading"

\* onDone returns, onError throws, the other callbacks go on.
AfterCallback(kind) == IF kind \in Final THEN kind ELSE "reading"

\* A case left out of the chat endpoint's switch.
BranchesWithoutStage == {"token", "done", "error"}

\* The branches of the three functions: a kind without a branch is dropped.
ChatBranches       == {"token", "done", "error", "stage"}
GenerationBranches == {"stage", "done", "error"}
RunBranches        == {"stage", "done", "error"}

HasBranch(kind) ==
    \/ client = "ragChatStream"   /\ kind \in ChatBranches
    \/ client = "generateDataset" /\ kind \in GenerationBranches
    \/ client = "executeEvalRun"  /\ kind \in RunBranches

BlankLine ==
    /\ readerPc = "reading" /\ left > 0 /\ part = 2
    /\ parsed' = parsed + 1 /\ part' = 0 /\ left' = left - 1
    /\ \/ /\ currentEvent > 0 /\ currentData > 0
          /\ IF HasBranch(sent[currentEvent])
             THEN /\ delivered' = Append(delivered, <<currentEvent, currentData>>)
                  /\ readerPc' = AfterCallback(sent[currentEvent])
             ELSE UNCHANGED <<delivered, readerPc>>
          /\ currentEvent' = 0 /\ currentData' = 0
       \/ /\ currentEvent = 0 \/ currentData = 0
          /\ UNCHANGED <<readerPc, currentEvent, currentData, delivered>>
    /\ UNCHANGED <<serverVars, client, cut>>

ParseLine == EventLine \/ DataLine \/ BlankLine

SseNext ==
    \/ \E kind \in Kind : Emit(kind)
    \/ Close
    \/ FetchStream
    \/ \E n \in 1 .. 3 * Len(sent) : ReadChunk(n)
    \/ ReadFails
    \/ ReadEnds
    \/ ParseLine

SseSpec == SseInit /\ [][SseNext]_sseVars

-----------------------------------------------------------------------------
(* Properties                                                              *)

\* A callback gets the data of its own event, never that of another one: the
\* two loop variables are not cleared by a blank line they do not complete.
NoMixing == \A k \in 1 .. Len(delivered) : delivered[k][1] = delivered[k][2]

\* The only events that are lost are those the network cut into two chunks.
\* (Their three lines have been parsed, and no callback was called.)
LostOnlyWhenCut ==
    \A i \in 1 .. parsed :
        i \in cut \/ \E k \in 1 .. Len(delivered) : delivered[k] = <<i, i>>

\* An event arrives whole, or not at all when the network cut it.
EventsArriveWhole == NoMixing /\ LostOnlyWhenCut

\* The parser implements the feed: in order, at most once, nothing after the
\* end, whatever the chunks are.
FeedState == IF readerPc \in {"fetch", "reading"} THEN "open" ELSE readerPc

Feed == INSTANCE EventFeed WITH
            got   <- [k \in 1 .. Len(delivered) |-> delivered[k][1]],
            state <- FeedState

ImplementsFeed == Feed!FeedSpec
=============================================================================
