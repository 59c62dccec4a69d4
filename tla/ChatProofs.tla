------------------------------ MODULE ChatProofs ------------------------------
(***************************************************************************)
(* The question page, the command bar and the sessions of the server, each *)
(* for any number of questions, events, sessions, files and messages.      *)
(***************************************************************************)
EXTENDS MCChat, SessionProofs, FiniteSetTheorems

-----------------------------------------------------------------------------
(* The parsers of the event streams (SseReader)                            *)

-----------------------------------------------------------------------------
(* The inductive invariant                                                 *)

\* What the two loop variables hold by the part of the event that has been
\* parsed.  An event whose beginning the loop has forgotten is in cut.
LinesOfOneEvent ==
    /\ currentEvent \in {0, parsed + 1}
    /\ part = 0 => currentEvent = 0
    /\ part = 2 /\ currentEvent # 0 => currentData = parsed + 1
    /\ part # 0 /\ currentEvent = 0 => parsed + 1 \in cut

\* The callbacks have been called for events that have been parsed.
DeliveredAreParsed ==
    \A k \in 1 .. Len(delivered) :
        /\ delivered[k][1] \in 1 .. parsed
        /\ delivered[k][1] = delivered[k][2]

\* Every kind the server sends has a branch.
EveryKindHasABranch ==
    \A i \in 1 .. Len(sent) : sent[i] = "token" => client = "ragChatStream"

SseInv ==
    /\ SseTypeOK /\ LinesOfOneEvent /\ DeliveredAreParsed
    /\ EveryKindHasABranch /\ LostOnlyWhenCut

LEMMA AppendOne ==
    ASSUME NEW S, NEW q \in Seq(S), NEW e \in S
    PROVE  /\ Append(q, e) \in Seq(S)
           /\ Len(Append(q, e)) = Len(q) + 1
           /\ Append(q, e)[Len(q) + 1] = e
           /\ \A i \in 1 .. Len(q) : Append(q, e)[i] = q[i]
  OBVIOUS

LEMMA InitSse == SseInit => SseInv
  <1> SUFFICES ASSUME SseInit PROVE SseInv
    OBVIOUS
  <1>1. Len(sent) = 0 /\ Len(delivered) = 0
    BY DEF SseInit
  <1>2. SseTypeOK
    <2>1. sent \in Seq(Kind) /\ delivered \in Seq(Nat \X Nat)
      BY DEF SseInit
    <2>2. 3 * parsed + part + left <= 3 * Len(sent) /\ part \in 0 .. 2
      BY <1>1 DEF SseInit
    <2> QED
      BY <2>1, <2>2 DEF SseInit, SseTypeOK
  <1>3. LinesOfOneEvent /\ DeliveredAreParsed /\ EveryKindHasABranch
    BY <1>1 DEF SseInit, LinesOfOneEvent, DeliveredAreParsed, EveryKindHasABranch
  <1>4. LostOnlyWhenCut
    BY DEF SseInit, LostOnlyWhenCut
  <1> QED
    BY <1>2, <1>3, <1>4 DEF SseInv

\* What the reader has and the server does not touch.
LEMMA EmitKeeps ==
    ASSUME SseInv, NEW kind \in Kind, Emit(kind)
    PROVE  SseInv'
  <1> USE DEF SseInv
  <1>1. /\ sent' \in Seq(Kind) /\ Len(sent') = Len(sent) + 1
        /\ sent'[Len(sent) + 1] = kind
        /\ \A i \in 1 .. Len(sent) : sent'[i] = sent[i]
    <2>1. sent \in Seq(Kind) /\ sent' = Append(sent, kind)
      BY DEF SseTypeOK, Emit
    <2> QED
      BY <2>1, AppendOne
  <1>2. Len(sent) \in Nat
    BY DEF SseTypeOK
  <1>3. SseTypeOK'
    BY <1>1, <1>2 DEF Emit, SseTypeOK, readerVars
  <1>4. EveryKindHasABranch'
    <2> SUFFICES ASSUME NEW i \in 1 .. Len(sent'), sent'[i] = "token"
                 PROVE  client' = "ragChatStream"
      BY DEF EveryKindHasABranch
    <2>1. CASE i = Len(sent) + 1
      BY <2>1, <1>1 DEF Emit, readerVars
    <2>2. CASE i \in 1 .. Len(sent)
      BY <2>2, <1>1 DEF Emit, readerVars, EveryKindHasABranch
    <2> QED
      BY <2>1, <2>2, <1>1, <1>2
  <1>5. LinesOfOneEvent' /\ DeliveredAreParsed' /\ LostOnlyWhenCut'
    BY DEF Emit, readerVars, LinesOfOneEvent, DeliveredAreParsed, LostOnlyWhenCut
  <1> QED
    BY <1>3, <1>4, <1>5

\* A step that delivers nothing and parses no event leaves the rest alone.
LEMMA QuietStep ==
    ASSUME SseInv, SseTypeOK', LinesOfOneEvent',
           UNCHANGED <<sent, client, parsed, delivered>>, cut \subseteq cut'
    PROVE  SseInv'
  BY DEF SseInv, DeliveredAreParsed, EveryKindHasABranch, LostOnlyWhenCut

LEMMA ChunkKeeps ==
    ASSUME SseInv, NEW n \in 1 .. 3 * Len(sent), ReadChunk(n)
    PROVE  SseInv'
  <1>1. SseTypeOK'
    BY DEF SseInv, SseTypeOK, ReadChunk, serverVars
  <1>2. LinesOfOneEvent'
    BY DEF SseInv, SseTypeOK, LinesOfOneEvent, ReadChunk, serverVars
  <1> QED
    BY <1>1, <1>2, QuietStep DEF ReadChunk, serverVars

LEMMA EventLineKeeps == ASSUME SseInv, EventLine PROVE SseInv'
  <1>1. SseTypeOK'
    BY DEF SseInv, SseTypeOK, EventLine, serverVars
  <1>2. LinesOfOneEvent'
    BY DEF SseInv, SseTypeOK, LinesOfOneEvent, EventLine, serverVars
  <1> QED
    BY <1>1, <1>2, QuietStep DEF EventLine, serverVars

LEMMA DataLineKeeps == ASSUME SseInv, DataLine PROVE SseInv'
  <1>1. SseTypeOK'
    BY DEF SseInv, SseTypeOK, DataLine, serverVars
  <1>2. LinesOfOneEvent'
    BY DEF SseInv, SseTypeOK, LinesOfOneEvent, DataLine, serverVars
  <1> QED
    BY <1>1, <1>2, QuietStep DEF DataLine, serverVars

\* A blank line either completes the event the loop variables hold, which has
\* a branch, or it ends one that was cut.
LEMMA BlankLineCases ==
    ASSUME SseInv, BlankLine
    PROVE  /\ parsed + 1 \in 1 .. Len(sent)
           /\ \/ /\ currentEvent = parsed + 1 /\ currentData = parsed + 1
                 /\ delivered' = Append(delivered, <<parsed + 1, parsed + 1>>)
                 /\ readerPc' = AfterCallback(sent[parsed + 1])
                 /\ currentEvent' = 0 /\ currentData' = 0
              \/ /\ currentEvent = 0 /\ parsed + 1 \in cut
                 /\ UNCHANGED <<readerPc, currentEvent, currentData, delivered>>
  <1>1. parsed \in Nat /\ Len(sent) \in Nat /\ left \in Nat /\ left > 0 /\ part = 2
        /\ 3 * parsed + part + left <= 3 * Len(sent)
    BY DEF SseInv, SseTypeOK, BlankLine
  <1>2. parsed + 1 \in 1 .. Len(sent)
    BY <1>1
  <1>3. CASE currentEvent = 0
    BY <1>1, <1>2, <1>3 DEF SseInv, LinesOfOneEvent, BlankLine
  <1>4. CASE currentEvent = parsed + 1
    <2>1. currentData = parsed + 1
      BY <1>1, <1>4 DEF SseInv, LinesOfOneEvent
    <2>2. currentEvent > 0 /\ currentData > 0
      BY <1>1, <1>4, <2>1
    <2>3. HasBranch(sent[currentEvent])
      <3>1. sent[parsed + 1] \in Kind /\ client \in Client
        BY <1>2 DEF SseInv, SseTypeOK
      <3>2. sent[parsed + 1] = "token" => client = "ragChatStream"
        BY <1>2 DEF SseInv, EveryKindHasABranch
      <3> QED
        BY <3>1, <3>2, <1>4
        DEF HasBranch, Kind, Client, ChatBranches, GenerationBranches, RunBranches
    <2> QED
      BY <1>1, <1>2, <1>4, <2>1, <2>2, <2>3 DEF BlankLine
  <1> QED
    BY <1>3, <1>4 DEF SseInv, LinesOfOneEvent

LEMMA BlankLineKeeps == ASSUME SseInv, BlankLine PROVE SseInv'
  <1> DEFINE e == parsed + 1
  <1>1. /\ parsed \in Nat /\ left \in Nat /\ Len(sent) \in Nat /\ cut \subseteq Nat
        /\ delivered \in Seq(Nat \X Nat) /\ currentData \in Nat /\ currentEvent \in Nat
        /\ 3 * parsed + part + left <= 3 * Len(sent) /\ Len(delivered) \in Nat
    BY DEF SseInv, SseTypeOK
  <1>2. /\ parsed' = e /\ part' = 0 /\ left' = left - 1 /\ part = 2 /\ left > 0
        /\ sent' = sent /\ closed' = closed /\ client' = client /\ cut' = cut
        /\ readerPc = "reading"
    BY DEF BlankLine, serverVars
  <1>3. e \in 1 .. Len(sent) /\ e \in Nat
    BY <1>1, BlankLineCases
  <1>4. EveryKindHasABranch'
    BY <1>2 DEF SseInv, EveryKindHasABranch
  <1>5. CASE /\ currentEvent = e /\ currentData = e
             /\ delivered' = Append(delivered, <<e, e>>)
             /\ readerPc' = AfterCallback(sent[e])
             /\ currentEvent' = 0 /\ currentData' = 0
    <2>1. /\ delivered' \in Seq(Nat \X Nat)
          /\ Len(delivered') = Len(delivered) + 1
          /\ delivered'[Len(delivered) + 1] = <<e, e>>
          /\ \A k \in 1 .. Len(delivered) : delivered'[k] = delivered[k]
      <3>1. <<e, e>> \in Nat \X Nat
        BY <1>3
      <3> QED
        BY <1>1, <1>5, <3>1, AppendOne
    <2>2. readerPc' \in {"reading", "done", "error"}
      BY <1>5 DEF AfterCallback, Final
    <2>3. SseTypeOK'
      BY <1>1, <1>2, <1>3, <1>5, <2>1, <2>2 DEF SseInv, SseTypeOK
    <2>4. LinesOfOneEvent'
      BY <1>1, <1>2, <1>5 DEF LinesOfOneEvent
    <2>5. DeliveredAreParsed'
      <3> SUFFICES ASSUME NEW k \in 1 .. Len(delivered')
                   PROVE  /\ delivered'[k][1] \in 1 .. parsed'
                          /\ delivered'[k][1] = delivered'[k][2]
        BY DEF DeliveredAreParsed
      <3>1. CASE k = Len(delivered) + 1
        BY <1>2, <1>3, <2>1, <3>1
      <3>2. CASE k \in 1 .. Len(delivered)
        <4>1. delivered'[k] = delivered[k]
          BY <2>1, <3>2
        <4>2. delivered[k][1] \in 1 .. parsed /\ delivered[k][1] = delivered[k][2]
          BY <3>2 DEF SseInv, DeliveredAreParsed
        <4>3. delivered[k][1] \in 1 .. parsed'
          BY <1>1, <1>2, <4>2
        <4> QED
          BY <4>1, <4>2, <4>3
      <3> QED
        BY <1>1, <2>1, <3>1, <3>2
    <2>6. LostOnlyWhenCut'
      <3> SUFFICES ASSUME NEW i \in 1 .. parsed', i \notin cut
                   PROVE  \E k \in 1 .. Len(delivered') : delivered'[k] = <<i, i>>
        BY <1>2 DEF LostOnlyWhenCut
      <3>1. CASE i = e
        <4>1. Len(delivered) + 1 \in 1 .. Len(delivered')
          BY <1>1, <2>1
        <4> QED
          BY <2>1, <3>1, <4>1
      <3>2. CASE i \in 1 .. parsed
        <4>1. PICK k \in 1 .. Len(delivered) : delivered[k] = <<i, i>>
          BY <3>2 DEF SseInv, LostOnlyWhenCut
        <4>2. k \in 1 .. Len(delivered')
          BY <1>1, <2>1
        <4>3. delivered'[k] = <<i, i>>
          BY <2>1, <4>1
        <4> QED
          BY <4>2, <4>3
      <3>3. i = e \/ i \in 1 .. parsed
        BY <1>1, <1>2
      <3> QED
        BY <3>1, <3>2, <3>3
    <2> QED
      BY <1>4, <2>3, <2>4, <2>5, <2>6 DEF SseInv
  <1>6. CASE /\ currentEvent = 0 /\ e \in cut
             /\ UNCHANGED <<readerPc, currentEvent, currentData, delivered>>
    <2>1. SseTypeOK'
      BY <1>1, <1>2, <1>3, <1>6 DEF SseInv, SseTypeOK
    <2>2. LinesOfOneEvent'
      BY <1>1, <1>2, <1>6 DEF LinesOfOneEvent
    <2>3. DeliveredAreParsed'
      BY <1>1, <1>2, <1>6 DEF SseInv, DeliveredAreParsed
    <2>4. LostOnlyWhenCut'
      <3> SUFFICES ASSUME NEW i \in 1 .. parsed', i \notin cut
                   PROVE  \E k \in 1 .. Len(delivered) : delivered[k] = <<i, i>>
        BY <1>2, <1>6 DEF LostOnlyWhenCut
      <3>1. i # e
        BY <1>6
      <3>2. i \in 1 .. parsed
        BY <1>1, <1>2, <3>1
      <3> QED
        BY <3>2 DEF SseInv, LostOnlyWhenCut
    <2> QED
      BY <1>4, <2>1, <2>2, <2>3, <2>4 DEF SseInv
  <1> QED
    BY <1>5, <1>6, BlankLineCases

LEMMA SseStep == SseInv /\ [SseNext]_sseVars => SseInv'
  <1> SUFFICES ASSUME SseInv, [SseNext]_sseVars PROVE SseInv'
    OBVIOUS
  <1>1. CASE \E kind \in Kind : Emit(kind)
    BY <1>1, EmitKeeps
  <1>2. CASE Close
    <2>1. SseTypeOK' /\ LinesOfOneEvent'
      BY <1>2 DEF SseInv, SseTypeOK, LinesOfOneEvent, Close, readerVars
    <2> QED
      BY <1>2, <2>1, QuietStep DEF Close, readerVars
  <1>3. CASE FetchStream \/ ReadFails \/ ReadEnds
    <2>1. SseTypeOK' /\ LinesOfOneEvent'
      BY <1>3 DEF SseInv, SseTypeOK, LinesOfOneEvent, FetchStream, ReadFails, ReadEnds,
                  serverVars
    <2> QED
      BY <1>3, <2>1, QuietStep DEF FetchStream, ReadFails, ReadEnds, serverVars
  <1>4. CASE \E n \in 1 .. 3 * Len(sent) : ReadChunk(n)
    BY <1>4, ChunkKeeps
  <1>5. CASE ParseLine
    BY <1>5, EventLineKeeps, DataLineKeeps, BlankLineKeeps DEF ParseLine
  <1>6. CASE UNCHANGED sseVars
    BY <1>6 DEF sseVars, serverVars, readerVars, SseInv, SseTypeOK, LinesOfOneEvent,
                DeliveredAreParsed, EveryKindHasABranch, LostOnlyWhenCut
  <1> QED
    BY <1>1, <1>2, <1>3, <1>4, <1>5, <1>6 DEF SseNext

LEMMA SseInvariant == SseSpec => []SseInv
  BY InitSse, SseStep, PTL DEF SseSpec

-----------------------------------------------------------------------------
(* The theorems                                                            *)

\* The variables of the parsers (ragChatStream, generateDataset, executeEvalRun)
\* keep their types, and no line is parsed that the server has not sent.
THEOREM SseTypes == SseSpec => []SseTypeOK
  <1>1. SseInv => SseTypeOK
    BY DEF SseInv
  <1> QED
    BY <1>1, SseInvariant, PTL

\* Every event that reaches a callback is handed over with its own data, and an
\* event whose lines have been parsed is lost only if the network cut it, whatever
\* the chunks of the three reading loops are.
THEOREM EventsAreWhole == SseSpec => []EventsArriveWhole
  <1>1. SseInv => EventsArriveWhole
    BY DEF SseInv, DeliveredAreParsed, EventsArriveWhole, NoMixing
  <1> QED
    BY <1>1, SseInvariant, PTL

-----------------------------------------------------------------------------
(* The refinement                                                          *)

Got == [k \in 1 .. Len(delivered) |-> delivered[k][1]]

LEMMA GotFacts ==
    ASSUME SseInv
    PROVE  /\ Got \in Seq(Nat) /\ Len(Got) = Len(delivered)
           /\ Got # <<>> => Got[Len(Got)] \in 1 .. parsed
  <1>1. Len(delivered) \in Nat
    BY DEF SseInv, SseTypeOK
  <1>2. \A k \in 1 .. Len(delivered) : delivered[k][1] \in Nat
    BY DEF SseInv, SseTypeOK
  <1>3. Got \in Seq(Nat) /\ Len(Got) = Len(delivered)
    BY <1>1, <1>2 DEF Got
  <1>4. Got # <<>> => Got[Len(Got)] \in 1 .. parsed
    <2> SUFFICES ASSUME Got # <<>> PROVE Got[Len(Got)] \in 1 .. parsed
      OBVIOUS
    <2>1. Len(Got) \in 1 .. Len(delivered)
      BY <1>1, <1>3
    <2>2. Got[Len(Got)] = delivered[Len(Got)][1]
      BY <2>1 DEF Got
    <2> QED
      BY <2>1, <2>2 DEF SseInv, DeliveredAreParsed
  <1> QED
    BY <1>3, <1>4

\* A completed event is handed to the page.
LEMMA BlankLineImplements ==
    ASSUME SseInv, BlankLine
    PROVE  (\E i \in 1 .. Len(sent) : Feed!Deliver(i)) \/ UNCHANGED Feed!feedVars
  <1>1. /\ sent' = sent /\ readerPc = "reading" /\ parsed \in Nat
    BY DEF BlankLine, serverVars, SseInv, SseTypeOK
  <1>2. CASE UNCHANGED <<readerPc, delivered>>
    BY <1>1, <1>2 DEF Feed!feedVars, FeedState
  <1>3. CASE /\ delivered' = Append(delivered, <<parsed + 1, parsed + 1>>)
             /\ readerPc' = AfterCallback(sent[parsed + 1])
    <2>1. /\ Len(delivered') = Len(delivered) + 1
          /\ delivered'[Len(delivered) + 1] = <<parsed + 1, parsed + 1>>
          /\ \A k \in 1 .. Len(delivered) : delivered'[k] = delivered[k]
          /\ Len(delivered) \in Nat
      <3>1. delivered \in Seq(Nat \X Nat) /\ <<parsed + 1, parsed + 1>> \in Nat \X Nat
        BY <1>1 DEF SseInv, SseTypeOK
      <3> QED
        BY <1>3, <3>1, AppendOne
    <2>2. Got' = Append(Got, parsed + 1)
      <3>1. /\ Append(Got, parsed + 1) \in Seq(Nat)
            /\ Len(Append(Got, parsed + 1)) = Len(delivered) + 1
            /\ Append(Got, parsed + 1)[Len(delivered) + 1] = parsed + 1
            /\ \A k \in 1 .. Len(delivered) : Append(Got, parsed + 1)[k] = Got[k]
        <4>1. Got \in Seq(Nat) /\ Len(Got) = Len(delivered) /\ parsed + 1 \in Nat
          BY <1>1, GotFacts
        <4> QED
          BY <4>1, AppendOne
      <3>2. Got' = [k \in 1 .. Len(delivered) + 1 |-> delivered'[k][1]]
        BY <2>1 DEF Got
      <3>3. \A k \in 1 .. Len(delivered) + 1 : delivered'[k][1] = Append(Got, parsed + 1)[k]
        <4> SUFFICES ASSUME NEW k \in 1 .. Len(delivered) + 1
                     PROVE  delivered'[k][1] = Append(Got, parsed + 1)[k]
          OBVIOUS
        <4>1. CASE k = Len(delivered) + 1
          BY <2>1, <3>1, <4>1
        <4>2. CASE k \in 1 .. Len(delivered)
          BY <2>1, <3>1, <4>2 DEF Got
        <4>3. k = Len(delivered) + 1 \/ k \in 1 .. Len(delivered)
          BY <2>1
        <4> QED
          BY <4>1, <4>2, <4>3
      <3>4. Append(Got, parsed + 1) =
               [k \in 1 .. Len(delivered) + 1 |-> Append(Got, parsed + 1)[k]]
        BY <3>1
      <3> QED
        BY <3>2, <3>3, <3>4
    <2>3. Feed!LastGot < parsed + 1
      BY <1>1, GotFacts DEF Feed!LastGot, Got
    <2>4. FeedState = "open"
      BY <1>1 DEF FeedState
    <2>5. FeedState' = IF sent[parsed + 1] \in Feed!Final THEN sent[parsed + 1] ELSE "open"
      BY <1>3 DEF FeedState, AfterCallback, Final, Feed!Final
    <2>6. PICK i \in 1 .. Len(sent) : i = parsed + 1
      BY BlankLineCases
    <2>7. i > Feed!LastGot
      BY <1>1, <2>3, <2>6
    <2>8. Got' = Append(Got, i)
      BY <2>2, <2>6
    <2>9. FeedState' = IF sent[i] \in Feed!Final THEN sent[i] ELSE "open"
      BY <2>5, <2>6
    <2>10. Feed!Deliver(i)
      BY <1>1, <2>4, <2>7, <2>8, <2>9 DEF Feed!Deliver, Feed!LastGot, Got
    <2> QED
      BY <2>10
  <1> QED
    BY <1>2, <1>3, BlankLineCases

LEMMA StepImplements == SseInv /\ [SseNext]_sseVars => [Feed!FeedNext]_Feed!feedVars
  <1> SUFFICES ASSUME SseInv, [SseNext]_sseVars
               PROVE  Feed!FeedNext \/ UNCHANGED Feed!feedVars
    OBVIOUS
  <1>1. CASE \E kind \in Kind : Emit(kind)
    <2>1. PICK kind \in Kind : Emit(kind)
      BY <1>1
    <2>2. Feed!Emit(kind)
      BY <2>1 DEF Emit, readerVars, Terminated, Final, Feed!Emit, Feed!Terminated,
                  Feed!Final, FeedState
    <2> QED
      BY <2>2 DEF Feed!FeedNext, Feed!Kind, Kind
  <1>2. CASE Close \/ (\E n \in 1 .. 3 * Len(sent) : ReadChunk(n)) \/ EventLine \/ DataLine
             \/ UNCHANGED sseVars
    BY <1>2 DEF Close, ReadChunk, EventLine, DataLine, sseVars, serverVars, readerVars,
                Feed!feedVars, FeedState
  <1>3. CASE FetchStream \/ ReadFails \/ ReadEnds
    <2>1. /\ UNCHANGED <<sent, delivered>> /\ readerPc \in {"fetch", "reading"}
          /\ readerPc' \in {"reading", "error", "thrown", "silent"}
      BY <1>3 DEF FetchStream, ReadFails, ReadEnds, serverVars
    <2>2. CASE readerPc' = "reading"
      BY <2>1, <2>2 DEF Feed!feedVars, FeedState
    <2>3. CASE readerPc' # "reading"
      <3>1. Feed!GiveUp
        BY <2>1, <2>3 DEF Feed!GiveUp, FeedState
      <3> QED
        BY <3>1 DEF Feed!FeedNext
    <2> QED
      BY <2>2, <2>3
  <1>4. CASE BlankLine
    BY <1>4, BlankLineImplements DEF Feed!FeedNext
  <1> QED
    BY <1>1, <1>2, <1>3, <1>4 DEF SseNext, ParseLine

\* A page may rely on what EventFeed says of a stream: whatever the chunks are,
\* events reach the page in order, each at most once, and nothing follows the
\* end the page was told of.
THEOREM ReaderImplementsFeed == SseSpec => ImplementsFeed
  <1>1. SseInit => Feed!FeedInit
    <2> SUFFICES ASSUME SseInit PROVE Feed!FeedInit
      OBVIOUS
    <2>1. Len(delivered) = 0
      BY DEF SseInit
    <2>2. [k \in 1 .. Len(delivered) |-> delivered[k][1]] = <<>>
      BY <2>1
    <2> QED
      BY <2>2 DEF SseInit, Feed!FeedInit, FeedState
  <1> QED
    BY <1>1, StepImplements, SseInvariant, PTL DEF SseSpec, ImplementsFeed, Feed!FeedSpec

-----------------------------------------------------------------------------
(* The conversation (RagChat)                                              *)

\* Without a /summary one question is answered at a time, under the lock.
LockInv ==
    summary = {} => /\ \A j, k \in Working : j = k
                    /\ Working # {} => lock

PcOK == pc \in [Send -> {"idle", "creating", "streaming", "over", "silent"}]

LockIInv == PcOK /\ LockInv /\ BusyMeansWorking

-----------------------------------------------------------------------------
LEMMA AtMostOne ==
    ASSUME NEW S, \A x, y \in S : x = y
    PROVE  ~(Cardinality(S) > 1)
<1>1. CASE S = {}
  BY <1>1, FS_EmptySet
<1>2. CASE S # {}
  <2>1. PICK x \in S : TRUE
    BY <1>2
  <2>2. S = {x}
    BY <2>1
  <2> QED BY <2>2, FS_Singleton
<1> QED BY <1>1, <1>2

LEMMA LockStarts == ChatInit => LockIInv
BY DEF ChatInit, LockIInv, PcOK, LockInv, BusyMeansWorking, Working

LEMMA LockGoesOn == LockIInv /\ [ChatNext]_chatVars => LockIInv'
<1> SUFFICES ASSUME LockIInv, [ChatNext]_chatVars PROVE LockIInv'
  OBVIOUS
<1>1. ASSUME NEW k \in Send, NEW how \in Ways, HandleSend(k, how) PROVE LockIInv'
  <2>1. /\ pc[k] = "idle" /\ ~lock /\ lock' = (how # "summary")
        /\ summary' = IF how = "summary" THEN summary \union {k} ELSE summary
        /\ \E new \in {"creating", "streaming"} : pc' = [pc EXCEPT ![k] = new]
        /\ leaked' = leaked
    BY <1>1 DEF HandleSend, OpenStream
  <2>2. PcOK' /\ Working' = Working \union {k} /\ k \notin Working
    BY <2>1 DEF LockIInv, PcOK, Working
  <2>3. LockInv'
    BY <2>1, <2>2 DEF LockIInv, LockInv
  <2> QED BY <2>2, <2>3 DEF LockIInv, BusyMeansWorking
<1>2. CASE SendOpensDialog
  BY <1>2 DEF SendOpensDialog, LockIInv, PcOK, LockInv, BusyMeansWorking, Working
<1>3. ASSUME NEW k \in Send, SessionCreated(k) PROVE LockIInv'
  <2>1. /\ pc[k] = "creating" /\ pc' = [pc EXCEPT ![k] = "streaming"]
        /\ UNCHANGED <<lock, summary>>
    BY <1>3 DEF SessionCreated, OpenStream
  <2>2. PcOK' /\ Working' = Working /\ k \in Working
    BY <2>1 DEF LockIInv, PcOK, Working
  <2> QED BY <2>1, <2>2 DEF LockIInv, LockInv, BusyMeansWorking
<1>4. ASSUME NEW k \in Send,
             SessionNotCreated(k) \/ StreamStep(k)
      PROVE  LockIInv'
  <2>1. /\ pc[k] \in {"creating", "streaming"} /\ summary' = summary
        /\ \E new \in {"over", "silent"} : pc' = [pc EXCEPT ![k] = new]
    BY <1>4 DEF SessionNotCreated, StreamStep, OnDone, OnError, StreamEnds, StreamSilent
  <2>2. PcOK' /\ Working' = Working \ {k} /\ k \in Working
    BY <2>1 DEF LockIInv, PcOK, Working
  <2>3. LockInv'
    BY <2>1, <2>2 DEF LockIInv, LockInv
  <2>4. BusyMeansWorking'
    <3>1. CASE SessionNotCreated(k)
      BY <3>1 DEF SessionNotCreated, BusyMeansWorking
    <3>2. CASE OnDone(k) \/ OnError(k)
      BY <3>2 DEF OnDone, OnError, StreamEnds, BusyMeansWorking
    <3>3. CASE StreamSilent(k)
      <4>1. k \in Silent'
        BY <3>3 DEF StreamSilent, Silent, LockIInv, PcOK
      <4> QED BY <4>1 DEF BusyMeansWorking
    <3> QED BY <1>4, <3>1, <3>2, <3>3 DEF StreamStep
  <2> QED BY <2>2, <2>3, <2>4 DEF LockIInv
<1>5. ASSUME UNCHANGED <<pc, lock, loading, summary, leaked>> PROVE LockIInv'
  BY <1>5 DEF LockIInv, PcOK, LockInv, BusyMeansWorking, Working, Silent
<1>6. CASE HandleClearChat \/ ClearCommand \/ ExitAgentMode
  BY <1>5, <1>6 DEF HandleClearChat, ClearCommand, ExitAgentMode, EmptyTheChat
<1>7. CASE HandleCreate \/ CreateAnswered \/ DeleteAnswered \/ FetchSessions
  BY <1>5, <1>7 DEF HandleCreate, CreateAnswered, DeleteAnswered, FetchSessions
<1>8. ASSUME NEW k \in Send, ServerStores(k) PROVE LockIInv'
  BY <1>5, <1>8 DEF ServerStores
<1>9. ASSUME NEW l \in Load, NEW s \in Session, HandleSelectSession(l, s)
       PROVE  LockIInv'
  BY <1>5, <1>9 DEF HandleSelectSession
<1>10. ASSUME NEW s \in Session, HandleDeleteSession(s) PROVE LockIInv'
  BY <1>5, <1>10 DEF HandleDeleteSession
<1>11. ASSUME NEW l \in Load, ServerReads(l) \/ LoadArrives(l) \/ LoadFails(l)
       PROVE  LockIInv'
  BY <1>5, <1>11 DEF ServerReads, LoadArrives, LoadFails
<1>12. CASE UNCHANGED chatVars
  BY <1>5, <1>12 DEF chatVars
<1> QED BY <1>1, <1>2, <1>3, <1>4, <1>6, <1>7, <1>8, <1>9, <1>10, <1>11, <1>12
        DEF ChatNext, UserActs, ServerAnswers

\* Two questions are answered at once only after a /summary, and the page
\* refuses questions only while it works on one or after an exit that forgot
\* the lock, in every order of overlapping questions (sendingRef of handleSend).
THEOREM LockDoesItsWork == ChatSpec => []LockMeansWork
<1>1. LockIInv => LockMeansWork
  BY AtMostOne DEF LockIInv, LockInv, LockMeansWork, OverlapNeedsSummary
<1> QED BY LockStarts, LockGoesOn, <1>1, PTL DEF ChatSpec

-----------------------------------------------------------------------------
ScreenTypes ==
    /\ exists \subseteq Session /\ listed \subseteq Session
    /\ stored \subseteq Turn /\ old \subseteq Turn
    /\ home \in [Turn -> Session \union {NoSession}]
    /\ sessionId \in Session \union {NoSession}
    /\ live \in [Send -> {"absent", "open", "full", "failed"}]
    /\ pc \in [Send -> {"idle", "creating", "streaming", "over", "silent"}]
    /\ load \in [Load -> [pc : {"idle", "asked", "read", "over"},
                          sid : Session \union {NoSession}, turns : SUBSET Turn]]

\* The turns of a load are those of its session, and a turn that is stored, shown
\* or loaded belongs to a session; a question that is not asked yet is none.
HomeInv ==
    /\ old \subseteq stored
    /\ \A t \in stored \union OnScreen : home[t] \in Session
    /\ \A k \in Send : pc[k] \in {"idle", "creating"} =>
          k \notin stored /\ live[k] = "absent"
    /\ \A k \in Send : pc[k] = "streaming" => home[k] \in Session

LoadInv ==
    \A l \in Load :
        /\ load[l].pc \in {"asked", "read"} => load[l].sid \in Session
        /\ load[l].turns \subseteq stored
        /\ load[l].pc = "read" => \A t \in load[l].turns : home[t] = load[l].sid

\* The two conjuncts of ScreenMatchesSession.
Loading == \E l \in Load : load[l].sid = sessionId /\ load[l].pc \in {"asked", "read"}
OfSession == spoiled \/ Loading \/ \A t \in OnScreen : home[t] = sessionId
OpenIsFed == \A k \in Send : live[k] = "open" => pc[k] \in {"streaming", "silent"}

ScreenInv == ScreenTypes /\ HomeInv /\ LoadInv /\ OfSession /\ OpenIsFed

LEMMA ScreenStarts == ChatInit => ScreenInv
<1> SUFFICES ASSUME ChatInit PROVE ScreenInv
  OBVIOUS
<1> USE RagChatAssumption DEF ChatInit, Turn, NoLoad
<1>1. ScreenTypes
  BY DEF ScreenTypes
<1>2. OnScreen = {}
  BY DEF OnScreen
<1>3. HomeInv /\ LoadInv
  BY <1>2 DEF HomeInv, LoadInv
<1>4. OfSession /\ OpenIsFed
  BY <1>2 DEF OfSession, OpenIsFed
<1> QED BY <1>1, <1>3, <1>4 DEF ScreenInv

\* A stream is opened for the active session, or for one that was just created.
LEMMA StreamOpens ==
    ASSUME ScreenInv, NEW k \in Send, NEW s \in Session, OpenStream(k, s),
           pc[k] \in {"idle", "creating"},
           UNCHANGED <<stored, old, load>>,
           spoiled => spoiled',
           sessionId' = s,
           sessionId = s \/ sessionId = NoSession \/ spoiled',
           ScreenTypes'
    PROVE  ScreenInv'
<1> USE RagChatAssumption DEF Turn
<1>1. /\ home' = [home EXCEPT ![k] = s] /\ live' = [live EXCEPT ![k] = "open"]
      /\ pc' = [pc EXCEPT ![k] = "streaming"]
      /\ k \notin stored /\ k \notin OnScreen /\ k \in Turn
      /\ home \in [Turn -> Session \union {NoSession}]
  BY DEF OpenStream, ScreenInv, ScreenTypes, HomeInv, OnScreen
<1>2. OnScreen' = OnScreen \union {k}
  BY <1>1 DEF OnScreen, ScreenInv, ScreenTypes
<1>3. /\ home'[k] = s
      /\ \A t \in stored \union OnScreen : home'[t] = home[t]
  BY <1>1 DEF ScreenInv, ScreenTypes, HomeInv, OnScreen
<1>4. HomeInv'
  BY <1>1, <1>2, <1>3 DEF ScreenInv, HomeInv, ScreenTypes
<1>5. LoadInv'
  BY <1>3 DEF ScreenInv, LoadInv
<1>6. OfSession'
  <2>1. CASE sessionId = s
    BY <2>1, <1>2, <1>3 DEF ScreenInv, OfSession, Loading
  <2>2. CASE sessionId = NoSession
    <3>1. ~Loading
      BY <2>2 DEF Loading, ScreenInv, LoadInv
    <3>2. spoiled \/ OnScreen = {}
      BY <2>2, <3>1 DEF ScreenInv, OfSession, HomeInv
    <3> QED BY <3>2, <1>2, <1>3 DEF OfSession
  <2>3. CASE spoiled'
    BY <2>3 DEF OfSession
  <2> QED BY <2>1, <2>2, <2>3
<1>7. OpenIsFed'
  BY <1>1 DEF ScreenInv, OpenIsFed, ScreenTypes
<1> QED BY <1>4, <1>5, <1>6, <1>7 DEF ScreenInv

\* The screen is emptied, or shows the turns that a load has read.
LEMMA TurnsAreShown ==
    ASSUME ScreenInv, NEW turns \in SUBSET stored, Show(turns),
           UNCHANGED <<stored, home, pc>>, ScreenTypes', LoadInv',
           spoiled' \/ \A t \in turns : home[t] = sessionId'
    PROVE  ScreenInv'
<1>1. OnScreen' = turns
  BY DEF Show, OnScreen
<1>2. HomeInv'
  BY <1>1 DEF ScreenInv, HomeInv, Show
<1>3. OfSession' /\ OpenIsFed'
  BY <1>1 DEF ScreenInv, OfSession, OpenIsFed, Show
<1> QED BY <1>2, <1>3 DEF ScreenInv

LEMMA LoadStays ==
    ASSUME ScreenTypes, NEW l \in Load, NEW new \in {"read", "over"},
           NEW turns \in SUBSET Turn,
           load' = [load EXCEPT ![l].pc = new, ![l].turns = turns]
    PROVE  load' \in [Load -> [pc : {"idle", "asked", "read", "over"},
                              sid : Session \union {NoSession}, turns : SUBSET Turn]]
<1> DEFINE changed == [pc |-> new, sid |-> load[l].sid, turns |-> turns]
<1>1. load[l] \in [pc : {"idle", "asked", "read", "over"},
                   sid : Session \union {NoSession}, turns : SUBSET Turn]
  BY DEF ScreenTypes
<1>2. changed \in [pc : {"idle", "asked", "read", "over"},
                   sid : Session \union {NoSession}, turns : SUBSET Turn]
  BY <1>1
<1>3. /\ load' = [m \in Load |-> load'[m]]
      /\ \A m \in Load : m # l => load'[m] = load[m]
  BY DEF ScreenTypes
<1>4. load'[l] = [[load[l] EXCEPT !.pc = new] EXCEPT !.turns = turns]
  BY DEF ScreenTypes
<1>5. load'[l] = changed
  <2> DEFINE v == [[load[l] EXCEPT !.pc = new] EXCEPT !.turns = turns]
  <2>1. DOMAIN load[l] = {"pc", "sid", "turns"}
    BY <1>1
  <2>2. DOMAIN v = {"pc", "sid", "turns"}
    BY <2>1
  <2>3. v.pc = new /\ v.sid = load[l].sid /\ v.turns = turns
    BY <2>1
  <2>4. v = [f \in {"pc", "sid", "turns"} |-> v[f]]
    BY <2>2
  <2> HIDE DEF v
  <2>5. v = changed
    BY <2>3, <2>4
  <2> QED BY <1>4, <2>5 DEF v
<1> QED BY <1>2, <1>3, <1>5 DEF ScreenTypes

LEMMA TypesGoOn == ScreenTypes /\ [ChatNext]_chatVars => ScreenTypes'
<1> SUFFICES ASSUME ScreenTypes, [ChatNext]_chatVars PROVE ScreenTypes'
  OBVIOUS
<1> USE RagChatAssumption DEF ScreenTypes, Turn
<1>1. ASSUME NEW k \in Send, NEW how \in Ways, HandleSend(k, how) PROVE ScreenTypes'
  <2>1. CASE sessionId # NoSession
    BY <1>1, <2>1 DEF HandleSend, OpenStream
  <2>2. CASE sessionId = NoSession
    BY <1>1, <2>2 DEF HandleSend
  <2> QED BY <2>1, <2>2
<1>2. ASSUME NEW k \in Send, SessionCreated(k) PROVE ScreenTypes'
  <2>1. PICK s \in FreshSession : /\ exists' = exists \union {s} /\ sessionId' = s
                                 /\ OpenStream(k, s)
    BY <1>2 DEF SessionCreated
  <2> QED BY <1>2, <2>1 DEF SessionCreated, OpenStream, FreshSession
<1>3. ASSUME NEW k \in Send, SessionNotCreated(k) \/ ServerStores(k) \/ StreamSilent(k)
      PROVE  ScreenTypes'
  BY <1>3 DEF SessionNotCreated, ServerStores, StreamSilent
<1>4. ASSUME NEW k \in Send, NEW content \in {"full", "failed"}, StreamEnds(k, content)
      PROVE  ScreenTypes'
  BY <1>4 DEF StreamEnds, Answer
<1>5. CASE SendOpensDialog \/ HandleClearChat \/ ClearCommand \/ ExitAgentMode
  BY <1>5 DEF SendOpensDialog, HandleClearChat, ClearCommand, ExitAgentMode, EmptyTheChat,
              Show
<1>6. ASSUME NEW l \in Load, NEW s \in Session, HandleSelectSession(l, s)
      PROVE  ScreenTypes'
  BY <1>6 DEF HandleSelectSession
<1>7. ASSUME NEW l \in Load, ServerReads(l) PROVE ScreenTypes'
  <2>1. {t \in stored : home[t] = load[l].sid} \in SUBSET Turn
    OBVIOUS
  <2> QED BY <1>7, <2>1, LoadStays DEF ServerReads
<1>8. ASSUME NEW l \in Load, LoadArrives(l) PROVE ScreenTypes'
  <2>1. /\ load[l].turns \in SUBSET Turn
        /\ load' = [load EXCEPT ![l].pc = "over", ![l].turns = {}]
        /\ old' = load[l].turns /\ live' = [k \in Send |-> "absent"]
        /\ UNCHANGED <<exists, listed, stored, home, sessionId, pc>>
    BY <1>8 DEF LoadArrives, Show
  <2> QED BY <2>1, LoadStays
<1>9. ASSUME NEW l \in Load, LoadFails(l) PROVE ScreenTypes'
  BY <1>9, LoadStays DEF LoadFails
<1>10. CASE CreateAnswered
  <2>1. /\ UNCHANGED <<listed, stored, home, pc, load>>
        /\ \/ \E s \in Session : exists' = exists \union {s} /\ sessionId' = s /\ Show({})
           \/ UNCHANGED <<exists, sessionId, live, old>>
    BY <1>10 DEF CreateAnswered, FreshSession
  <2> QED BY <2>1 DEF Show
<1>11. CASE DeleteAnswered
  <2>1. exists' \subseteq exists /\ UNCHANGED <<listed, stored, home, sessionId, live, old, pc, load>>
    BY <1>11 DEF DeleteAnswered
  <2> QED BY <2>1
<1>12. CASE HandleCreate \/ FetchSessions
  BY <1>12 DEF HandleCreate, FetchSessions
<1>13. ASSUME NEW s \in Session, HandleDeleteSession(s) PROVE ScreenTypes'
  BY <1>13 DEF HandleDeleteSession
<1>14. CASE UNCHANGED chatVars
  BY <1>14 DEF chatVars
<1> QED BY <1>1, <1>2, <1>3, <1>4, <1>5, <1>6, <1>7, <1>8, <1>9, <1>10, <1>11, <1>12,
           <1>13, <1>14
        DEF ChatNext, UserActs, ServerAnswers, StreamStep, OnDone, OnError

LEMMA ScreenGoesOn == ScreenInv /\ [ChatNext]_chatVars => ScreenInv'
<1> SUFFICES ASSUME ScreenInv, [ChatNext]_chatVars PROVE ScreenInv'
  OBVIOUS
<1> USE RagChatAssumption
<1>1. ScreenTypes'
  BY TypesGoOn DEF ScreenInv
<1>2. /\ sessionId \in Session \union {NoSession} /\ NoSession \notin Session
      /\ listed \subseteq Session /\ stored \subseteq Turn
      /\ load \in [Load -> [pc : {"idle", "asked", "read", "over"},
                             sid : Session \union {NoSession}, turns : SUBSET Turn]]
      /\ pc \in [Send -> {"idle", "creating", "streaming", "over", "silent"}]
      /\ live \in [Send -> {"absent", "open", "full", "failed"}]
  BY DEF ScreenInv, ScreenTypes
<1>3. ASSUME NEW k \in Send, NEW how \in Ways, HandleSend(k, how) PROVE ScreenInv'
  <2>1. CASE sessionId # NoSession
    BY <1>1, <1>2, <1>3, <2>1, StreamOpens DEF HandleSend
  <2>2. CASE sessionId = NoSession
    <3>1. /\ pc[k] = "idle" /\ pc' = [pc EXCEPT ![k] = "creating"]
          /\ UNCHANGED <<home, live, stored, sessionId, old, load, spoiled>>
      BY <1>3, <2>2 DEF HandleSend
    <3>2. OnScreen' = OnScreen
      BY <3>1 DEF OnScreen
    <3>3. HomeInv' /\ OpenIsFed'
      BY <1>2, <3>1, <3>2 DEF ScreenInv, HomeInv, OpenIsFed
    <3>4. LoadInv' /\ OfSession'
      BY <3>1, <3>2 DEF ScreenInv, LoadInv, OfSession, Loading
    <3> QED BY <1>1, <3>3, <3>4 DEF ScreenInv
  <2> QED BY <2>1, <2>2
<1>4. ASSUME NEW k \in Send, SessionCreated(k) PROVE ScreenInv'
  <2>1. PICK s \in FreshSession : sessionId' = s /\ OpenStream(k, s)
    BY <1>4 DEF SessionCreated
  <2>2. /\ pc[k] = "creating" /\ UNCHANGED <<stored, old, load>> /\ s \in Session
        /\ spoiled' = (spoiled \/ sessionId # NoSession)
    BY <1>4, <2>1 DEF SessionCreated, FreshSession
  <2> QED BY <1>1, <2>1, <2>2, StreamOpens
<1>5. ASSUME NEW k \in Send, SessionNotCreated(k) \/ StreamSilent(k) PROVE ScreenInv'
  <2>1. /\ \/ pc[k] = "creating" /\ pc' = [pc EXCEPT ![k] = "over"]
           \/ pc[k] = "streaming" /\ pc' = [pc EXCEPT ![k] = "silent"]
        /\ UNCHANGED <<home, live, stored, sessionId, old, load, spoiled>>
    BY <1>5 DEF SessionNotCreated, StreamSilent
  <2>2. OnScreen' = OnScreen
    BY <2>1 DEF OnScreen
  <2>3. HomeInv' /\ OpenIsFed'
    BY <1>2, <2>1, <2>2 DEF ScreenInv, HomeInv, OpenIsFed
  <2>4. LoadInv' /\ OfSession'
    BY <2>1, <2>2 DEF ScreenInv, LoadInv, OfSession, Loading
  <2> QED BY <1>1, <2>3, <2>4 DEF ScreenInv
<1>6. ASSUME NEW k \in Send, ServerStores(k) PROVE ScreenInv'
  <2>1. /\ pc[k] = "streaming" /\ stored' = stored \union {k} /\ k \in Turn
        /\ UNCHANGED <<home, live, sessionId, old, load, pc, spoiled>>
    BY <1>6 DEF ServerStores, Turn
  <2>2. OnScreen' = OnScreen
    BY <2>1 DEF OnScreen
  <2>3. home[k] \in Session
    BY <2>1 DEF ScreenInv, HomeInv
  <2>4. HomeInv'
    BY <1>2, <2>1, <2>2, <2>3 DEF ScreenInv, HomeInv
  <2>5. LoadInv' /\ OfSession' /\ OpenIsFed'
    BY <2>1, <2>2 DEF ScreenInv, LoadInv, OfSession, Loading, OpenIsFed
  <2> QED BY <1>1, <2>4, <2>5 DEF ScreenInv
<1>7. ASSUME NEW k \in Send, NEW content \in {"full", "failed"}, StreamEnds(k, content)
      PROVE  ScreenInv'
  <2>1. /\ pc[k] = "streaming" /\ pc' = [pc EXCEPT ![k] = "over"]
        /\ live' = [live EXCEPT ![k] = IF @ = "absent" THEN @ ELSE content]
        /\ UNCHANGED <<home, stored, sessionId, old, load, spoiled>>
    BY <1>7 DEF StreamEnds, Answer
  <2>2. OnScreen' = OnScreen
    BY <1>2, <2>1 DEF OnScreen
  <2>3. HomeInv' /\ OpenIsFed'
    BY <1>2, <2>1, <2>2 DEF ScreenInv, HomeInv, OpenIsFed
  <2>4. LoadInv' /\ OfSession'
    BY <2>1, <2>2 DEF ScreenInv, LoadInv, OfSession, Loading
  <2> QED BY <1>1, <2>3, <2>4 DEF ScreenInv
<1>8. CASE HandleClearChat \/ ClearCommand \/ ExitAgentMode
  <2>1. Show({}) /\ UNCHANGED <<stored, home, pc, load>>
    BY <1>8 DEF HandleClearChat, ClearCommand, ExitAgentMode, EmptyTheChat
  <2>2. LoadInv'
    BY <2>1 DEF ScreenInv, LoadInv
  <2> QED BY <1>1, <2>1, <2>2, TurnsAreShown
<1>9. ASSUME NEW l \in Load, NEW s \in Session, HandleSelectSession(l, s)
      PROVE  ScreenInv'
  <2>1. /\ sessionId' = s
        /\ load' = [load EXCEPT ![l] = [pc |-> "asked", sid |-> s, turns |-> {}]]
        /\ UNCHANGED <<stored, home, live, old, pc, spoiled>>
    BY <1>9 DEF HandleSelectSession
  <2>2. LoadInv'
    BY <1>2, <2>1 DEF ScreenInv, LoadInv
  <2>3. Loading'
    BY <1>2, <2>1 DEF Loading
  <2>4. HomeInv' /\ OpenIsFed'
    BY <2>1 DEF ScreenInv, HomeInv, OpenIsFed, OnScreen
  <2> QED BY <1>1, <2>2, <2>3, <2>4 DEF ScreenInv, OfSession
<1>10. ASSUME NEW l \in Load, ServerReads(l) PROVE ScreenInv'
  <2> DEFINE turns == {t \in stored : home[t] = load[l].sid}
  <2>1. /\ load[l].pc = "asked"
        /\ load' = [load EXCEPT ![l].pc = "read", ![l].turns = turns]
        /\ UNCHANGED <<stored, home, live, old, pc, sessionId, spoiled>>
    BY <1>10 DEF ServerReads
  <2>2. \A m \in Load : /\ load'[m].sid = load[m].sid
                        /\ m # l => load'[m] = load[m]
    BY <1>2, <2>1
  <2>3. load'[l].pc = "read" /\ load'[l].turns = turns
    BY <1>2, <2>1
  <2>4. LoadInv'
    <3> SUFFICES ASSUME NEW m \in Load
                 PROVE  /\ load'[m].pc \in {"asked", "read"} => load'[m].sid \in Session
                        /\ load'[m].turns \subseteq stored
                        /\ load'[m].pc = "read" =>
                              \A t \in load'[m].turns : home[t] = load'[m].sid
      BY <2>1 DEF LoadInv
    <3>1. CASE m = l
      <4>1. load[l].sid \in Session /\ load'[l].sid = load[l].sid
        BY <2>1, <2>2 DEF ScreenInv, LoadInv
      <4>2. turns \subseteq stored /\ \A t \in turns : home[t] = load[l].sid
        OBVIOUS
      <4> HIDE DEF turns
      <4> QED BY <2>3, <3>1, <4>1, <4>2
    <3>2. CASE m # l
      BY <2>2, <3>2 DEF ScreenInv, LoadInv
    <3> QED BY <3>1, <3>2
  <2>5. OfSession'
    BY <2>1, <2>2, <2>3 DEF ScreenInv, OfSession, Loading, OnScreen
  <2>6. HomeInv' /\ OpenIsFed'
    BY <2>1 DEF ScreenInv, HomeInv, OpenIsFed, OnScreen
  <2> QED BY <1>1, <2>4, <2>5, <2>6 DEF ScreenInv
<1>11. ASSUME NEW l \in Load, LoadArrives(l) \/ LoadFails(l) PROVE ScreenInv'
  <2>1. /\ load' = [load EXCEPT ![l].pc = "over", ![l].turns = {}]
        /\ UNCHANGED <<stored, home, pc, sessionId>>
    BY <1>11 DEF LoadArrives, LoadFails
  <2>2. LoadInv'
    BY <1>2, <2>1 DEF ScreenInv, LoadInv
  <2>3. CASE LoadArrives(l)
    <3>1. /\ Show(load[l].turns) /\ load[l].turns \in SUBSET stored
          /\ \A t \in load[l].turns : home[t] = load[l].sid
          /\ spoiled' = (spoiled \/ sessionId # load[l].sid)
      BY <2>3 DEF LoadArrives, ScreenInv, LoadInv
    <3> QED BY <1>1, <2>1, <2>2, <3>1, TurnsAreShown
  <2>4. CASE LoadFails(l)
    <3>1. spoiled' /\ UNCHANGED <<live, old>>
      BY <2>4 DEF LoadFails
    <3> QED BY <1>1, <2>1, <2>2, <3>1
            DEF ScreenInv, HomeInv, OfSession, OpenIsFed, OnScreen
  <2> QED BY <1>11, <2>3, <2>4
<1>12. CASE CreateAnswered
  <2>1. UNCHANGED <<stored, home, pc, load, spoiled>>
    BY <1>12 DEF CreateAnswered
  <2>2. LoadInv'
    BY <2>1 DEF ScreenInv, LoadInv
  <2>3. CASE Show({})
    BY <1>1, <2>1, <2>2, <2>3, TurnsAreShown
  <2>4. CASE UNCHANGED <<sessionId, live, old>>
    BY <1>1, <2>1, <2>2, <2>4 DEF ScreenInv, HomeInv, OfSession, OpenIsFed, Loading, OnScreen
  <2> QED BY <1>12, <2>3, <2>4 DEF CreateAnswered
<1>13. ASSUME UNCHANGED <<stored, home, live, old, pc, load, sessionId, spoiled>>
       PROVE  ScreenInv'
  BY <1>1, <1>13 DEF ScreenInv, HomeInv, LoadInv, OfSession, OpenIsFed, Loading, OnScreen
<1>14. CASE SendOpensDialog \/ HandleCreate \/ DeleteAnswered \/ FetchSessions
  BY <1>13, <1>14 DEF SendOpensDialog, HandleCreate, DeleteAnswered, FetchSessions
<1>15. ASSUME NEW s \in Session, HandleDeleteSession(s) PROVE ScreenInv'
  BY <1>13, <1>15 DEF HandleDeleteSession
<1>16. CASE UNCHANGED chatVars
  BY <1>13, <1>16 DEF chatVars
<1> QED BY <1>3, <1>4, <1>5, <1>6, <1>7, <1>8, <1>9, <1>10, <1>11, <1>12, <1>14, <1>15,
           <1>16
        DEF ChatNext, UserActs, ServerAnswers, StreamStep, OnDone, OnError

\* The screen shows the turns of the active session, but for the loads and the
\* three events the handlers do not look for, and an answer that has not ended
\* has a stream that feeds it (handleSelectSession, loadSessionMessages and
\* handleSend of the question page).
THEOREM ScreenIsOfTheSession == ChatSpec => []ScreenMatchesSession
<1>1. ScreenInv => ScreenMatchesSession
  BY DEF ScreenInv, OfSession, OpenIsFed, Loading, ScreenMatchesSession
<1> QED BY ScreenStarts, ScreenGoesOn, <1>1, PTL DEF ChatSpec

-----------------------------------------------------------------------------
(* The answers (MessageActions)                                            *)

\* A call is about an answer exactly while it is under way, and it carries
\* the feedback its kind sends; a restore carries none before it is served.
CallsInv ==
    \A c \in FeedbackCall :
        LET call == fbCall[c] IN
        /\ call.pc \in {"idle", "over"} => call = [UnusedCall EXCEPT !.pc = call.pc]
        /\ call.pc \in {"sent", "served"} => call.msg \in Message
        /\ call.op = "like" => call.type = "LIKE"
        /\ call.op = "negative" => call.type \in Negative
        /\ call.op = "restore" => call.type \in Feedback \union {"none"}
        /\ call.pc = "sent" => call.op # "none" /\ (call.op = "restore" => call.type = "none")

\* What a call that the server has answered carries is stored.
ServedInv ==
    \A c \in FeedbackCall :
        fbCall[c].pc = "served" /\ fbCall[c].type # "none" =>
            <<fbCall[c].msg, fbCall[c].type>> \in accepted

\* So is the feedback the server keeps now, and a negative one on the screen,
\* which is never shown early.
StoredInv ==
    \A m \in Message :
        /\ feedback[m] # "none" => <<m, feedback[m]>> \in accepted
        /\ feedbackType[m] \in Negative => <<m, feedbackType[m]>> \in accepted

CallRecord == [pc : {"idle", "sent", "served", "over"},
               op : {"none", "like", "negative", "restore"},
               msg : Message \union {NoMessage}, type : Feedback \union {"none"}]

MessageInv ==
    /\ MessageTypeOK /\ fbCall \in [FeedbackCall -> CallRecord]
    /\ CallsInv /\ ServedInv /\ StoredInv /\ ShownFeedbackWasStored

LEMMA MessagesStart == MessageInit => MessageInv
<1> SUFFICES ASSUME MessageInit PROVE MessageInv
  OBVIOUS
<1> USE DEF MessageInit, UnusedCall, Feedback, Negative
<1>1. fbCall \in [FeedbackCall -> CallRecord]
  BY DEF CallRecord
<1>2. accepted \subseteq Message \X Feedback
  OBVIOUS
<1>3. MessageTypeOK
  BY <1>2 DEF MessageTypeOK, NoDialog
<1>4. CallsInv /\ ServedInv
  BY DEF CallsInv, ServedInv
<1>5. StoredInv /\ ShownFeedbackWasStored
  BY DEF StoredInv, ShownFeedbackWasStored
<1> QED BY <1>1, <1>3, <1>4, <1>5 DEF MessageInv

\* Sending a call takes nothing from the screen's support.
LEMMA SendingKeeps ==
    ASSUME MessageInv, NEW c \in FeedbackCall, NEW m \in Message,
           NEW op \in {"like", "negative", "restore"}, NEW type,
           SendCall(c, op, m, type), UNCHANGED <<feedback, accepted>>,
           \/ op = "like" /\ type = "LIKE" /\ Mark(m, type, TRUE)
           \/ op = "negative" /\ type \in Negative /\ UNCHANGED <<feedbackType, liked>>
           \/ op = "restore" /\ type = "none" /\ UNCHANGED <<feedbackType, liked>>,
           submitting' \in BOOLEAN, popover' = popover
    PROVE  MessageInv'
<1> DEFINE call == [pc |-> "sent", op |-> op, msg |-> m, type |-> type]
<1>1. /\ fbCall[c].pc = "idle" /\ fbCall[c].msg = NoMessage
      /\ fbCall' = [fbCall EXCEPT ![c] = call] /\ fbCall'[c] = call
      /\ \A d \in FeedbackCall \ {c} : fbCall'[d] = fbCall[d]
  BY DEF SendCall, MessageInv, CallsInv, UnusedCall
<1>2. MessageTypeOK'
  <2>1. MessageTypeOK
    BY DEF MessageInv
  <2>2. \A d \in FeedbackCall :
           /\ fbCall'[d].pc \in {"idle", "sent", "served", "over"}
           /\ fbCall'[d].op \in {"none", "like", "negative", "restore"}
    <3>1. fbCall'[c].pc = "sent" /\ fbCall'[c].op = op
      BY <1>1
    <3> QED BY <1>1, <2>1, <3>1 DEF MessageTypeOK
  <2>3. /\ feedbackType' \in [Message -> Feedback \union {"none"}]
        /\ liked' \in [Message -> BOOLEAN]
    <3>1. CASE op = "like"
      <4>1. "LIKE" \in Feedback \union {"none"}
        BY DEF Feedback
      <4>2. Mark(m, "LIKE", TRUE)
        BY <3>1
      <4>3. feedbackType' \in [Message -> Feedback \union {"none"}]
        BY <2>1, <4>1, <4>2 DEF Mark, MessageTypeOK
      <4>4. liked' \in [Message -> BOOLEAN]
        BY <2>1, <4>2 DEF Mark, MessageTypeOK
      <4> QED BY <4>3, <4>4
    <3>2. CASE op # "like"
      <4>1. feedbackType' = feedbackType /\ liked' = liked
        BY <3>2
      <4> QED BY <2>1, <4>1 DEF MessageTypeOK
    <3> QED BY <3>1, <3>2
  <2> QED BY <2>1, <2>2, <2>3 DEF MessageTypeOK
<1>3. fbCall' \in [FeedbackCall -> CallRecord]
  BY <1>1 DEF MessageInv, CallRecord, Feedback, Negative
<1>4. CallsInv'
  BY <1>1 DEF MessageInv, CallsInv, Feedback, Negative
<1>5. ServedInv'
  BY <1>1 DEF MessageInv, ServedInv
<1>6. StoredInv'
  BY DEF MessageInv, StoredInv, Mark, Negative, MessageTypeOK
<1>7. \A n \in Message, t \in Feedback : OnTheWay(n, t) => OnTheWay(n, t)'
  BY <1>1, MessageActionsAssumption DEF OnTheWay
<1>8. op = "like" => OnTheWay(m, "LIKE")'
  BY <1>1 DEF OnTheWay
<1>9. ShownFeedbackWasStored'
  <2>1. CASE op = "like"
    BY <1>7, <1>8, <2>1 DEF MessageInv, ShownFeedbackWasStored, Mark, MessageTypeOK, Feedback
  <2>2. CASE op # "like"
    <3>1. feedbackType' = feedbackType /\ liked' = liked /\ accepted' = accepted
      BY <2>2
    <3>2. ShownFeedbackWasStored
      BY DEF MessageInv
    <3>3. \A n \in Message : feedbackType[n] # "none" => feedbackType[n] \in Feedback
      BY DEF MessageInv, MessageTypeOK
    <3> SUFFICES ASSUME NEW n \in Message
                 PROVE  /\ feedbackType'[n] # "none" =>
                              \/ <<n, feedbackType'[n]>> \in accepted'
                              \/ OnTheWay(n, feedbackType[n])'
                        /\ liked'[n] => \/ <<n, "LIKE">> \in accepted'
                                        \/ OnTheWay(n, "LIKE")'
      BY DEF ShownFeedbackWasStored
    <3>4. feedbackType[n] # "none" =>
             \/ <<n, feedbackType[n]>> \in accepted
             \/ OnTheWay(n, feedbackType[n])'
      BY <1>7, <3>2, <3>3, <3>1 DEF ShownFeedbackWasStored
    <3>5. liked[n] => \/ <<n, "LIKE">> \in accepted
                      \/ OnTheWay(n, "LIKE")'
      BY <1>7, <3>2 DEF ShownFeedbackWasStored, Feedback
    <3> QED BY <3>1, <3>4, <3>5
  <2> QED BY <2>1, <2>2
<1> QED BY <1>2, <1>3, <1>4, <1>5, <1>6, <1>9 DEF MessageInv

\* The end of a call, when what it leaves on the screen is stored: only a like
\* that was not answered yet may have been all that stood behind a mark.
LEMMA EndingKeeps ==
    ASSUME MessageInv, NEW c \in FeedbackCall, fbCall[c].pc \in {"sent", "served"},
           fbCall' = [fbCall EXCEPT ![c] = [UnusedCall EXCEPT !.pc = "over"]],
           EndFeedbackCall(c), UNCHANGED <<feedback, accepted>>,
           MessageTypeOK', StoredInv',
           \A m \in Message :
              /\ feedbackType'[m] = "LIKE" =>
                    \/ <<m, "LIKE">> \in accepted
                    \/ feedbackType[m] = "LIKE" /\ (fbCall[c].op = "like" => fbCall[c].msg # m)
              /\ liked'[m] =>
                    \/ <<m, "LIKE">> \in accepted
                    \/ liked[m] /\ (fbCall[c].op = "like" => fbCall[c].msg # m)
    PROVE  MessageInv'
<1>1. /\ fbCall'[c] = [pc |-> "over", op |-> "none", msg |-> NoMessage, type |-> "none"]
      /\ \A d \in FeedbackCall \ {c} : fbCall'[d] = fbCall[d]
      /\ fbCall' \in [FeedbackCall -> CallRecord]
  BY DEF MessageInv, UnusedCall, CallRecord
<1>2. CallsInv'
  BY <1>1 DEF MessageInv, CallsInv, UnusedCall, Feedback, Negative
<1>3. ServedInv'
  BY <1>1 DEF MessageInv, ServedInv
<1>4. \A m \in Message :
         OnTheWay(m, "LIKE") =>
            \/ OnTheWay(m, "LIKE")'
            \/ <<m, "LIKE">> \in accepted
            \/ fbCall[c].op = "like" /\ fbCall[c].msg = m
  <2> SUFFICES ASSUME NEW m \in Message, NEW d \in FeedbackCall,
                      fbCall[d].pc # "over", fbCall[d].msg = m, fbCall[d].type = "LIKE"
               PROVE  \/ OnTheWay(m, "LIKE")'
                      \/ <<m, "LIKE">> \in accepted
                      \/ fbCall[c].op = "like" /\ fbCall[c].msg = m
    BY DEF OnTheWay
  <2>1. CASE d # c
    BY <2>1, <1>1 DEF OnTheWay
  <2>2. CASE d = c
    BY <2>2 DEF MessageInv, CallsInv, ServedInv, CallRecord, Negative
  <2> QED BY <2>1, <2>2
<1>5. ShownFeedbackWasStored'
  <2> SUFFICES ASSUME NEW m \in Message
               PROVE  /\ feedbackType'[m] # "none" =>
                            \/ <<m, feedbackType'[m]>> \in accepted'
                            \/ OnTheWay(m, feedbackType[m])'
                      /\ liked'[m] => \/ <<m, "LIKE">> \in accepted'
                                      \/ OnTheWay(m, "LIKE")'
    BY DEF ShownFeedbackWasStored
  <2>1. feedbackType'[m] \in Negative => <<m, feedbackType'[m]>> \in accepted'
    BY DEF StoredInv
  <2>2. feedbackType'[m] = "LIKE" =>
           <<m, "LIKE">> \in accepted \/ OnTheWay(m, "LIKE")'
    BY <1>4 DEF MessageInv, ShownFeedbackWasStored
  <2>3. liked'[m] => <<m, "LIKE">> \in accepted \/ OnTheWay(m, "LIKE")'
    BY <1>4 DEF MessageInv, ShownFeedbackWasStored
  <2>4. feedbackType'[m] \in {"LIKE", "none"} \union Negative
    BY DEF MessageTypeOK, Feedback
  <2>5. feedbackType'[m] = "LIKE" => OnTheWay(m, feedbackType[m])' = OnTheWay(m, "LIKE")'
    BY DEF OnTheWay
  <2> QED BY <2>1, <2>2, <2>3, <2>4, <2>5
<1> QED BY <1>1, <1>2, <1>3, <1>5 DEF MessageInv

LEMMA MessagesGoOn == MessageInv /\ [MessageNext]_messageVars => MessageInv'
<1> SUFFICES ASSUME MessageInv, [MessageNext]_messageVars PROVE MessageInv'
  OBVIOUS
<1>1. ASSUME NEW m \in Message, HandleUnlike(m) PROVE MessageInv'
  <2>1. MessageTypeOK'
    BY <1>1 DEF HandleUnlike, Mark, MessageInv, MessageTypeOK
  <2>2. /\ fbCall' \in [FeedbackCall -> CallRecord] /\ CallsInv' /\ ServedInv'
    BY <1>1 DEF HandleUnlike, MessageInv, CallsInv, ServedInv
  <2>3. StoredInv'
    BY <1>1 DEF HandleUnlike, Mark, MessageInv, StoredInv, MessageTypeOK, Negative
  <2>4. \A n \in Message, t \in Feedback : OnTheWay(n, t) => OnTheWay(n, t)'
    BY <1>1 DEF HandleUnlike, OnTheWay
  <2>5. ShownFeedbackWasStored'
    BY <1>1, <2>4 DEF HandleUnlike, Mark, MessageInv, ShownFeedbackWasStored,
                      MessageTypeOK, Feedback
  <2> QED BY <2>1, <2>2, <2>3, <2>5 DEF MessageInv
<1>2. ASSUME \/ \E m \in Message : OpenDislike(m) \/ OpenReport(m)
             \/ ClosePopover
      PROVE  MessageInv'
  <2>1. /\ popover' \in [msg : Message, type : Negative] \union {NoDialog}
        /\ UNCHANGED <<feedback, accepted, feedbackType, liked, submitting, fbCall>>
    BY <1>2 DEF OpenDislike, OpenReport, OpenFeedbackPopover, ClosePopover, Negative
  <2>2. MessageTypeOK'
    BY <2>1 DEF MessageInv, MessageTypeOK
  <2>3. ShownFeedbackWasStored'
    BY <2>1 DEF MessageInv, ShownFeedbackWasStored, OnTheWay
  <2> QED BY <2>1, <2>2, <2>3 DEF MessageInv, CallsInv, ServedInv, StoredInv
<1>3. ASSUME NEW m \in Message, NEW c \in FeedbackCall, HandleLike(c, m) PROVE MessageInv'
  BY <1>3, SendingKeeps DEF HandleLike, MessageInv, MessageTypeOK
<1>4. ASSUME NEW m \in Message, NEW c \in FeedbackCall, RestoreFeedback(c, m)
      PROVE  MessageInv'
  BY <1>4, SendingKeeps DEF RestoreFeedback, MessageInv, MessageTypeOK
<1>5. ASSUME NEW c \in FeedbackCall, SubmitNegativeFeedback(c) PROVE MessageInv'
  <2>1. popover.msg \in Message /\ popover.type \in Negative
    BY <1>5 DEF SubmitNegativeFeedback, MessageInv, MessageTypeOK
  <2> QED BY <1>5, <2>1, SendingKeeps DEF SubmitNegativeFeedback
<1>6. ASSUME NEW c \in FeedbackCall, ServerFeedback(c) PROVE MessageInv'
  <2> DEFINE m == fbCall[c].msg
  <2>1. /\ fbCall[c].pc = "sent" /\ m \in Message
        /\ fbCall[c].op \in {"like", "negative", "restore"}
        /\ fbCall'[c].pc = "served" /\ fbCall'[c].op = fbCall[c].op
        /\ fbCall'[c].msg = m
        /\ \A d \in FeedbackCall \ {c} : fbCall'[d] = fbCall[d]
        /\ UNCHANGED <<feedbackType, liked, popover, submitting>>
    BY <1>6 DEF ServerFeedback, MessageInv, CallsInv, CallRecord
  <2>2. CASE fbCall[c].op = "restore"
    <3>1. /\ fbCall' = [fbCall EXCEPT ![c].pc = "served", ![c].type = feedback[m]]
          /\ fbCall'[c].type = feedback[m] /\ fbCall[c].type = "none"
          /\ feedback[m] \in Feedback \union {"none"}
          /\ UNCHANGED <<feedback, accepted>>
      BY <1>6, <2>1, <2>2 DEF ServerFeedback, MessageInv, CallsInv, MessageTypeOK, CallRecord
    <3>2. MessageTypeOK' /\ fbCall' \in [FeedbackCall -> CallRecord]
      BY <2>1, <3>1 DEF MessageInv, MessageTypeOK, CallRecord
    <3>3. CallsInv' /\ StoredInv'
      BY <2>1, <2>2, <3>1 DEF MessageInv, CallsInv, StoredInv, Feedback
    <3>4. ServedInv'
      <4>1. feedback[m] # "none" => <<m, feedback[m]>> \in accepted
        BY <2>1 DEF MessageInv, StoredInv
      <4>2. \A d \in FeedbackCall \ {c} :
               fbCall'[d].pc = "served" /\ fbCall'[d].type # "none" =>
                  <<fbCall'[d].msg, fbCall'[d].type>> \in accepted
        BY <2>1 DEF MessageInv, ServedInv
      <4>3. fbCall'[c].type # "none" => <<fbCall'[c].msg, fbCall'[c].type>> \in accepted
        BY <2>1, <3>1, <4>1
      <4>4. accepted' = accepted
        BY <3>1
      <4> QED BY <4>2, <4>3, <4>4 DEF ServedInv
    <3>5. \A n \in Message, t \in Feedback : OnTheWay(n, t) => OnTheWay(n, t)'
      BY <2>1, <3>1 DEF OnTheWay, Feedback, Negative
    <3>6. ShownFeedbackWasStored'
      BY <2>1, <3>1, <3>5 DEF MessageInv, ShownFeedbackWasStored, MessageTypeOK, Feedback
    <3> QED BY <3>2, <3>3, <3>4, <3>6 DEF MessageInv
  <2>3. CASE fbCall[c].op # "restore"
    <3> DEFINE t == fbCall[c].type
    <3>1. /\ fbCall' = [fbCall EXCEPT ![c].pc = "served"] /\ fbCall'[c].type = t
          /\ feedback' = [feedback EXCEPT ![m] = t]
          /\ accepted' = accepted \union {<<m, t>>}
      BY <1>6, <2>3 DEF ServerFeedback, MessageInv, CallRecord
    <3>7. t \in Feedback
      BY <2>1, <2>3 DEF MessageInv, CallsInv, Feedback
    <3>2. MessageTypeOK' /\ fbCall' \in [FeedbackCall -> CallRecord]
      BY <2>1, <3>1, <3>7 DEF MessageInv, MessageTypeOK, CallRecord
    <3>3. CallsInv' /\ StoredInv'
      <4>1. CallsInv'
        BY <2>1, <2>3, <3>1, <3>7 DEF MessageInv, CallsInv
      <4>2. feedback'[m] = t /\ \A n \in Message : n # m => feedback'[n] = feedback[n]
        BY <2>1, <3>1 DEF MessageInv, MessageTypeOK
      <4>3. StoredInv /\ accepted' = accepted \union {<<m, t>>} /\ feedbackType' = feedbackType
        BY <2>1, <3>1 DEF MessageInv
      <4>4. \A n \in Message : feedback'[n] # "none" => <<n, feedback'[n]>> \in accepted'
        BY <4>2, <4>3 DEF StoredInv
      <4>5. \A n \in Message :
               feedbackType'[n] \in Negative => <<n, feedbackType'[n]>> \in accepted'
        BY <4>3 DEF StoredInv
      <4>6. StoredInv'
        BY <4>4, <4>5 DEF StoredInv
      <4> QED BY <4>1, <4>6
    <3>4. ServedInv'
      BY <2>1, <3>1 DEF MessageInv, ServedInv
    <3>5. \A n \in Message, u \in Feedback : OnTheWay(n, u) => OnTheWay(n, u)'
      BY <2>1, <3>1 DEF OnTheWay
    <3>6. ShownFeedbackWasStored'
      BY <2>1, <3>1, <3>5 DEF MessageInv, ShownFeedbackWasStored, MessageTypeOK, Feedback
    <3> QED BY <3>2, <3>3, <3>4, <3>6 DEF MessageInv
  <2> QED BY <2>2, <2>3
<1>7. ASSUME NEW c \in FeedbackCall, FeedbackCallSucceeds(c) PROVE MessageInv'
  <2> DEFINE m == fbCall[c].msg
             t == fbCall[c].type
  <2>1. /\ fbCall[c].pc = "served" /\ m \in Message
        /\ t \in Feedback \union {"none"}
        /\ t # "none" => <<m, t>> \in accepted
        /\ fbCall[c].op = "negative" => t \in Negative
        /\ fbCall[c].op = "like" => t = "LIKE"
        /\ EndFeedbackCall(c) /\ UNCHANGED <<feedback, accepted>>
        /\ fbCall' = [fbCall EXCEPT ![c] = [UnusedCall EXCEPT !.pc = "over"]]
    BY <1>7 DEF FeedbackCallSucceeds, MessageInv, CallsInv, ServedInv, CallRecord
  <2>2. \/ fbCall[c].op = "negative" /\ Mark(m, t, liked[m])
        \/ fbCall[c].op = "restore" /\ t # "none" /\ Mark(m, t, t = "LIKE")
        \/ UNCHANGED <<feedbackType, liked>>
    BY <1>7 DEF FeedbackCallSucceeds
  <2>3. liked' \in [Message -> BOOLEAN] /\ feedbackType' \in [Message -> Feedback \union {"none"}]
    <3>1. t \in Feedback \union {"none"} /\ (t = "LIKE") \in BOOLEAN
      BY <2>1
    <3>2. liked \in [Message -> BOOLEAN] /\ liked[m] \in BOOLEAN
          /\ feedbackType \in [Message -> Feedback \union {"none"}]
      BY <2>1 DEF MessageInv, MessageTypeOK
    <3> QED BY <2>1, <2>2, <3>1, <3>2 DEF Mark
  <2>4. fbCall'[c].pc \in {"idle", "sent", "served", "over"}
        /\ \A d \in FeedbackCall :
              /\ fbCall'[d].pc \in {"idle", "sent", "served", "over"}
              /\ fbCall'[d].op \in {"none", "like", "negative", "restore"}
    BY <2>1 DEF MessageInv, MessageTypeOK, UnusedCall
  <2>5. MessageTypeOK'
    BY <2>1, <2>3, <2>4 DEF EndFeedbackCall, MessageInv, MessageTypeOK
  <2>6. StoredInv'
    BY <2>1, <2>2 DEF Mark, MessageInv, MessageTypeOK, StoredInv, Negative, Feedback
  <2>7. \A n \in Message :
           /\ feedbackType'[n] = "LIKE" =>
                 \/ <<n, "LIKE">> \in accepted
                 \/ feedbackType[n] = "LIKE" /\ (fbCall[c].op = "like" => m # n)
           /\ liked'[n] =>
                 \/ <<n, "LIKE">> \in accepted
                 \/ liked[n] /\ (fbCall[c].op = "like" => m # n)
    BY <2>1, <2>2 DEF Mark, MessageInv, MessageTypeOK, Negative, Feedback
  <2> QED BY <2>1, <2>5, <2>6, <2>7, EndingKeeps
<1>8. ASSUME NEW c \in FeedbackCall, FeedbackCallFails(c) PROVE MessageInv'
  <2> DEFINE m == fbCall[c].msg
  <2>1. /\ fbCall[c].pc \in {"sent", "served"} /\ m \in Message
        /\ EndFeedbackCall(c) /\ UNCHANGED <<feedback, accepted>>
        /\ fbCall' = [fbCall EXCEPT ![c] = [UnusedCall EXCEPT !.pc = "over"]]
        /\ IF fbCall[c].op = "like" THEN Mark(m, "none", FALSE)
           ELSE UNCHANGED <<feedbackType, liked>>
    BY <1>8 DEF FeedbackCallFails, MessageInv, CallsInv
  <2>2. \A d \in FeedbackCall :
           /\ fbCall'[d].pc \in {"idle", "sent", "served", "over"}
           /\ fbCall'[d].op \in {"none", "like", "negative", "restore"}
    BY <2>1 DEF MessageInv, MessageTypeOK, UnusedCall
  <2>3. MessageTypeOK'
    BY <2>1, <2>2 DEF EndFeedbackCall, Mark, MessageInv, MessageTypeOK
  <2>4. StoredInv'
    BY <2>1 DEF Mark, MessageInv, MessageTypeOK, StoredInv, Negative
  <2>5. \A n \in Message :
           /\ feedbackType'[n] = "LIKE" =>
                 feedbackType[n] = "LIKE" /\ (fbCall[c].op = "like" => m # n)
           /\ liked'[n] => liked[n] /\ (fbCall[c].op = "like" => m # n)
    BY <2>1 DEF Mark, MessageInv, MessageTypeOK
  <2> QED BY <2>1, <2>3, <2>4, <2>5, EndingKeeps
<1>9. CASE UNCHANGED messageVars
  BY <1>9 DEF messageVars, MessageInv, MessageTypeOK, CallsInv, ServedInv, StoredInv,
              ShownFeedbackWasStored, OnTheWay
<1> QED
  BY <1>1, <1>2, <1>3, <1>4, <1>5, <1>6, <1>7, <1>8, <1>9 DEF MessageNext

\* No feedback is shown that the server has not stored and that is not on its
\* way there: not after the early display of a like, a failed call, or answers
\* in any order (handleLike, submitNegativeFeedback, loadSessionMessages).
THEOREM FeedbackIsStored == MessageSpec => []ShownFeedbackWasStored
<1>1. MessageInv => ShownFeedbackWasStored
  BY DEF MessageInv
<1> QED BY <1>1, MessagesStart, MessagesGoOn, PTL DEF MessageSpec

-----------------------------------------------------------------------------
(* The input area (ChatComposer)                                           *)

\* While a question with a skill is open, a skill that no question has taken
\* was chosen early.
EarlyInv ==
    unused /\ (\E q \in OpenQuestions : asked[q].skill # NoChatSkill) => early

\* The page holds the recognition that runs, unless it has lost track.
HeldInv ==
    crossed \/ \A r \in Recognition : recognition[r] = "running" => r \in recognitionRef

ComposerInv == ComposerTypeOK /\ EarlyInv /\ HeldInv /\ InputAreaIsTrue

LEMMA ComposerStarts == ComposerInit => ComposerInv
<1> SUFFICES ASSUME ComposerInit PROVE ComposerInv
  OBVIOUS
<1>1. ComposerTypeOK
  BY DEF ComposerInit, ComposerTypeOK
<1>2. EarlyInv /\ HeldInv
  BY DEF ComposerInit, EarlyInv, HeldInv
<1>3. InputAreaIsTrue
  BY DEF ComposerInit, InputAreaIsTrue, UnusedSkillStays, MicrophoneIsShown,
         MenuNeedsSlash
<1> QED BY <1>1, <1>2, <1>3 DEF ComposerInv

LEMMA ComposerTypes == ComposerTypeOK /\ [ComposerNext]_composerVars => ComposerTypeOK'
<1> SUFFICES ASSUME ComposerTypeOK, [ComposerNext]_composerVars PROVE ComposerTypeOK'
  OBVIOUS
<1> USE DEF ComposerTypeOK, Slash, textVars, choiceVars, voiceVars
<1>1. ASSUME NEW kind \in {"empty", "text"} \union Slash, TypeText(kind)
      PROVE  ComposerTypeOK'
  BY <1>1 DEF TypeText
<1>2. CASE BlurInput \/ BlurTimer
  BY <1>2 DEF BlurInput, BlurTimer
<1>3. ASSUME NEW q \in Question, TakeSkill(q)
      PROVE  /\ unused' \in BOOLEAN
             /\ asked' \in [Question -> [state : {"idle", "open", "over"},
                                         skill : ChatSkill \union {NoChatSkill}]]
  BY <1>3 DEF TakeSkill
<1>4. CASE SendCommand
  BY <1>4, <1>3 DEF SendCommand
<1>5. ASSUME NEW q \in Question, SendText(q) \/ SendSuggestion(q) PROVE ComposerTypeOK'
  BY <1>5, <1>3 DEF SendText, SendSuggestion
<1>6. ASSUME NEW q \in Question, NEW done \in BOOLEAN, AnswerEnds(q, done)
      PROVE  ComposerTypeOK'
  BY <1>6 DEF AnswerEnds
<1>7. CASE ToggleSkillPopover \/ ClearSkill
  BY <1>7 DEF ToggleSkillPopover, ClearSkill
<1>8. ASSUME NEW skill \in ChatSkill \union {NoChatSkill}, SelectSkill(skill)
      PROVE  ComposerTypeOK'
  BY <1>8 DEF SelectSkill
<1>9. CASE StopVoiceInput
  BY <1>9 DEF StopVoiceInput
<1>10. ASSUME NEW r \in Recognition,
              StartVoiceInput(r) \/ Transcript(r) \/ RecognitionFails(r) \/ RecognitionEnds(r)
       PROVE  ComposerTypeOK'
  BY <1>10 DEF StartVoiceInput, Transcript, RecognitionFails, RecognitionEnds,
               RecognitionReports
<1>11. CASE UNCHANGED composerVars
  BY <1>11 DEF composerVars
<1> QED
  BY <1>1, <1>2, <1>4, <1>5, <1>6, <1>7, <1>8, <1>9, <1>10, <1>11
     DEF ComposerNext, SelectBuiltInSkill, SelectExternalSkill, SelectCustomSkill

\* The three parts have no variable in common: what leaves one part alone
\* keeps its conjuncts.
LEMMA TextRests ==
    ASSUME UNCHANGED textVars, MenuNeedsSlash PROVE MenuNeedsSlash'
BY DEF textVars, MenuNeedsSlash

LEMMA ChoiceRests ==
    ASSUME UNCHANGED choiceVars, EarlyInv, UnusedSkillStays
    PROVE  EarlyInv' /\ UnusedSkillStays'
BY DEF choiceVars, EarlyInv, UnusedSkillStays, OpenQuestions

LEMMA VoiceRests ==
    ASSUME UNCHANGED voiceVars, HeldInv, MicrophoneIsShown
    PROVE  HeldInv' /\ MicrophoneIsShown'
BY DEF voiceVars, HeldInv, MicrophoneIsShown

\* A question takes the skill along: none is unused then.
LEMMA TakingKeeps ==
    ASSUME NEW q \in Question, TakeSkill(q), UNCHANGED <<wasted, early>>,
           UnusedSkillStays
    PROVE  EarlyInv' /\ UnusedSkillStays'
BY DEF TakeSkill, EarlyInv, UnusedSkillStays

LEMMA ComposerGoesOn == ComposerInv /\ [ComposerNext]_composerVars => ComposerInv'
<1> SUFFICES ASSUME ComposerInv, [ComposerNext]_composerVars PROVE ComposerInv'
  OBVIOUS
<1>0. /\ ComposerTypeOK /\ EarlyInv /\ HeldInv /\ UnusedSkillStays
      /\ MicrophoneIsShown /\ MenuNeedsSlash
  BY DEF ComposerInv, InputAreaIsTrue
<1> DEFINE Rest == /\ EarlyInv' /\ HeldInv' /\ UnusedSkillStays'
                   /\ MicrophoneIsShown' /\ MenuNeedsSlash'
<1> SUFFICES Rest
  BY ComposerTypes DEF ComposerInv, InputAreaIsTrue
<1>1. ASSUME NEW kind \in {"empty", "text"} \union Slash, TypeText(kind) PROVE Rest
  BY <1>0, <1>1, ChoiceRests, VoiceRests DEF TypeText, MenuNeedsSlash
<1>2. CASE BlurInput \/ BlurTimer
  BY <1>0, <1>2, ChoiceRests, VoiceRests DEF BlurInput, BlurTimer, MenuNeedsSlash
<1>3. CASE SendCommand
  <2>1. MenuNeedsSlash' /\ HeldInv' /\ MicrophoneIsShown'
    BY <1>0, <1>3, VoiceRests DEF SendCommand, MenuNeedsSlash
  <2>2. CASE UNCHANGED <<asked, unused>>
    BY <1>0, <1>3, <2>1, <2>2, ChoiceRests DEF SendCommand, choiceVars
  <2>3. CASE \E q \in Question : TakeSkill(q)
    BY <1>0, <1>3, <2>1, <2>3, TakingKeeps DEF SendCommand
  <2> QED BY <1>3, <2>2, <2>3 DEF SendCommand
<1>4. ASSUME NEW q \in Question, SendText(q) PROVE Rest
  <2>1. MenuNeedsSlash'
    BY <1>0, <1>4 DEF SendText, MenuNeedsSlash, Slash
  <2> QED BY <1>0, <1>4, <2>1, VoiceRests, TakingKeeps DEF SendText
<1>5. ASSUME NEW q \in Question, SendSuggestion(q) PROVE Rest
  <2>1. MenuNeedsSlash'
    BY <1>0, <1>5 DEF SendSuggestion, MenuNeedsSlash
  <2> QED BY <1>0, <1>5, <2>1, VoiceRests, TakingKeeps DEF SendSuggestion
<1>6. ASSUME NEW q \in Question, NEW done \in BOOLEAN, AnswerEnds(q, done) PROVE Rest
  <2> DEFINE drops == done /\ asked[q].skill # NoChatSkill
  <2>1. /\ asked[q].state = "open" /\ asked' = [asked EXCEPT ![q].state = "over"]
        /\ wasted' = (wasted \/ (drops /\ unused)) /\ unused' = (unused /\ ~drops)
        /\ early' = early /\ UNCHANGED <<textVars, voiceVars>>
    BY <1>6 DEF AnswerEnds
  <2>2. q \in OpenQuestions
    BY <2>1 DEF OpenQuestions
  <2>3. UnusedSkillStays'
    BY <1>0, <2>1, <2>2 DEF UnusedSkillStays, EarlyInv
  <2>4. ASSUME NEW k \in Question, asked'[k].state = "open"
        PROVE  asked[k].state = "open" /\ asked'[k].skill = asked[k].skill
    BY <1>0, <2>1, <2>4 DEF ComposerTypeOK
  <2>5. EarlyInv'
    BY <1>0, <2>1, <2>4 DEF EarlyInv, OpenQuestions
  <2> QED BY <1>0, <2>1, <2>3, <2>5, TextRests, VoiceRests
<1>7. CASE ToggleSkillPopover \/ ClearSkill
  <2>1. /\ UNCHANGED <<textVars, voiceVars, asked, wasted, early>>
        /\ unused' = unused \/ unused' = FALSE
    BY <1>7 DEF ToggleSkillPopover, ClearSkill
  <2> QED BY <1>0, <2>1, TextRests, VoiceRests DEF EarlyInv, UnusedSkillStays, OpenQuestions
<1>8. ASSUME NEW skill \in ChatSkill \union {NoChatSkill}, SelectSkill(skill) PROVE Rest
  <2>1. /\ UNCHANGED <<textVars, voiceVars, asked, wasted>>
        /\ early' = (early \/ \E q \in OpenQuestions : asked[q].skill # NoChatSkill)
    BY <1>8 DEF SelectSkill
  <2> QED BY <1>0, <2>1, TextRests, VoiceRests DEF EarlyInv, UnusedSkillStays, OpenQuestions
<1>9. CASE StopVoiceInput
  <2>1. /\ UNCHANGED <<textVars, choiceVars, crossed>> /\ isListening' = FALSE
        /\ recognition' = [r \in Recognition |->
                             IF r \in recognitionRef /\ recognition[r] = "running"
                             THEN "stopping" ELSE recognition[r]]
    BY <1>9 DEF StopVoiceInput
  <2>2. crossed \/ \A r \in Recognition : recognition'[r] # "running"
    BY <1>0, <2>1 DEF HeldInv
  <2>3. HeldInv' /\ MicrophoneIsShown'
    BY <2>1, <2>2 DEF HeldInv, MicrophoneIsShown
  <2> QED BY <1>0, <2>1, <2>3, TextRests, ChoiceRests
<1>10. ASSUME NEW r \in Recognition, StartVoiceInput(r) PROVE Rest
  <2>1. /\ UNCHANGED <<textVars, choiceVars, crossed>> /\ ~isListening /\ isListening'
        /\ recognition' = [recognition EXCEPT ![r] = "running"]
        /\ recognitionRef' = {r}
    BY <1>10 DEF StartVoiceInput
  <2>2. recognition'[r] = "running"
        /\ \A e \in Recognition \ {r} : recognition'[e] = recognition[e]
    BY <1>0, <2>1 DEF ComposerTypeOK
  <2>3. HeldInv' /\ MicrophoneIsShown'
    BY <1>0, <2>1, <2>2 DEF HeldInv, MicrophoneIsShown
  <2> QED BY <1>0, <2>1, <2>3, TextRests, ChoiceRests
<1>11. ASSUME NEW r \in Recognition, Transcript(r) PROVE Rest
  <2>1. MenuNeedsSlash'
    BY <1>0, <1>11 DEF Transcript, MenuNeedsSlash, Slash
  <2> QED BY <1>0, <1>11, <2>1, ChoiceRests, VoiceRests DEF Transcript
<1>12. ASSUME NEW r \in Recognition, NEW to \in {"stopping", "ended"},
              RecognitionReports(r, to)
       PROVE  Rest
  <2>1. /\ UNCHANGED <<textVars, choiceVars, recognitionRef>> /\ ~isListening'
        /\ recognition' = [recognition EXCEPT ![r] = to]
        /\ crossed' = (crossed \/ \E e \in Recognition \ {r} : recognition[e] = "running")
    BY <1>12 DEF RecognitionReports
  <2>2. recognition'[r] # "running"
        /\ \A e \in Recognition \ {r} : recognition'[e] = recognition[e]
    BY <1>0, <2>1 DEF ComposerTypeOK
  <2>3. HeldInv' /\ MicrophoneIsShown'
    BY <1>0, <2>1, <2>2 DEF HeldInv, MicrophoneIsShown
  <2> QED BY <1>0, <2>1, <2>3, TextRests, ChoiceRests
<1>13. CASE UNCHANGED composerVars
  BY <1>0, <1>13, TextRests, ChoiceRests, VoiceRests DEF composerVars
<1> QED
  BY <1>1, <1>2, <1>3, <1>4, <1>5, <1>6, <1>7, <1>8, <1>9, <1>10, <1>11, <1>12, <1>13
     DEF ComposerNext, SelectBuiltInSkill, SelectExternalSkill, SelectCustomSkill,
         RecognitionFails, RecognitionEnds

\* A skill that went with no question is dropped only when it was chosen early;
\* the microphone is shown exactly while a recognition runs, unless the end of an
\* earlier one crossed it; the menu of the commands needs a slash (handleSend,
\* startVoiceInput and stopVoiceInput of the question page).
THEOREM InputAreaStaysTrue == ComposerSpec => []InputAreaIsTrue
<1>1. ComposerInv => InputAreaIsTrue
  BY DEF ComposerInv
<1> QED BY <1>1, ComposerStarts, ComposerGoesOn, PTL DEF ComposerSpec

-----------------------------------------------------------------------------
(* The files (QuickIngest)                                                 *)

\* One submission is under way at most, the last one; the page is busy then,
\* and the dialog does not say ready.
SubmissionInv ==
    \A d \in Doc : submission[d] \in Active =>
        quickIngestLoading /\ d = submitted /\ quickIngestPhase # "ready"

QuickInv == QuickTypeOK /\ SubmissionInv /\ ReadyPhaseIsTrue

LEMMA QuickStarts == QuickInit => QuickInv
<1> SUFFICES ASSUME QuickInit PROVE QuickInv
  OBVIOUS
<1>1. QuickTypeOK
  <2>1. 0 \in 0 .. PollLimit
    BY QuickIngestAssumption
  <2> QED BY <2>1 DEF QuickInit, QuickFresh, QuickTypeOK, Phase
<1>2. SubmissionInv /\ ReadyPhaseIsTrue
  BY DEF QuickInit, QuickFresh, SubmissionInv, ReadyPhaseIsTrue, Active, Stored
<1> QED BY <1>1, <1>2 DEF QuickInv

\* The service gives one document another status, and no page calls it that way.
LEMMA ServiceMoves ==
    ASSUME NEW d \in Doc, ServerIngests(d),
           status \in [Doc -> DocStatus \union {"none"}]
    PROVE  /\ status[d] \in DocStatus /\ status'[d] \in DocStatus
           /\ status' \in [Doc -> DocStatus \union {"none"}]
           /\ \A e \in Doc \ {d} : status'[e] = status[e]
<1>1. status[d] \in DocStatus /\ \E new \in DocStatus : status' = [status EXCEPT ![d] = new]
  BY DEF ServerIngests, IngestionBegins, StageBegins, IngestionEnds, Committed, Becomes,
         DocStatus, Known, Settled
<1> QED BY <1>1

LEMMA QuickTypesGoOn == QuickTypeOK /\ [QuickNext]_quickVars => QuickTypeOK'
<1> SUFFICES ASSUME QuickTypeOK, [QuickNext]_quickVars PROVE QuickTypeOK'
  OBVIOUS
<1> USE QuickIngestAssumption DEF QuickTypeOK, serviceVars, dialogVars, chainVars, attachVars
<1>1. CASE UserOpens \/ SubmitCommand \/ HandleLUIAction \/ CloseQuickIngest
           \/ ChooseSpace \/ ChooseQuickFile \/ RemoveAttachment
  BY <1>1 DEF UserOpens, SubmitCommand, HandleLUIAction, CloseQuickIngest, ChooseSpace,
              ChooseQuickFile, RemoveAttachment, OpenQuickIngest, PreselectSpace, Phase
<1>2. ASSUME NEW d \in Doc, HandleQuickIngestSubmit(d) PROVE QuickTypeOK'
  BY <1>2 DEF HandleQuickIngestSubmit, Phase, Active, Stored
<1>3. ASSUME NEW d \in Doc, SubmissionCall(d) PROVE QuickTypeOK'
  <2>1. AfterCall(submission[d]) \in Active
    BY <1>3 DEF SubmissionCall, AfterCall, Active, Stored
  <2> QED BY <1>3, <2>1 DEF SubmissionCall, Phase, DocStatus, Known, serviceVars
<1>4. ASSUME NEW d \in Doc, NEW phase \in Phase, EndQuickIngest(d, phase),
             status' \in [Doc -> DocStatus \union {"none"}], takenBack' = takenBack
      PROVE  QuickTypeOK'
  BY <1>4 DEF EndQuickIngest
<1>5. ASSUME NEW d \in Doc, PollStatus(d) \/ PollsUsedUp(d) \/ SubmissionFails(d)
      PROVE  QuickTypeOK'
  <2>1. CASE \E phase \in Phase : EndQuickIngest(d, phase) /\ UNCHANGED <<status, takenBack>>
    BY <1>4, <2>1
  <2>2. CASE EndQuickIngest(d, "failed") /\ status' = [status EXCEPT ![d] = "PENDING"]
             /\ UNCHANGED takenBack
    <3>1. status' \in [Doc -> DocStatus \union {"none"}]
      BY <2>2 DEF DocStatus, Known
    <3> QED BY <1>4, <2>2, <3>1 DEF Phase
  <2>3. CASE /\ pollsLeft > 0 /\ pollsLeft' = pollsLeft - 1
             /\ UNCHANGED <<status, takenBack, dialogVars, command, quickIngestLoading,
                            submitted, submission, attachVars>>
    BY <2>3
  <2> QED BY <1>5, <2>1, <2>2, <2>3
          DEF PollStatus, PollsUsedUp, SubmissionFails, Phase, serviceVars
<1>6. ASSUME NEW d \in Doc, QuickMoves(d) PROVE QuickTypeOK'
  <2>1. status' \in [Doc -> DocStatus \union {"none"}] /\ takenBack' \subseteq Doc
    BY <1>6, ServiceMoves DEF QuickMoves
  <2> QED BY <1>6, <2>1 DEF QuickMoves
<1>7. ASSUME NEW d \in Doc, HandleFileUpload(d) \/ AttachmentFails(d) PROVE QuickTypeOK'
  <2>1. /\ attachment' \in [Doc -> Stored \union {"no", "over"}]
        /\ isUploadingFile' \in BOOLEAN
        /\ UNCHANGED <<serviceVars, dialogVars, command, chainVars, attachedFile>>
    BY <1>7 DEF HandleFileUpload, AttachmentFails, Stored
  <2> QED BY <2>1
<1>8. ASSUME NEW d \in Doc, AttachmentCall(d) PROVE QuickTypeOK'
  <2>1. attachment[d] # "verify" => AfterCall(attachment[d]) \in Stored
    BY <1>8 DEF AttachmentCall, AfterCall, Stored
  <2> QED BY <1>8, <2>1 DEF AttachmentCall, Stored
<1>9. CASE UNCHANGED quickVars
  BY <1>9 DEF quickVars, quickPageVars
<1> QED
  BY <1>1, <1>2, <1>3, <1>5, <1>6, <1>7, <1>8, <1>9 DEF QuickNext, SubmissionStep

LEMMA QuickGoesOn == QuickInv /\ [QuickNext]_quickVars => QuickInv'
<1> SUFFICES ASSUME QuickInv, [QuickNext]_quickVars PROVE QuickInv'
  OBVIOUS
<1>0. QuickTypeOK /\ SubmissionInv /\ ReadyPhaseIsTrue
  BY DEF QuickInv
<1> SUFFICES SubmissionInv' /\ ReadyPhaseIsTrue'
  BY QuickTypesGoOn DEF QuickInv
<1> USE DocumentServiceAssumption
<1>1. CASE UserOpens \/ SubmitCommand \/ HandleLUIAction \/ CloseQuickIngest
           \/ ChooseSpace \/ ChooseQuickFile \/ RemoveAttachment
  <2>1. /\ UNCHANGED <<status, takenBack, submitted, submission, quickIngestLoading>>
        /\ quickIngestPhase' \in {"idle", quickIngestPhase}
    BY <1>1 DEF UserOpens, SubmitCommand, HandleLUIAction, CloseQuickIngest, ChooseSpace,
                ChooseQuickFile, RemoveAttachment, OpenQuickIngest, serviceVars, dialogVars, chainVars
  <2> QED BY <1>0, <2>1 DEF SubmissionInv, ReadyPhaseIsTrue
<1>2. ASSUME NEW d \in Doc, HandleQuickIngestSubmit(d)
      PROVE  SubmissionInv' /\ ReadyPhaseIsTrue'
  BY <1>0, <1>2 DEF HandleQuickIngestSubmit, SubmitButton, SubmissionInv,
                    ReadyPhaseIsTrue, QuickTypeOK
<1>3. ASSUME NEW d \in Doc, SubmissionCall(d) PROVE SubmissionInv' /\ ReadyPhaseIsTrue'
  <2>1. /\ submission[d] \in Active /\ submitted' = submitted
        /\ quickIngestLoading' = quickIngestLoading
        /\ submission' = [submission EXCEPT ![d] = AfterCall(submission[d])]
        /\ quickIngestPhase' \in {quickIngestPhase, "processing"}
    BY <1>3 DEF SubmissionCall
  <2>2. quickIngestPhase' # "ready"
    BY <1>0, <2>1 DEF SubmissionInv
  <2> QED BY <1>0, <2>1, <2>2 DEF SubmissionInv, ReadyPhaseIsTrue, QuickTypeOK
<1>4. ASSUME NEW d \in Doc, submission[d] \in Active, NEW phase, EndQuickIngest(d, phase),
             phase = "ready" => UNCHANGED serviceVars /\ status[d] = "READY"
      PROVE  SubmissionInv' /\ ReadyPhaseIsTrue'
  <2>1. /\ d = submitted /\ submitted' = submitted
        /\ submission' = [submission EXCEPT ![d] = "over"] /\ quickIngestPhase' = phase
        /\ submitted # NoDoc
    BY <1>0, <1>4 DEF EndQuickIngest, SubmissionInv
  <2>2. \A e \in Doc : submission'[e] \notin Active
    BY <1>0, <2>1 DEF SubmissionInv, QuickTypeOK, Active, Stored
  <2> QED BY <1>4, <2>1, <2>2 DEF SubmissionInv, ReadyPhaseIsTrue, serviceVars
<1>5. ASSUME NEW d \in Doc, PollStatus(d) \/ PollsUsedUp(d) \/ SubmissionFails(d)
      PROVE  SubmissionInv' /\ ReadyPhaseIsTrue'
  <2>1. submission[d] \in Active
    BY <1>5 DEF PollStatus, PollsUsedUp, SubmissionFails, Active
  <2>2. CASE UNCHANGED <<status, takenBack, quickIngestPhase, quickIngestLoading, submitted,
                         submission>>
    BY <1>0, <2>2 DEF SubmissionInv, ReadyPhaseIsTrue
  <2>3. CASE EndQuickIngest(d, "ready") /\ status[d] = "READY" /\ UNCHANGED serviceVars
    BY <1>4, <2>1, <2>3
  <2>4. CASE \E phase \in {"failed", "processing"} : EndQuickIngest(d, phase)
    BY <1>4, <2>1, <2>4
  <2> QED BY <1>5, <2>2, <2>3, <2>4
          DEF PollStatus, PollsUsedUp, SubmissionFails, dialogVars, serviceVars
<1>6. ASSUME NEW d \in Doc, QuickMoves(d) PROVE SubmissionInv' /\ ReadyPhaseIsTrue'
  <2>1. /\ UNCHANGED <<quickIngestPhase, quickIngestLoading, submitted, submission>>
        /\ \A e \in Doc : status[e] = "READY" \/ e \in takenBack
                            => status'[e] = "READY" \/ e \in takenBack'
    BY <1>0, <1>6, ServiceMoves DEF QuickMoves, QuickTypeOK, dialogVars, chainVars
  <2>2. SubmissionInv'
    BY <1>0, <2>1 DEF SubmissionInv
  <2>3. ReadyPhaseIsTrue'
    BY <1>0, <2>1 DEF ReadyPhaseIsTrue, QuickTypeOK
  <2> QED BY <2>2, <2>3
<1>7. ASSUME NEW d \in Doc,
             \/ HandleFileUpload(d) \/ AttachmentFails(d) \/ AttachmentCall(d)
             \/ UNCHANGED quickVars
      PROVE  SubmissionInv' /\ ReadyPhaseIsTrue'
  <2>1. UNCHANGED <<status, takenBack, quickIngestPhase, quickIngestLoading, submitted,
                    submission>>
    BY <1>7 DEF HandleFileUpload, AttachmentFails, AttachmentCall, quickVars, quickPageVars,
                serviceVars, dialogVars, chainVars
  <2> QED BY <1>0, <2>1 DEF SubmissionInv, ReadyPhaseIsTrue
<1>8. CASE UNCHANGED quickVars
  BY <1>0, <1>8 DEF quickVars, quickPageVars, serviceVars, dialogVars, chainVars, SubmissionInv,
                    ReadyPhaseIsTrue
<1> QED
  BY <1>1, <1>2, <1>3, <1>5, <1>6, <1>7, <1>8 DEF QuickNext, SubmissionStep

\* The dialog says ready of the document of the last submission only, and only
\* when it is, or was and the service has begun with it again since, whatever
\* is opened or closed while the submission runs (handleQuickIngestSubmit and
\* pollQuickIngestStatus).
THEOREM ReadyIsTrue == QuickSpec => []ReadyPhaseIsTrue
<1>1. QuickInv => ReadyPhaseIsTrue
  BY DEF QuickInv
<1> QED BY <1>1, QuickStarts, QuickGoesOn, PTL DEF QuickSpec

-----------------------------------------------------------------------------
(* The command bar (CommandBar)                                            *)

\* The line of a submission that nothing has overtaken is still in the bar.
LineInv == \A q \in Pending \ overtaken : barInput = thinking[q]

\* The result that is kept, shown or not, is that of the line.
ResultInv ==
    barResult # NoResult /\ ~lateResult =>
        \/ barInput = barResult
        \/ barInput = CalledNote /\ barResult = handed

BarInv == BarTypeOK /\ LineInv /\ ResultInv /\ ProcessingIsPending

LEMMA BarStarts == BarInit => BarInv
BY DEF BarInit, BarInv, BarTypeOK, LineInv, ResultInv, ProcessingIsPending, Pending

LEMMA BarTypesGoOn == BarTypeOK /\ [BarNext]_barVars => BarTypeOK'
<1> SUFFICES ASSUME BarTypeOK, [BarNext]_barVars PROVE BarTypeOK'
  OBVIOUS
<1> USE DEF BarTypeOK
<1>0. Pending \subseteq Submission
  BY DEF Pending
<1>1. CASE OpenBar \/ SlashKey
  BY <1>1 DEF OpenBar, SlashKey
<1>2. CASE CloseBar
  BY <1>0, <1>2 DEF CloseBar, ResultGoes, Overtake
<1>3. CASE ExecuteResult
  BY <1>3 DEF ExecuteResult, ResultIsShown
<1>4. ASSUME NEW c \in Command \union {Blank}, TypeCommand(c) \/ SuggestionClick(c)
      PROVE  BarTypeOK'
  BY <1>0, <1>4 DEF TypeCommand, SuggestionClick, ResultGoes, Overtake
<1>5. ASSUME NEW c \in Command \union {Blank}, SkillClick(c) PROVE BarTypeOK'
  BY <1>0, <1>5 DEF SkillClick, InPanel, Overtake, Command
<1>6. ASSUME NEW q \in Submission, HandleSubmit(q) PROVE BarTypeOK'
  BY <1>0, <1>6 DEF HandleSubmit, ResultGoes, Overtake
<1>7. ASSUME NEW q \in Submission, Understood(q) PROVE BarTypeOK'
  <2>1. /\ thinking[q] \in Command \union {CalledNote}
        /\ NamesSkill(thinking[q]) => thinking[q] \in Command
    BY <1>7 DEF Understood, Pending, NamesSkill, Command
  <2>2. /\ thinking' \in [Submission -> Command \union {Blank, CalledNote}]
        /\ barResult' \in Command \union {NoResult, CalledNote}
        /\ isProcessing' \in BOOLEAN
        /\ lateResult' = (q \in overtaken)
    BY <1>7, <2>1 DEF Understood
  <2>3. /\ barInput' \in Command \union {Blank, CalledNote}
        /\ handed' \in Command \union {NoResult}
        /\ barOpen' \in BOOLEAN /\ skillPanelOpen' \in BOOLEAN
    BY <1>7, <2>1 DEF Understood
  <2>4. overtaken' \subseteq Submission
    BY <1>0, <1>7 DEF Understood
  <2> QED BY <2>2, <2>3, <2>4
<1>8. CASE UNCHANGED barVars
  BY <1>8 DEF barVars
<1> QED
  BY <1>1, <1>2, <1>3, <1>4, <1>5, <1>6, <1>7, <1>8 DEF BarNext, EscapeKey, ClickBeside

\* When the line changes, every submission under way is overtaken.
LEMMA LineOvertakes ==
    ASSUME Overtake, UNCHANGED <<thinking, isProcessing>>, ProcessingIsPending
    PROVE  LineInv' /\ ProcessingIsPending'
BY DEF Overtake, LineInv, Pending, ProcessingIsPending

LEMMA BarGoesOn == BarInv /\ [BarNext]_barVars => BarInv'
<1> SUFFICES ASSUME BarInv, [BarNext]_barVars PROVE BarInv'
  OBVIOUS
<1>0. BarTypeOK /\ LineInv /\ ResultInv /\ ProcessingIsPending
  BY DEF BarInv
<1> DEFINE Rest == LineInv' /\ ResultInv' /\ ProcessingIsPending'
<1> SUFFICES Rest
  BY BarTypesGoOn DEF BarInv
<1>1. CASE OpenBar \/ SlashKey \/ UNCHANGED barVars
  BY <1>0, <1>1 DEF OpenBar, SlashKey, barVars, LineInv, ResultInv, ProcessingIsPending,
                    Pending
<1>2. CASE CloseBar
  BY <1>0, <1>2, LineOvertakes DEF CloseBar, ResultGoes, ResultInv
<1>3. CASE ExecuteResult
  BY <1>0, <1>3 DEF ExecuteResult, LineInv, ResultInv, ProcessingIsPending, Pending
<1>4. ASSUME NEW c \in Command \union {Blank}, TypeCommand(c) \/ SuggestionClick(c)
      PROVE  Rest
  BY <1>0, <1>4, LineOvertakes DEF TypeCommand, SuggestionClick, ResultGoes, ResultInv
<1>5. ASSUME NEW c \in Command \union {Blank}, SkillClick(c) PROVE Rest
  BY <1>0, <1>5, LineOvertakes DEF SkillClick, ResultInv
<1>6. ASSUME NEW q \in Submission, HandleSubmit(q) PROVE Rest
  <2>1. /\ barInput # Blank /\ thinking' = [thinking EXCEPT ![q] = barInput]
        /\ overtaken' = overtaken \union Pending
        /\ barInput' = barInput /\ barResult' = NoResult
    BY <1>6 DEF HandleSubmit, ResultGoes, Overtake
  <2>2. Pending' = Pending \union {q} /\ thinking'[q] = barInput
    BY <1>0, <2>1 DEF Pending, BarTypeOK
  <2> QED BY <2>1, <2>2 DEF LineInv, ResultInv, ProcessingIsPending
<1>7. ASSUME NEW q \in Submission, Understood(q) PROVE Rest
  <2>1. /\ q \in Pending /\ thinking' = [thinking EXCEPT ![q] = Blank]
        /\ barResult' = thinking[q] /\ isProcessing' = FALSE
        /\ lateResult' = (q \in overtaken)
    BY <1>7 DEF Understood
  <2>2. /\ Pending' = Pending \ {q}
        /\ \A p \in Pending \ {q} : thinking'[p] = thinking[p]
    BY <1>0, <2>1 DEF Pending, BarTypeOK
  <2>3. CASE NamesSkill(thinking[q])
    <3>1. /\ overtaken' = Pending \ {q}
          /\ barInput' = CalledNote /\ handed' = thinking[q]
      BY <1>7, <2>3 DEF Understood
    <3> QED BY <2>1, <2>2, <3>1 DEF LineInv, ResultInv, ProcessingIsPending
  <2>4. CASE ~NamesSkill(thinking[q])
    <3>1. overtaken' = overtaken \ {q} /\ barInput' = barInput
      BY <1>7, <2>4 DEF Understood
    <3>2. LineInv'
      BY <1>0, <2>2, <3>1 DEF LineInv
    <3>3. ResultInv'
      BY <1>0, <2>1, <3>1 DEF LineInv, ResultInv
    <3> QED BY <2>1, <3>2, <3>3 DEF ProcessingIsPending
  <2> QED BY <2>3, <2>4
<1> QED
  BY <1>1, <1>2, <1>3, <1>4, <1>5, <1>6, <1>7 DEF BarNext, EscapeKey, ClickBeside

\* The result below the line is that of the line, unless the line changed while
\* it was understood; the spinner turns only for a submission under way
\* (handleSubmit of LUI/CommandBar).
THEOREM BarStaysTrue == BarSpec => []BarShowsItsCommand
<1>1. BarInv => BarShowsItsCommand
  BY DEF BarInv, ResultInv, BarShowsItsCommand, ResultIsOfTheLine, ResultIsShown
<1> QED BY <1>1, BarStarts, BarGoesOn, PTL DEF BarSpec

-----------------------------------------------------------------------------
(* All the pages                                                           *)

ControlTypes ==
    /\ lock \in BOOLEAN /\ loading \in BOOLEAN /\ summary \subseteq Send
    /\ creating \in BOOLEAN /\ leaked \in BOOLEAN /\ spoiled \in BOOLEAN
    /\ deleting \in [sid : Session \union {NoSession}, active : BOOLEAN]

LEMMA ControlGoesOn == ControlTypes /\ [ChatNext]_chatVars => ControlTypes'
<1> SUFFICES ASSUME ControlTypes, [ChatNext]_chatVars PROVE ControlTypes'
  OBVIOUS
<1> USE DEF ControlTypes
<1>1. CASE UNCHANGED chatVars
  BY <1>1 DEF chatVars
<1>2. CASE \E k \in Send, how \in Ways : HandleSend(k, how)
  BY <1>2 DEF HandleSend, OpenStream
<1>3. CASE SendOpensDialog \/ HandleClearChat \/ ClearCommand \/ ExitAgentMode \/ HandleCreate
  BY <1>3 DEF SendOpensDialog, HandleClearChat, ClearCommand, ExitAgentMode, EmptyTheChat,
              HandleCreate
<1>4. CASE \E l \in Load, s \in Session : HandleSelectSession(l, s)
  BY <1>4 DEF HandleSelectSession
<1>5. CASE \E s \in Session : HandleDeleteSession(s)
  BY <1>5 DEF HandleDeleteSession
<1>6. CASE \E k \in Send : SessionCreated(k) \/ SessionNotCreated(k) \/ ServerStores(k)
  BY <1>6 DEF SessionCreated, SessionNotCreated, ServerStores, OpenStream
<1>7. CASE \E k \in Send : StreamStep(k)
  BY <1>7 DEF StreamStep, OnDone, OnError, StreamEnds, StreamSilent
<1>8. CASE \E l \in Load : ServerReads(l) \/ LoadArrives(l) \/ LoadFails(l)
  BY <1>8 DEF ServerReads, LoadArrives, LoadFails
<1>9. CASE CreateAnswered \/ FetchSessions
  BY <1>9 DEF CreateAnswered, FetchSessions
<1>10. CASE DeleteAnswered
  <2>1. /\ creating' = (creating \/ deleting.active)
        /\ deleting' = [sid |-> NoSession, active |-> FALSE]
        /\ lock' = lock /\ loading' = loading /\ summary' = summary
        /\ leaked' = leaked /\ spoiled' = spoiled
    BY <1>10 DEF DeleteAnswered
  <2>2. creating' \in BOOLEAN
    BY <2>1
  <2>3. deleting' \in [sid : Session \union {NoSession}, active : BOOLEAN]
    BY <2>1
  <2> QED BY <2>1, <2>2, <2>3
<1> QED BY <1>1, <1>2, <1>3, <1>4, <1>5, <1>6, <1>7, <1>8, <1>9, <1>10
        DEF ChatNext, UserActs, ServerAnswers

LEMMA ChatStaysTyped == ChatSpec => []ChatTypeOK
<1>1. ASSUME ChatInit PROVE ControlTypes
  <2>1. /\ lock = FALSE /\ loading = FALSE /\ summary = {} /\ creating = FALSE
        /\ leaked = FALSE /\ spoiled = FALSE
        /\ deleting = [sid |-> NoSession, active |-> FALSE]
    BY <1>1 DEF ChatInit
  <2> QED BY <2>1 DEF ControlTypes
<1>2. ScreenInv /\ ControlTypes => ChatTypeOK
  BY DEF ScreenInv, ScreenTypes, ControlTypes, ChatTypeOK
<1> QED BY <1>1, <1>2, ScreenStarts, ScreenGoesOn, ControlGoesOn, PTL DEF ChatSpec

LEMMA SessionStaysTyped == SessionSpec => []SessionTypeOK
<1>1. ASSUME SessionInv PROVE SessionTypeOK
  <2>1. \A i \in DOMAIN messageRows : messageRows[i] \in MessageRow
    <3>1. messageRows \in Seq(MessageRow)
      BY <1>1, SessionFacts, SessionAssumption
    <3> QED BY <3>1
  <2>2. \A r \in Ask : asking[r].pc \in AskPc /\ asking[r].turns \in Seq(CachedTurn)
    BY <1>1, SessionFacts, SessionAssumption
  <2> QED BY <1>1, <2>1, <2>2 DEF SessionInv, SessionTypes, SessionTypeOK, MessageRow
<1>2. SessionInit => SessionInv
  BY SessionInitInv, SessionAssumption
<1>3. SessionInv /\ [SessionNext]_sessionVars => SessionInv'
  BY SessionNextInv, SessionAssumption
<1> QED BY <1>1, <1>2, <1>3, PTL DEF SessionSpec

\* The pages share no state: what is composed of them takes the steps of each.
LEMMA PartsOfTheChat ==
    Spec => /\ SseSpec /\ ChatSpec /\ MessageSpec /\ ComposerSpec /\ QuickSpec /\ BarSpec
            /\ SessionSpec
<1>1. Init => /\ SseInit /\ ChatInit /\ MessageInit /\ ComposerInit /\ QuickInit /\ BarInit
              /\ SessionInit
  BY DEF Init
<1>2. [Next]_vars => /\ [SseNext]_sseVars /\ [ChatNext]_chatVars /\ [MessageNext]_messageVars
                     /\ [ComposerNext]_composerVars /\ [QuickNext]_quickVars
                     /\ [BarNext]_barVars /\ [SessionNext]_sessionVars
  BY DEF Next, vars, OnStream, OnConversation, OnAnswers, OnComposer, OnFiles, OnCommands,
         OnSessions
<1> QED BY <1>1, <1>2, PTL DEF Spec, SseSpec, ChatSpec, MessageSpec, ComposerSpec, QuickSpec,
                               BarSpec, SessionSpec

\* Every variable of the question page, the command bar and the sessions keeps its
\* type, and the parsers never hold more lines than the server has sent, whichever
\* of them is at work.
THEOREM ChatPagesStayTyped == Spec => []ChatPagesTypeOK
<1>1. Init => screen \in Screen
  BY DEF Init
<1>2. screen \in Screen /\ [Next]_vars => (screen \in Screen)'
  BY DEF Next, vars, Screen, OnStream, OnConversation, OnAnswers, OnComposer, OnFiles,
         OnCommands, OnSessions
<1>3. MessageInv => MessageTypeOK
  BY DEF MessageInv
<1>4. ComposerInv => ComposerTypeOK
  BY DEF ComposerInv
<1>5. QuickInv => QuickTypeOK
  BY DEF QuickInv
<1>6. BarInv => BarTypeOK
  BY DEF BarInv
<1>7. /\ MessageSpec => []MessageTypeOK
      /\ ComposerSpec => []ComposerTypeOK
      /\ QuickSpec => []QuickTypeOK
      /\ BarSpec => []BarTypeOK
  BY <1>3, <1>4, <1>5, <1>6, MessagesStart, MessagesGoOn, ComposerStarts, ComposerGoesOn,
     QuickStarts, QuickGoesOn, BarStarts, BarGoesOn, PTL
     DEF MessageSpec, ComposerSpec, QuickSpec, BarSpec
<1>8. /\ screen \in Screen /\ SseTypeOK /\ ChatTypeOK /\ MessageTypeOK /\ ComposerTypeOK
      /\ QuickTypeOK /\ BarTypeOK /\ SessionTypeOK
      => ChatPagesTypeOK
  BY DEF ChatPagesTypeOK
<1>9. Spec => [](screen \in Screen)
  BY <1>1, <1>2, PTL DEF Spec
<1> QED BY <1>7, <1>8, <1>9, SseTypes, ChatStaysTyped, SessionStaysTyped, PartsOfTheChat, PTL

\* What the parts promise is true of the whole, whichever of them is at work: the
\* events arrive whole and as EventFeed says, the lock does its work, and what is
\* shown of turns, feedback, input, files, commands and history is so.
THEOREM ChatPagesStayTrue ==
    Spec => /\ [](/\ EventsArriveWhole /\ LockMeansWork /\ ScreenMatchesSession
                  /\ ShownFeedbackWasStored /\ InputAreaIsTrue /\ ReadyPhaseIsTrue
                  /\ BarShowsItsCommand /\ HistoryIsTrue)
            /\ ImplementsFeed
<1>1. Spec => /\ []EventsArriveWhole /\ []LockMeansWork /\ []ScreenMatchesSession
              /\ ImplementsFeed
  BY PartsOfTheChat, EventsAreWhole, LockDoesItsWork, ScreenIsOfTheSession,
     ReaderImplementsFeed
<1>2. Spec => /\ []ShownFeedbackWasStored /\ []InputAreaIsTrue /\ []ReadyPhaseIsTrue
              /\ []BarShowsItsCommand /\ []HistoryIsTrue
  BY PartsOfTheChat, FeedbackIsStored, InputAreaStaysTrue, ReadyIsTrue, BarStaysTrue,
     HistoryStaysTrue
<1> QED BY <1>1, <1>2, PTL
=============================================================================
