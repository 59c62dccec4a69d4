------------------------------ MODULE EventFeed ------------------------------
(***************************************************************************)
(* What a page may rely on when it consumes a server-sent event stream: an *)
(* event reaches it at most once and in the order of sending, some events  *)
(* may never reach it, and nothing follows the event that ends the stream. *)
(***************************************************************************)
EXTENDS Naturals, Sequences

CONSTANT MaxEvents  \* bound on the events of one stream

VARIABLES
    sent,    \* the kinds of the events the server has sent
    got,     \* the positions in sent of the events handed to the page
    state    \* "open", or how the consumption ended

feedVars == <<sent, got, state>>

Kind == {"token", "stage", "done", "error"}

Final == {"done", "error"}

Terminated == sent # <<>> /\ sent[Len(sent)] \in Final

LastGot == IF got = <<>> THEN 0 ELSE got[Len(got)]

FeedInit == sent = <<>> /\ got = <<>> /\ state = "open"

Emit(kind) ==
    /\ ~Terminated /\ Len(sent) < MaxEvents
    /\ sent' = Append(sent, kind)
    /\ UNCHANGED <<got, state>>

Deliver(i) ==
    /\ state = "open" /\ i > LastGot
    /\ got' = Append(got, i)
    /\ state' = IF sent[i] \in Final THEN sent[i] ELSE "open"
    /\ UNCHANGED sent

\* The call fails, or the stream ends without telling.
GiveUp ==
    /\ state = "open"
    /\ state' \in {"error", "thrown", "silent"}
    /\ UNCHANGED <<sent, got>>

FeedNext ==
    \/ \E kind \in Kind : Emit(kind)
    \/ \E i \in 1 .. Len(sent) : Deliver(i)
    \/ GiveUp

FeedSpec == FeedInit /\ [][FeedNext]_feedVars
=============================================================================
