------------------------------ MODULE DocLedger ------------------------------
(***************************************************************************)
(* What the ingestion flow promises of a document, whichever service does  *)
(* the work: a document goes from draft to ready or failed once, never     *)
(* back, and is ready only when everything planned for it is embedded.     *)
(***************************************************************************)
EXTENDS Naturals

CONSTANTS
    Doc,     \* documents
    Chunk,   \* chunk numbers
    Piped    \* documents that go through the pipeline

VARIABLES
    phase,     \* what a user is told of the document
    planned,   \* the chunks it has been cut into
    embedded   \* those of them that can be found

ledgerVars == <<phase, planned, embedded>>

Init ==
    /\ phase = [d \in Doc |-> "none"]
    /\ planned = [d \in Doc |-> {}]
    /\ embedded = [d \in Doc |-> {}]

Move(d, from, to) ==
    /\ phase[d] \in from
    /\ phase' = [phase EXCEPT ![d] = to]
    /\ UNCHANGED <<planned, embedded>>

Register(d) == Move(d, {"none"}, "draft")
Submit(d)   == Move(d, {"draft"}, "pending")
Begin(d)    == d \in Piped /\ Move(d, {"pending"}, "processing")
Publish(d)  == d \notin Piped /\ Move(d, {"pending"}, "ready")
Fail(d)     == Move(d, {"processing"}, "failed")
Remove(d)   == Move(d, {"draft", "pending", "processing", "ready", "failed"}, "gone")

\* The chunks of a document are fixed once, while it is being processed; its
\* owner may have removed it meanwhile.
Plan(d) ==
    /\ phase[d] \in {"processing", "gone"}
    /\ planned[d] = {}
    /\ planned' \in {[planned EXCEPT ![d] = chunks] : chunks \in SUBSET Chunk}
    /\ UNCHANGED <<phase, embedded>>

\* Chunks of several documents are embedded together; d is the one document
\* whose completion is noticed.
Embed(d) ==
    /\ embedded' \in [Doc -> SUBSET Chunk]
    /\ \A x \in Doc : embedded[x] \subseteq embedded'[x] /\ embedded'[x] \subseteq planned[x]
    /\ \/ phase' = phase
       \/ /\ phase[d] = "processing"
          /\ planned[d] # {}
          /\ embedded'[d] = planned[d]
          /\ phase' = [phase EXCEPT ![d] = "ready"]
    /\ UNCHANGED planned

Next ==
    \E d \in Doc :
        \/ Register(d) \/ Submit(d) \/ Begin(d) \/ Publish(d)
        \/ Plan(d) \/ Embed(d) \/ Fail(d) \/ Remove(d)

Spec == Init /\ [][Next]_ledgerVars

=============================================================================
