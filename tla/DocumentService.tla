---------------------------- MODULE DocumentService ----------------------------
(***************************************************************************)
(* The services behind the pages of the portal, as these see them through  *)
(* HTTP: a status for each document, which moves on its own and may move   *)
(* back.  Nothing promises that it ever settles: a lost message, a         *)
(* document without chunks or a batch of several documents leaves it where *)
(* it is (IngestionPipeline), so no fairness is stated for these actions.  *)
(***************************************************************************)
CONSTANTS
    Doc, NoDoc,
    Stage   \* PARSING, CHUNKING, EMBEDDING, VECTOR_PENDING: no page names one

\* What the pages know besides the stages, and what they note of calls.
Known == {"DRAFT", "PENDING", "PROCESSING", "READY", "FAILED"}
Noted == {"none", "gone", "absent", "no", "sent", "ok", "failed", "error", "READ"}

ASSUME DocumentServiceAssumption ==
    NoDoc \notin Doc /\ Stage \intersect (Known \union Noted) = {}

VARIABLE status   \* "none": not committed yet; "gone": deleted

Polled    == {"PENDING", "PROCESSING"}  \* in progress, for the list and the dialog
Settled   == {"READY", "FAILED"}
DocStatus == Known \union Stage

Becomes(d, new) == status' = [status EXCEPT ![d] = new]

\* Once a document is committed, its message may have been sent, and may be
\* delivered again and again.
Committed(d) == status[d] \in DocStatus \ {"DRAFT"}

\* The calls of commit and ingest, whoever makes them: a space without smart
\* parsing has the document READY at once.  A call of ingest writes what it has
\* found PENDING, whatever has become of it since.
IngestionBegins(d) ==
    \/ status[d] = "DRAFT" /\ Becomes(d, "PENDING")
    \/ Committed(d) /\ \E new \in {"PROCESSING", "READY"} : Becomes(d, new)

\* The document processor writes its stages, or gives up, whatever has become
\* of the document since the message was sent.
StageBegins(d) == Committed(d) /\ \E new \in Stage \union {"FAILED"} : Becomes(d, new)

\* The vector service has the last chunk, or fails with one.
IngestionEnds(d) == Committed(d) /\ \E new \in Settled : Becomes(d, new)

ServerIngests(d) == IngestionBegins(d) \/ StageBegins(d) \/ IngestionEnds(d)
=============================================================================
