---------------------------- MODULE PipelineLedger ----------------------------
(***************************************************************************)
(* The ingestion flow implements DocLedger: the phase of a document is its *)
(* knowledge_doc.status, its chunks are its embed_task rows.               *)
(***************************************************************************)
EXTENDS IngestionPipeline

\* The working statuses are one phase.
PhaseOf(status) ==
    CASE status = "ABSENT"  -> "none"
      [] status = "DRAFT"   -> "draft"
      [] status = "PENDING" -> "pending"
      [] status = "READY"   -> "ready"
      [] status = "FAILED"  -> "failed"
      [] status = "GONE"    -> "gone"
      [] OTHER              -> "processing"

Ledger == INSTANCE DocLedger WITH
    Piped    <- SmartParse,
    phase    <- [d \in Doc |-> PhaseOf(docStatus[d])],
    planned  <- [d \in Doc |-> {c \in Chunk : task[<<d, c>>] # "ABSENT"}],
    embedded <- [d \in Doc |-> {c \in Chunk : task[<<d, c>>] = "DONE"}]

\* Every behaviour with one request thread, no dying request, no restart of the
\* document processor and no message published twice is one of DocLedger: a
\* document moves forward only, READY and FAILED are never overwritten, and it
\* is READY only when all its chunks are embedded.
ImplementsLedger == Ledger!Spec

=============================================================================
