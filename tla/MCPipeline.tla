------------------------------ MODULE MCPipeline ------------------------------
(***************************************************************************)
(* Small instances of IngestionPipeline for TLC: documents, threads and    *)
(* the fault budgets of the runs.                                          *)
(***************************************************************************)
EXTENDS PipelineLedger, TLC

CONSTANTS d1, d2, r1, r2

Each(kinds) == [k \in FaultKind |-> IF k \in kinds THEN 1 ELSE 0]

NoFault == Each({})

\* Request threads differ by name only, and so do two documents of a space.
Threads == Permutations({r1, r2})
Twins   == Permutations({d1, d2})

\* Faults of requests and of the document processor.
Front == Each({"requestDies", "stageError", "objectKept", "workerCrash"})

\* Restarts of every process, and what may strike next to them.
Restarts == Each({"requestDies", "stageError", "workerCrash", "milvusError",
                  "vectorCrash"})

\* A restart of the listener delivers a batch again.
ListenerCrash == Each({"vectorCrash"})

\* Faults under which a document still moves forward only.
Steady == Each({"sendLost", "stageError", "markError", "publishLost",
                "objectKept", "milvusError", "sqlError", "vectorCrash"})

\* Faults after which a document still gets to an end.
Settling == Each({"stageError", "workerCrash", "milvusError", "publishTwice"})

\* Only a failing stage.
StageError  == Each({"stageError"})
=============================================================================
