------------------------------ MODULE Evaluation ------------------------------
(***************************************************************************)
(* One evaluation data set: the pipeline that generates it, the pages that *)
(* start the pipeline and follow its events, the page that shows the data  *)
(* set and polls it, and the evaluation runs started there.  Nothing in    *)
(* the service keeps two generations of one data set apart.  What the      *)
(* event streams deliver is what EventFeed allows: an end that was sent    *)
(* may be lost.                                                            *)
(***************************************************************************)
EXTENDS Naturals, FiniteSets

CONSTANTS Generation, NoGeneration,   \* generations; bounds their number
          GeneratePage,               \* tabs that show the generate page
          Run, NoRun,                 \* evaluation runs; bounds their number
          DatasetFetch                \* calls of getDataset under way

ASSUME EvaluationAssumption == NoGeneration \notin Generation /\ NoRun \notin Run

VARIABLES
    datasetStatus,
    generation,      \* the stage of each pipeline
    generatePage,    \* phase, hasStarted, and the generation it listens to
    drawnStatus, datasetFetch,         \* the page of the data set
    run,             \* the status of each run
    runFeed,         \* what the page has heard of each run
    evalRunning, activeRunId,
    abandoned,       \* history: a pipeline at work has ended without a word, and
                     \* nothing has been written since
    runsOverlapped   \* history: two runs were followed at the same time

generationVars == <<datasetStatus, generation, generatePage, abandoned>>
detailVars     == <<drawnStatus, datasetFetch>>
runVars        == <<run, runFeed, evalRunning, activeRunId, runsOverlapped>>
evaluationVars == <<generationVars, detailVars, runVars>>

DatasetStatus == {"DRAFT", "GENERATING", "COMPLETED", "FAILED"}

StagesAtWork == {"discovering", "parsing", "finishing"}

Alive == StagesAtWork \union {"requested", "telling"}

EvaluationTypeOK ==
    /\ datasetStatus \in DatasetStatus
    /\ drawnStatus \in DatasetStatus \union {"none"}
    /\ generation \in [Generation -> {"idle", "done", "error"} \union Alive]
    /\ generatePage \in [GeneratePage ->
            [phase : {"ready", "generating", "done", "error", "lost"},
             hasStarted : BOOLEAN, of : Generation \union {NoGeneration}]]
    /\ datasetFetch \in [DatasetFetch -> DatasetStatus \union {"none", "sent"}]
    /\ run \in [Run -> {"none", "PENDING", "RUNNING", "COMPLETED", "FAILED"}]
    /\ runFeed \in [Run -> {"none", "open", "ended", "lost"}]
    /\ activeRunId \in Run \union {NoRun}
    /\ {evalRunning, abandoned, runsOverlapped} \subseteq BOOLEAN

EvaluationIdle ==
    /\ datasetStatus = "DRAFT"
    /\ generation = [g \in Generation |-> "idle"]
    /\ generatePage = [p \in GeneratePage |->
            [phase |-> "ready", hasStarted |-> FALSE, of |-> NoGeneration]]
    /\ drawnStatus = "none"
    /\ run = [r \in Run |-> "none"] /\ runFeed = [r \in Run |-> "none"]
    /\ evalRunning = FALSE /\ activeRunId = NoRun
    /\ abandoned = FALSE /\ runsOverlapped = FALSE

\* The page of the data set is opened: its first fetch is on its way.
EvaluationInit ==
    /\ EvaluationIdle
    /\ \E c \in DatasetFetch :
          datasetFetch = [e \in DatasetFetch |-> IF e = c THEN "sent" ELSE "none"]

-----------------------------------------------------------------------------
(* The generation: EvalGenerationPipeline                                  *)

PipelineLeaves(g, from, to) ==
    /\ generation[g] = from
    /\ generation' = [generation EXCEPT ![g] = to]
    /\ UNCHANGED <<generatePage, detailVars, runVars>>

PipelineStep(g, from, to, status) ==
    /\ PipelineLeaves(g, from, to)
    /\ datasetStatus' = status /\ abandoned' = FALSE

\* Each of the first stages writes GENERATING, whatever the status is by then.
GenerationBegins(g)  == PipelineStep(g, "requested", "discovering", "GENERATING")
FilesDiscovered(g)   == PipelineStep(g, "discovering", "parsing", "GENERATING")
FilesProcessed(g)    == PipelineStep(g, "parsing", "finishing", "GENERATING")
GenerationEnds(g)    == PipelineStep(g, "finishing", "telling", "COMPLETED")
ResultIsTold(g)      == PipelineLeaves(g, "telling", "done")
                           /\ UNCHANGED <<datasetStatus, abandoned>>
GenerationFails(g)   == \E stage \in StagesAtWork \union {"requested"} :
                            PipelineStep(g, stage, "error", "FAILED")

\* The callback of the result catches IOException only: when the emitter is
\* complete already, a finished data set is marked as failed.
TellingFails(g)      == PipelineStep(g, "telling", "error", "FAILED")

\* The failure itself cannot be written, which is ignored, or it is no Exception
\* and is not caught: the status stays what it is.
GenerationVanishes(g) ==
    \E stage \in Alive :
        /\ PipelineLeaves(g, stage, "error")
        /\ abandoned' = (abandoned \/ stage \in StagesAtWork)
        /\ UNCHANGED datasetStatus

\* The process ends: its pipelines are gone, the status stays what it is.
ServiceDies ==
    /\ \E g \in Generation : generation[g] \in StagesAtWork
    /\ generation' = [g \in Generation |->
                        IF generation[g] \in Alive THEN "error" ELSE generation[g]]
    /\ abandoned' = TRUE
    /\ UNCHANGED <<datasetStatus, generatePage, detailVars, runVars>>

-----------------------------------------------------------------------------
(* The page that generates                                                 *)

HandleStart(p, g) ==
    /\ generatePage[p].phase \in {"ready", "error"} /\ ~generatePage[p].hasStarted
    /\ generation[g] = "idle"
    /\ generation' = [generation EXCEPT ![g] = "requested"]
    /\ generatePage' = [generatePage EXCEPT ![p] =
            [phase |-> "generating", hasStarted |-> TRUE, of |-> g]]
    /\ UNCHANGED <<datasetStatus, abandoned, detailVars, runVars>>

\* The last event reaches the page, or it never does.  A request that fails
\* outright reports an error while the pipeline may be at work.
GeneratePageHears(p, phase) ==
    LET g == generatePage[p].of IN
    /\ generatePage[p].phase = "generating"
    /\ phase = "done" => generation[g] = "done"
    /\ generatePage' = [generatePage EXCEPT ![p].phase = phase]
    /\ UNCHANGED <<datasetStatus, generation, abandoned, detailVars, runVars>>

\* The button that is shown with an error makes a second start possible.
RetryGeneration(p) ==
    /\ generatePage[p].phase = "error"
    /\ generatePage' = [generatePage EXCEPT ![p].phase = "ready",
                                            ![p].hasStarted = FALSE]
    /\ UNCHANGED <<datasetStatus, generation, abandoned, detailVars, runVars>>

\* Opened anew, the page knows nothing of what it had begun.
ReopenGeneratePage(p) ==
    /\ generatePage[p].hasStarted
    /\ generatePage' = [generatePage EXCEPT ![p] =
            [phase |-> "ready", hasStarted |-> FALSE, of |-> NoGeneration]]
    /\ UNCHANGED <<datasetStatus, generation, abandoned, detailVars, runVars>>

-----------------------------------------------------------------------------
(* The page of the data set                                                *)

\* The interval exists while the status shown is GENERATING.
PollDataset(c) ==
    /\ drawnStatus = "GENERATING" /\ datasetFetch[c] = "none"
    /\ datasetFetch' = [datasetFetch EXCEPT ![c] = "sent"]
    /\ UNCHANGED <<generationVars, drawnStatus, runVars>>

ServerReadsDataset(c) ==
    /\ datasetFetch[c] = "sent"
    /\ datasetFetch' = [datasetFetch EXCEPT ![c] = datasetStatus]
    /\ UNCHANGED <<generationVars, drawnStatus, runVars>>

DatasetArrives(c) ==
    /\ datasetFetch[c] \in DatasetStatus
    /\ drawnStatus' = datasetFetch[c]
    /\ datasetFetch' = [datasetFetch EXCEPT ![c] = "none"]
    /\ UNCHANGED <<generationVars, runVars>>

DatasetFetchFails(c) ==
    /\ datasetFetch[c] # "none"
    /\ datasetFetch' = [datasetFetch EXCEPT ![c] = "none"]
    /\ UNCHANGED <<generationVars, drawnStatus, runVars>>

-----------------------------------------------------------------------------
(* The evaluation runs                                                     *)

\* The button is shown for a finished data set, and for any with no run yet.
MayEvaluate ==
    \/ drawnStatus = "COMPLETED"
    \/ drawnStatus # "none" /\ \A r \in Run : run[r] = "none"

\* createEvalRun; the dialog is closed and can be opened again at once.
CreateRun(r) ==
    /\ MayEvaluate /\ run[r] = "none"
    /\ run' = [run EXCEPT ![r] = "PENDING"]
    /\ UNCHANGED <<generationVars, detailVars, runFeed, evalRunning,
                   activeRunId, runsOverlapped>>

OpenRuns == {r \in Run : runFeed[r] = "open"}

RunCreated(r) ==
    /\ run[r] = "PENDING" /\ runFeed[r] = "none"
    /\ runFeed' = [runFeed EXCEPT ![r] = "open"]
    /\ activeRunId' = r /\ evalRunning' = TRUE
    /\ runsOverlapped' = (runsOverlapped \/ OpenRuns # {})
    /\ UNCHANGED <<generationVars, detailVars, run>>

ServerRuns(r) ==
    /\ runFeed[r] # "none"
    /\ \/ run[r] = "PENDING" /\ run' = [run EXCEPT ![r] = "RUNNING"]
       \/ /\ run[r] = "RUNNING"
          /\ \E status \in {"COMPLETED", "FAILED"} :
                run' = [run EXCEPT ![r] = status]
    /\ UNCHANGED <<generationVars, detailVars, runFeed, evalRunning,
                   activeRunId, runsOverlapped>>

\* Callbacks that leave the indicator on.
KeepsTheIndicator(r, as) ==
    /\ runFeed[r] = "open"
    /\ runFeed' = [runFeed EXCEPT ![r] = as]
    /\ UNCHANGED <<generationVars, detailVars, run, evalRunning, activeRunId,
                   runsOverlapped>>

\* onDone and onError clear the indicator, whichever run it stands for; the
\* promise is not awaited, so a stream that ends otherwise leaves it on.
RunHeard(r, as) ==
    /\ runFeed[r] = "open"
    /\ runFeed' = [runFeed EXCEPT ![r] = as]
    /\ evalRunning' = IF as = "ended" THEN FALSE ELSE evalRunning
    /\ UNCHANGED <<generationVars, detailVars, run, activeRunId, runsOverlapped>>

-----------------------------------------------------------------------------
PipelineAdvances(g) ==
    \/ GenerationBegins(g) \/ FilesDiscovered(g) \/ FilesProcessed(g)
    \/ GenerationEnds(g) \/ ResultIsTold(g)
    \/ GenerationFails(g) \/ TellingFails(g) \/ GenerationVanishes(g)

RunFeedEnds(r) == \E as \in {"ended", "lost"} : RunHeard(r, as)

EvaluationNext ==
    \/ \E g \in Generation : PipelineAdvances(g)
    \/ ServiceDies
    \/ \E p \in GeneratePage :
          \/ \E g \in Generation : HandleStart(p, g)
          \/ \E phase \in {"done", "error", "lost"} : GeneratePageHears(p, phase)
          \/ RetryGeneration(p) \/ ReopenGeneratePage(p)
    \/ \E c \in DatasetFetch :
          \/ PollDataset(c) \/ ServerReadsDataset(c)
          \/ DatasetArrives(c) \/ DatasetFetchFails(c)
    \/ \E r \in Run : CreateRun(r) \/ RunCreated(r) \/ ServerRuns(r) \/ RunFeedEnds(r)

EvaluationSpec == EvaluationInit /\ [][EvaluationNext]_evaluationVars

\* The service works, the interval ticks, and an answer that is asked for
\* again and again arrives; a feed ends sooner or later, somehow.
EvaluationGoesOn ==
    /\ \A g \in Generation : WF_evaluationVars(PipelineAdvances(g))
    /\ \A c \in DatasetFetch :
          WF_evaluationVars(ServerReadsDataset(c) \/ DatasetFetchFails(c))
    /\ \A r \in Run : WF_evaluationVars(RunFeedEnds(r))

EvaluationTick == \E c \in DatasetFetch : PollDataset(c)

EvaluationFairness ==
    /\ EvaluationGoesOn /\ SF_evaluationVars(EvaluationTick)
    /\ \A c \in DatasetFetch :
          /\ SF_evaluationVars(ServerReadsDataset(c))
          /\ SF_evaluationVars(DatasetArrives(c))

-----------------------------------------------------------------------------
(* Properties                                                              *)

\* A data set is in generation only while a pipeline works on it, however many
\* were started for it and in whatever order they end, until one ends without a
\* word: with the service, or because its failure could not be written.
GeneratingHasPipeline ==
    datasetStatus = "GENERATING" =>
        abandoned \/ \E g \in Generation : generation[g] \in StagesAtWork

\* A page that reports a finished data set tells the truth, until another
\* generation of the same data set has been started.
DoneIsCompleted ==
    \A p \in GeneratePage :
        generatePage[p].phase = "done" /\ datasetStatus # "COMPLETED" =>
            \E g \in Generation \ {generatePage[p].of} :
                generation[g] \notin {"idle", "requested"}

\* The indicator of the evaluation is on exactly while a run is followed,
\* unless two were followed at once or a feed ended without telling.
RunningIsShown ==
    \/ runsOverlapped \/ \E r \in Run : runFeed[r] = "lost"
    \/ evalRunning <=> OpenRuns # {}

\* What the pages say of work on the server is true of the work.
EvaluationIsShown == GeneratingHasPipeline /\ DoneIsCompleted /\ RunningIsShown

\* The page of the data set stops showing a generation that has ended.
ShownGenerationEnds ==
    []<>~(drawnStatus = "GENERATING" /\ datasetStatus # "GENERATING")
=============================================================================
