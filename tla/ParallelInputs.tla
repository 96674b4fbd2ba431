--------------------------- MODULE ParallelInputs ---------------------------
(***************************************************************************)
(* One run of a tool over the inputs of its job, tasks/base.py: in its      *)
(* workspace (services/temp_files.py) the run maps every input to its       *)
(* outputs, one after the other or, for tools that wait for a subprocess,   *)
(* on a pool of threads. Celery stops a run softly, then kills it; the      *)
(* cleanup removes workspaces by age. An operation on an input ends as the  *)
(* command runner (utils/command.py) and the operation let it end.          *)
(***************************************************************************)
EXTENDS Naturals, Sequences, FiniteSets

CONSTANTS MaxInputs,  \* bound: inputs of the job
          MaxWorkers, \* capacities of the engine to try (max_workers)
          Ceiling,    \* progress_ceiling
          SoftLimit,  \* task_soft_time_limit, in ticks
          HardLimit,  \* task_time_limit
          MaxAge,     \* TEMP_FILE_MAX_AGE_MINUTES
          RunUpsets   \* which failures may happen, each at most once

AllRunUpsets == {"processing", "timeout", "missing", "exit", "error",
                 "report_fails", "soft_limit", "killed"}

ASSUME RunAssumption ==
  /\ MaxInputs \in Nat \ {0} /\ MaxWorkers \subseteq Nat \ {0}
  /\ Ceiling \in Nat
  /\ SoftLimit \in Nat /\ HardLimit \in Nat /\ MaxAge \in Nat
  /\ SoftLimit < HardLimit /\ HardLimit < MaxAge
  /\ RunUpsets \subseteq AllRunUpsets

VARIABLES inputs,    \* number of inputs
          width,     \* threads of the pool; 1: process_each_input
          op,        \* op[i]: where the operation on input i stands
          taken,     \* results the run has taken, with as_completed
          results,   \* results[i]: the input whose outputs fill slot i; 0: none
          main,      \* the run's own thread
          progress,  \* last reported progress
          outcome,   \* "none", the outputs, or the error of the run
          dir,       \* the workspace
          age,       \* ticks since the run began
          happened   \* upsets so far

runVars == <<inputs, width, op, taken, results, main, progress, outcome, dir,
             age, happened>>

Inputs == 1..inputs

\* How an operation may end: with outputs, or an error of its kind.
\* run_tool_command turns a missing binary into a ProcessingError; the rest
\* of the command runner's failures stay CommandErrors.
Errors == {"PROCESSING_FAILED", "PROCESSING_TIMEOUT", "SERVER_ERROR"}
ErrorOf == [processing   |-> "PROCESSING_FAILED",
            missing      |-> "PROCESSING_FAILED",
            exit         |-> "PROCESSING_FAILED",
            timeout      |-> "PROCESSING_TIMEOUT",
            error        |-> "SERVER_ERROR",
            report_fails |-> "SERVER_ERROR",
            soft_limit   |-> "SERVER_ERROR"]
OpStates == {"queued", "running", "ok"} \cup Errors

\* What the pool has been given and has not begun, running and ended.
Waiting == {i \in Inputs : op[i] = "queued"}
Running == {i \in Inputs : op[i] = "running"}
Over == Inputs \ (Waiting \cup Running)
Sequential == width = 1

RunTypeOK ==
  /\ inputs \in 1..MaxInputs
  /\ width \in 1..MaxInputs
  /\ op \in [Inputs -> OpStates]
  /\ taken \subseteq Inputs
  /\ results \in [Inputs -> 0..inputs]
  /\ main \in {"collect", "join", "done", "dead", "abandoned"}
  /\ progress \in 0..Ceiling
  /\ outcome \in [error: Errors \cup {"none"}, outputs: {<<>>} \cup [Inputs -> 0..inputs]]
  /\ dir \in {"present", "removed"}
  /\ age \in 0..MaxAge + 1
  /\ happened \subseteq RunUpsets

NoOutcome == [error |-> "none", outputs |-> <<>>]

RunInit ==
  /\ inputs \in 1..MaxInputs
  /\ width \in {IF w < inputs THEN w ELSE inputs : w \in MaxWorkers}
  /\ op = [i \in Inputs |-> "queued"]
  /\ taken = {}
  /\ results = [i \in Inputs |-> 0]
  /\ main = "collect"
  /\ progress = 0
  /\ outcome = NoOutcome
  /\ dir = "present"
  /\ age = 0
  /\ happened = {}

RunUpset(kind) == /\ kind \in RunUpsets \ happened
               /\ happened' = happened \cup {kind}
RunCalm == UNCHANGED happened

-----------------------------------------------------------------------------
(* Operations.                                                              *)

\* The pool starts queued operations in order while it has an idle thread,
\* also after a failure; one by one, the next starts when the last is taken.
BeginInput(i) ==
  /\ i \in Waiting /\ \A k \in Waiting : i <= k
  /\ Cardinality(Running) < width
  /\ Sequential => main = "collect" /\ Over = taken
  /\ main \in {"collect", "join", "abandoned"}
  /\ op' = [op EXCEPT ![i] = "running"]
  /\ UNCHANGED <<inputs, width, taken, results, main, progress, outcome, dir,
                 age, happened>>

EndInput(i) ==
  /\ i \in Running /\ main # "dead"
  /\ \/ op' = [op EXCEPT ![i] = "ok"] /\ RunCalm
     \/ \E kind \in {"processing", "timeout", "missing", "exit", "error"} :
          RunUpset(kind) /\ op' = [op EXCEPT ![i] = ErrorOf[kind]]
  /\ UNCHANGED <<inputs, width, taken, results, main, progress, outcome, dir,
                 age>>

-----------------------------------------------------------------------------
(* The run's own thread.                                                    *)

\* An exception leaves the loop; leaving the pool's context waits for every
\* operation submitted.
Raise(error) == /\ main' = "join"
                /\ outcome' = [outcome EXCEPT !.error = error]

Progressed(n) == (n * Ceiling) \div inputs

\* Mutant: the outputs in the order in which they ended.
SlotMutant(i) == Cardinality(taken) + 1

\* The outputs go where their input is.
Slot(i) == i

\* as_completed yields the operations that are over in any order.
Take(i) ==
  /\ main = "collect" /\ i \in Over \ taken
  /\ taken' = taken \cup {i}
  /\ IF op[i] # "ok"
     THEN Raise(op[i]) /\ RunCalm /\ UNCHANGED <<results, progress>>
     ELSE /\ results' = [results EXCEPT ![Slot(i)] = i]
          /\ \/ /\ progress' = Progressed(Cardinality(taken) + 1)
                /\ RunCalm /\ UNCHANGED <<main, outcome>>
             \/ /\ RunUpset("report_fails")
                /\ Raise("SERVER_ERROR") /\ UNCHANGED progress
  /\ UNCHANGED <<inputs, width, op, dir, age>>

\* All results are taken: the outputs, slot by slot.
Return ==
  /\ main = "collect" /\ taken = Inputs
  /\ main' = "join"
  /\ outcome' = [outcome EXCEPT !.outputs = results]
  /\ UNCHANGED <<inputs, width, op, taken, results, progress, dir, age, happened>>

\* Mutant: the pool is shut down without waiting for its threads.
JoinedMutant == TRUE

Joined == Running = {} /\ (Sequential \/ Waiting = {})

\* SoftTimeLimitExceeded is raised in the run's thread wherever it waits: for
\* its own subprocess, which it kills, for the next result, or for the pool to
\* shut down. In the last case the run leaves at once.
SoftStop ==
  /\ age >= SoftLimit /\ RunUpset("soft_limit")
  /\ \/ /\ main = "collect"
        /\ Raise("SERVER_ERROR")
        /\ op' = IF Sequential
                 THEN [i \in Inputs |-> IF op[i] = "running" THEN "SERVER_ERROR"
                                                              ELSE op[i]]
                 ELSE op
        /\ UNCHANGED dir
     \/ /\ main = "join" /\ ~Joined
        /\ main' = "abandoned"
        /\ outcome' = [outcome EXCEPT !.error = "SERVER_ERROR"]
        /\ dir' = "removed"
        /\ UNCHANGED op
  /\ UNCHANGED <<inputs, width, taken, results, progress, age>>

\* The pool is shut down and the workspace removed, however the run went.
Leave ==
  /\ main = "join" /\ Joined
  /\ main' = "done"
  /\ dir' = "removed"
  /\ UNCHANGED <<inputs, width, op, taken, results, progress, outcome, age,
                 happened>>

Alive == main \notin {"done", "dead", "abandoned"}

\* The process dies with its threads and leaves the workspace behind: killed
\* at the hard limit, or at any time.
Kill ==
  /\ Alive
  /\ IF age >= HardLimit THEN RunCalm ELSE RunUpset("killed")
  /\ main' = "dead"
  /\ op' = [i \in Inputs |-> IF op[i] = "running" THEN "queued" ELSE op[i]]
  /\ UNCHANGED <<inputs, width, taken, results, progress, outcome, dir, age>>

-----------------------------------------------------------------------------
(* Time and the cleanup.                                                    *)

\* No run outlives its hard limit.
Tick ==
  /\ age <= MaxAge
  /\ Alive => age < HardLimit
  /\ age' = age + 1
  /\ UNCHANGED <<inputs, width, op, taken, results, main, progress, outcome, dir,
                 happened>>

\* Mutant: the age is compared the wrong way round.
PurgeStaleMutant ==
  /\ dir = "present" /\ age < MaxAge /\ main = "dead"
  /\ dir' = "removed"
  /\ UNCHANGED <<inputs, width, op, taken, results, main, progress, outcome, age,
                 happened>>

PurgeStale ==
  /\ dir = "present" /\ age > MaxAge
  /\ dir' = "removed"
  /\ UNCHANGED <<inputs, width, op, taken, results, main, progress, outcome, age,
                 happened>>

RunStep == \/ \E i \in Inputs : BeginInput(i) \/ EndInput(i) \/ Take(i)
           \/ Return \/ Leave

RunNext == RunStep \/ SoftStop \/ Kill \/ Tick \/ PurgeStale

RunFairness == /\ WF_runVars(RunStep)
            /\ WF_runVars(Tick)
            /\ WF_runVars(PurgeStale)
            /\ WF_runVars(age >= HardLimit /\ Kill)

RunSpec == RunInit /\ [][RunNext]_runVars /\ RunFairness

-----------------------------------------------------------------------------

\* No operation works in a workspace that is gone: the run waits for its
\* threads before it removes it, and the cleanup takes no workspace younger
\* than a run can be. Only the soft limit can pull it from under them.
WorkspaceOutlivesWork == dir = "removed" => Running = {} \/ main = "abandoned"

\* The run reports an error only if an input, a report or the clock caused it,
\* and outputs only if every input has them; in the order of the inputs, in
\* whatever order they were finished.
ErrorsHaveCause ==
  /\ outcome.error # "none" =>
       \E kind \in happened \ {"killed"} : ErrorOf[kind] = outcome.error
  /\ outcome.outputs # <<>> =>
       \A i \in Inputs : op[i] = "ok" /\ outcome.outputs[i] = i

\* No run that began leaves its workspace for good: it removes its own, and
\* the cleanup those of killed runs.
WorkspacesGo == (main # "collect" \/ op[1] # "queued") ~> dir = "removed"
=============================================================================
