---------------------------- MODULE JobLifecycle ----------------------------
(***************************************************************************)
(* The life of a processing job, from the request that creates it to the   *)
(* cleanup that expires it.                                                 *)
(*                                                                         *)
(*   API       services/tool_base.py  commits the row, then dispatches      *)
(*   broker    Celery, late acknowledgement, at-least-once delivery         *)
(*   worker    tasks/base.py          runs the tool, commits the outcome    *)
(*   admin     services/admin.py      cancels and "retries" jobs            *)
(*   cleanup   tasks/cleanup.py       expires terminal jobs                 *)
(*                                                                         *)
(* All of them write the same table row through an ORM session: each holds *)
(* the copy it loaded and a commit writes the columns that differ from that *)
(* copy, blindly, since the row carries no version (operator Written).      *)
(***************************************************************************)
EXTENDS Naturals, Integers, FiniteSets

CONSTANTS Jobs,         \* identifiers of the jobs clients may create
          Workers,      \* worker processes of the "pdf" queue
          NoJob,        \* what an idle process works on
          SecretJobs,   \* jobs of tools that pass redact_option_keys
          MaxOutputs,   \* bound: files one run produces
          Ceiling,      \* the highest progress a tool reports (90 %)
          Upsets,       \* which failures and interventions this instance has
          MaxUpsets     \* bound: how many of them happen in one behaviour

AllUpsets == {"publish_lost",  \* apply_async raises, nothing was delivered
              "publish_late",  \* apply_async raises after the broker accepted
              "api_crash",     \* the API process dies inside create_job
              "redeliver",     \* a lost connection: the message of a worker
                               \* that is still alive returns to the queue
              "node_crash",    \* the worker node dies, its message returns
              "child_killed",  \* hard time limit or OOM kill: acknowledged
              "db_commit",     \* a commit fails, and nobody rolls back
              "db_flush",      \* a flush fails inside _register_outputs
              "admin_cancel", "admin_retry"}

ASSUME ConstantsAssumption ==
  /\ NoJob \notin Jobs
  /\ SecretJobs \subseteq Jobs
  /\ MaxOutputs \in Nat \ {0}
  /\ Ceiling \in Nat
  /\ Upsets \subseteq AllUpsets
  /\ MaxUpsets \in Nat

VARIABLES row,      \* row[j]: the job's database row ("none": not created)
          outputs,  \* outputs[j]: committed OUTPUT links of the job
          runs,     \* runs[j]: how many times a worker began the job
          queue,    \* queue[j]: messages for j that wait in the broker
          api,      \* api[j]: where create_job stands, and its session's copy
          worker,   \* worker[w]: where run_tool_job stands in process w
          admin,    \* the admin request in progress
          cleaner,  \* jobs the cleanup task selected and not yet committed
          inputs,   \* inputs[j]: the input files are still on disk
          elapsed,  \* elapsed[j]: expires_at has passed
          upsets    \* number of upsets so far

vars == <<row, outputs, runs, queue, api, worker, admin, cleaner, inputs,
          elapsed, upsets>>

-----------------------------------------------------------------------------
(* Rows, and the ways the code changes its copy of one.                     *)

Statuses == {"none", "queued", "processing", "completed", "failed",
             "cancelled", "expired"}
Errors   == {"none", "unavailable", "input_expired", "processing", "internal"}
Full     == Ceiling + 1                       \* progress 100

Rows == [status: Statuses, progress: 0..Full, error: Errors,
         options: {"plain", "secret", "redacted"}]
NoRow == [status |-> "none", progress |-> 0, error |-> "none",
          options |-> "plain"]

TerminalMutant == {"failed", "cancelled", "expired"}
Terminal == {"completed", "failed", "cancelled", "expired"}

Dirty(stored, loaded, value) == IF value = loaded THEN stored ELSE value

\* The row after a session that loaded `loaded` commits its copy `copy`.
Written(stored, loaded, copy) ==
  [status   |-> Dirty(stored.status, loaded.status, copy.status),
   progress |-> Dirty(stored.progress, loaded.progress, copy.progress),
   error    |-> Dirty(stored.error, loaded.error, copy.error),
   options  |-> Dirty(stored.options, loaded.options, copy.options)]

CreatedMutant(j) == [status |-> "pending", progress |-> 0, error |-> "none",
                     options |-> "plain"]
Created(j) == [status |-> "queued", progress |-> 0, error |-> "none",
               options |-> IF j \in SecretJobs THEN "secret" ELSE "plain"]
MarkProcessing(r) == [r EXCEPT !.status = "processing", !.progress = 0]
SetProgress(r, p) == [r EXCEPT !.progress = IF p > Full THEN Full ELSE p]
MarkCompleted(r)  == [r EXCEPT !.status = "completed", !.progress = Full]
MarkFailed(r, code) == [r EXCEPT !.status = "failed", !.error = code]
Redacted(r) == [r EXCEPT !.options = IF @ = "secret" THEN "redacted" ELSE @]
Cancelled(r) == [r EXCEPT !.status = "cancelled"]
Requeued(r)  == [r EXCEPT !.status = "queued", !.progress = 0,
                          !.error = "none"]

-----------------------------------------------------------------------------
(* Processes.                                                               *)

\* A worker's place in run_tool_job, between two of its database steps.
WorkerPCs == {"idle", "received", "loaded", "claimed", "running",
              "registering", "failing", "finally", "published"}
RunPCs    == {"claimed", "running", "registering", "failing"}

Idle == [pc |-> "idle", job |-> NoJob, unacked |-> FALSE, view |-> NoRow,
         run |-> 0, made |-> 0, staged |-> 0, code |-> "none"]
WorkerStates == [pc: WorkerPCs, job: Jobs \cup {NoJob}, unacked: BOOLEAN,
                 view: Rows, run: Nat, made: 0..MaxOutputs,
                 staged: 0..MaxOutputs, code: Errors]

ApiStates == [pc: {"idle", "committed", "raised", "refreshed", "done"},
              view: Rows]
AdminStates == [pc: {"idle", "cancel", "retry"}, job: Jobs \cup {NoJob},
                view: Rows]
AdminIdle == [pc |-> "idle", job |-> NoJob, view |-> NoRow]

\* OUTPUT link of the position-th of `of` files produced by one run.
Output == [run: Nat, position: 1..MaxOutputs, of: 1..MaxOutputs]
Flushed(w) == {[run |-> worker[w].run, position |-> p, of |-> worker[w].made] :
                 p \in 1..worker[w].staged}

TypeOK ==
  /\ row \in [Jobs -> Rows]
  /\ outputs \in [Jobs -> SUBSET Output]
  /\ runs \in [Jobs -> Nat]
  /\ queue \in [Jobs -> Nat]
  /\ api \in [Jobs -> ApiStates]
  /\ worker \in [Workers -> WorkerStates]
  /\ admin \in AdminStates
  /\ cleaner \in SUBSET Jobs
  /\ inputs \in [Jobs -> BOOLEAN]
  /\ elapsed \in [Jobs -> BOOLEAN]
  /\ upsets \in 0..MaxUpsets

Init ==
  /\ row = [j \in Jobs |-> NoRow]
  /\ outputs = [j \in Jobs |-> {}]
  /\ runs = [j \in Jobs |-> 0]
  /\ queue = [j \in Jobs |-> 0]
  /\ api = [j \in Jobs |-> [pc |-> "idle", view |-> NoRow]]
  /\ worker = [w \in Workers |-> Idle]
  /\ admin = AdminIdle
  /\ cleaner = {}
  /\ inputs = [j \in Jobs |-> TRUE]
  /\ elapsed = [j \in Jobs |-> FALSE]
  /\ upsets = 0

Upset(kind) == /\ kind \in Upsets
               /\ upsets < MaxUpsets
               /\ upsets' = upsets + 1
Calm == UNCHANGED upsets

-----------------------------------------------------------------------------
(* API: BaseToolService.create_job.                                         *)

\* Row, INPUT links, task id and QUEUED go in one commit, before dispatch.
Create(j) ==
  /\ row[j].status = "none" /\ inputs[j]
  /\ row' = [row EXCEPT ![j] = Created(j)]
  /\ api' = [api EXCEPT ![j].pc = "committed"]
  /\ Calm
  /\ UNCHANGED <<outputs, runs, queue, worker, admin, cleaner, inputs, elapsed>>

DispatchableMutant(j) == api[j].pc \in {"idle", "committed"}
Dispatchable(j) == api[j].pc = "committed"

Dispatch(j) ==
  /\ Dispatchable(j)
  /\ queue' = [queue EXCEPT ![j] = @ + 1]
  /\ api' = [api EXCEPT ![j].pc = "done"]
  /\ Calm
  /\ UNCHANGED <<row, outputs, runs, worker, admin, cleaner, inputs, elapsed>>

\* apply_async raises; the broker may have accepted the message all the same.
DispatchRaises(j) ==
  /\ Dispatchable(j)
  /\ \/ Upset("publish_lost") /\ UNCHANGED queue
     \/ Upset("publish_late") /\ queue' = [queue EXCEPT ![j] = @ + 1]
  /\ api' = [api EXCEPT ![j].pc = "raised"]
  /\ UNCHANGED <<row, outputs, runs, worker, admin, cleaner, inputs, elapsed>>

\* except: session.refresh(job) ...
Refresh(j) ==
  /\ api[j].pc = "raised"
  /\ api' = [api EXCEPT ![j] = [pc |-> "refreshed", view |-> row[j]]]
  /\ Calm
  /\ UNCHANGED <<row, outputs, runs, queue, worker, admin, cleaner, inputs,
                 elapsed>>

\* ... then FAILED / SERVICE_UNAVAILABLE, committed.
RejectDispatch(j) ==
  /\ api[j].pc = "refreshed"
  /\ row' = [row EXCEPT ![j] = Written(@, api[j].view,
                                  MarkFailed(api[j].view, "unavailable"))]
  /\ api' = [api EXCEPT ![j] = [pc |-> "done", view |-> NoRow]]
  /\ Calm
  /\ UNCHANGED <<outputs, runs, queue, worker, admin, cleaner, inputs, elapsed>>

ApiCrash(j) ==
  /\ api[j].pc \in {"committed", "raised", "refreshed"}
  /\ Upset("api_crash")
  /\ api' = [api EXCEPT ![j] = [pc |-> "done", view |-> NoRow]]
  /\ UNCHANGED <<row, outputs, runs, queue, worker, admin, cleaner, inputs,
                 elapsed>>

-----------------------------------------------------------------------------
(* Worker: run_tool_job, one action per database step.                      *)

At(w, pc) == worker[w].pc = pc
Others == <<api, admin, cleaner, inputs, elapsed>>

Receive(w, j) ==
  /\ At(w, "idle") /\ queue[j] > 0
  /\ queue' = [queue EXCEPT ![j] = @ - 1]
  /\ worker' = [worker EXCEPT ![w] = [Idle EXCEPT !.pc = "received",
                                        !.job = j, !.unacked = TRUE]]
  /\ Calm
  /\ UNCHANGED <<row, outputs, runs, Others>>

\* A missing or terminal row ends the task; otherwise it is the copy in hand.
Load(w) ==
  /\ At(w, "received")
  /\ LET r == row[worker[w].job] IN
     worker' = [worker EXCEPT ![w] =
                  IF r.status = "none" \/ r.status \in Terminal THEN Idle
                  ELSE [@ EXCEPT !.pc = "loaded", !.view = r]]
  /\ Calm
  /\ UNCHANGED <<row, outputs, runs, queue, Others>>

\* mark_processing and its commit.
Claim(w) ==
  /\ At(w, "loaded")
  /\ LET j == worker[w].job
         copy == MarkProcessing(worker[w].view) IN
     /\ row' = [row EXCEPT ![j] = Written(@, worker[w].view, copy)]
     /\ runs' = [runs EXCEPT ![j] = @ + 1]
     /\ worker' = [worker EXCEPT ![w].pc = "claimed", ![w].view = copy,
                                 ![w].run = runs[j] + 1]
  /\ Calm
  /\ UNCHANGED <<outputs, queue, Others>>

\* That commit stands outside the try: its failure ends the task.
ClaimFails(w) ==
  /\ At(w, "loaded")
  /\ Upset("db_commit")
  /\ worker' = [worker EXCEPT ![w] = Idle]
  /\ UNCHANGED <<row, outputs, runs, queue, Others>>

\* Input paths are resolved and must all be files.
Resolve(w) ==
  /\ At(w, "claimed")
  /\ worker' = IF inputs[worker[w].job]
               THEN [worker EXCEPT ![w].pc = "running"]
               ELSE [worker EXCEPT ![w].pc = "failing",
                                   ![w].code = "input_expired"]
  /\ Calm
  /\ UNCHANGED <<row, outputs, runs, queue, Others>>

\* report_progress: within one run the tools only report rising values.
ReportProgress(w, p) ==
  /\ At(w, "running") /\ p > worker[w].view.progress
  /\ LET copy == SetProgress(worker[w].view, p) IN
     /\ row' = [row EXCEPT ![worker[w].job] =
                  Written(@, worker[w].view, copy)]
     /\ worker' = [worker EXCEPT ![w].view = copy]
  /\ Calm
  /\ UNCHANGED <<outputs, runs, queue, Others>>

\* The processor returns n files, or raises (or returns nothing).
Produce(w, n) ==
  /\ At(w, "running")
  /\ worker' = [worker EXCEPT ![w].pc = "registering", ![w].made = n]
  /\ Calm
  /\ UNCHANGED <<row, outputs, runs, queue, Others>>

ProcessorRaises(w) ==
  /\ At(w, "running")
  /\ \E code \in {"processing", "internal"} :
       worker' = [worker EXCEPT ![w].pc = "failing", ![w].code = code]
  /\ Calm
  /\ UNCHANGED <<row, outputs, runs, queue, Others>>

\* One turn of _register_outputs: import, add the rows, flush.
Register(w) ==
  /\ At(w, "registering") /\ worker[w].staged < worker[w].made
  /\ worker' = [worker EXCEPT ![w].staged = @ + 1]
  /\ Calm
  /\ UNCHANGED <<row, outputs, runs, queue, Others>>

\* import_file or the checksum raises; what was flushed before stays flushed.
RegisterRaises(w) ==
  /\ At(w, "registering") /\ worker[w].staged < worker[w].made
  /\ worker' = [worker EXCEPT ![w].pc = "failing", ![w].code = "internal"]
  /\ Calm
  /\ UNCHANGED <<row, outputs, runs, queue, Others>>

\* A failed flush leaves the session unusable, since nobody rolls it back: the
\* handler's own commit and the finally block raise as well, so the task ends
\* with the row untouched.
FlushFails(w) ==
  /\ At(w, "registering") /\ worker[w].staged < worker[w].made
  /\ Upset("db_flush")
  /\ worker' = [worker EXCEPT ![w] = Idle]
  /\ UNCHANGED <<row, outputs, runs, queue, Others>>

AllRegisteredMutant(w) == TRUE
AllRegistered(w) == worker[w].staged = worker[w].made

\* mark_completed; status, progress and every OUTPUT link in one commit.
Complete(w) ==
  /\ At(w, "registering") /\ AllRegistered(w)
  /\ LET j == worker[w].job
         copy == MarkCompleted(worker[w].view) IN
     /\ row' = [row EXCEPT ![j] = Written(@, worker[w].view, copy)]
     /\ outputs' = [outputs EXCEPT ![j] = @ \cup Flushed(w)]
     /\ worker' = [worker EXCEPT ![w].pc = "finally", ![w].view = copy]
  /\ Calm
  /\ UNCHANGED <<runs, queue, Others>>

\* A commit inside the try (of report_progress or of mark_completed) or the
\* handler's own fails: as after a failed flush, whatever the handler and the
\* finally block still ask of the session raises too.
CommitFails(w) ==
  /\ \/ At(w, "running")
     \/ At(w, "registering") /\ AllRegistered(w)
     \/ At(w, "failing")
  /\ Upset("db_commit")
  /\ worker' = [worker EXCEPT ![w] = Idle]
  /\ UNCHANGED <<row, outputs, runs, queue, Others>>

\* mark_failed and its commit, which also commits what was flushed.
Fail(w) ==
  /\ At(w, "failing")
  /\ LET j == worker[w].job
         copy == MarkFailed(worker[w].view, worker[w].code) IN
     /\ row' = [row EXCEPT ![j] = Written(@, worker[w].view, copy)]
     /\ outputs' = [outputs EXCEPT ![j] = @ \cup Flushed(w)]
     /\ worker' = [worker EXCEPT ![w].pc = "finally", ![w].view = copy]
  /\ Calm
  /\ UNCHANGED <<runs, queue, Others>>

\* finally: scrub the secrets from the row.
Redact(w) ==
  /\ At(w, "finally")
  /\ LET j == worker[w].job
         copy == Redacted(worker[w].view) IN
     /\ row' = [row EXCEPT ![j] = Written(@, worker[w].view, copy)]
     /\ worker' = [worker EXCEPT ![w].pc = "published", ![w].view = copy]
  /\ Calm
  /\ UNCHANGED <<outputs, runs, queue, Others>>

\* The scrubbing commit fails: the task ends in an exception, unpublished.
RedactFails(w) ==
  /\ At(w, "finally") /\ worker[w].job \in SecretJobs
  /\ Upset("db_commit")
  /\ worker' = [worker EXCEPT ![w] = Idle]
  /\ UNCHANGED <<row, outputs, runs, queue, Others>>

\* The terminal event is published and the message acknowledged.
Ack(w) ==
  /\ At(w, "published")
  /\ worker' = [worker EXCEPT ![w] = Idle]
  /\ Calm
  /\ UNCHANGED <<row, outputs, runs, queue, Others>>

-----------------------------------------------------------------------------
(* What the broker and the operating system do to workers.                  *)

RestoredMutant(w) == 0
Restored(w) == IF worker[w].unacked THEN 1 ELSE 0

NodeCrash(w) ==
  /\ ~At(w, "idle")
  /\ Upset("node_crash")
  /\ queue' = [queue EXCEPT ![worker[w].job] = @ + Restored(w)]
  /\ worker' = [worker EXCEPT ![w] = Idle]
  /\ UNCHANGED <<row, outputs, runs, Others>>

ChildKilled(w) ==
  /\ ~At(w, "idle")
  /\ Upset("child_killed")
  /\ worker' = [worker EXCEPT ![w] = Idle]
  /\ UNCHANGED <<row, outputs, runs, queue, Others>>

Redeliver(w) ==
  /\ worker[w].unacked
  /\ Upset("redeliver")
  /\ queue' = [queue EXCEPT ![worker[w].job] = @ + 1]
  /\ worker' = [worker EXCEPT ![w].unacked = FALSE]
  /\ UNCHANGED <<row, outputs, runs, Others>>

-----------------------------------------------------------------------------
(* Admin panel: load, check, commit, with an await in between.              *)

AdminRead(j) ==
  /\ admin.pc = "idle" /\ row[j].status # "none"
  /\ \/ /\ row[j].status \notin Terminal
        /\ Upset("admin_cancel")
        /\ admin' = [pc |-> "cancel", job |-> j, view |-> row[j]]
     \/ /\ Upset("admin_retry")
        /\ admin' = [pc |-> "retry", job |-> j, view |-> row[j]]
  /\ UNCHANGED <<row, outputs, runs, queue, api, worker, cleaner, inputs,
                 elapsed>>

AdminCommit ==
  /\ admin.pc # "idle"
  /\ row' = [row EXCEPT ![admin.job] =
       Written(@, admin.view, IF admin.pc = "cancel"
                              THEN Cancelled(admin.view)
                              ELSE Requeued(admin.view))]
  /\ admin' = AdminIdle
  /\ Calm
  /\ UNCHANGED <<outputs, runs, queue, api, worker, cleaner, inputs, elapsed>>

-----------------------------------------------------------------------------
(* Cleanup task: selects, then commits everything at the end.               *)

ExpirableMutant == {"completed", "failed"}
Expirable == {"completed", "failed", "cancelled"}

CleanerSelect ==
  /\ cleaner = {}
  /\ cleaner' = {j \in Jobs : row[j].status \in Expirable /\ elapsed[j]}
  /\ cleaner' # {}
  /\ Calm
  /\ UNCHANGED <<row, outputs, runs, queue, api, worker, admin, inputs, elapsed>>

CleanerCommit ==
  /\ cleaner # {}
  /\ row' = [j \in Jobs |-> IF j \in cleaner
                            THEN [row[j] EXCEPT !.status = "expired"]
                            ELSE row[j]]
  /\ cleaner' = {}
  /\ Calm
  /\ UNCHANGED <<outputs, runs, queue, api, worker, admin, inputs, elapsed>>

-----------------------------------------------------------------------------
(* The world: retention passes, input files are deleted or expire.          *)

Elapse(j) ==
  /\ row[j].status # "none" /\ ~elapsed[j]
  /\ elapsed' = [elapsed EXCEPT ![j] = TRUE]
  /\ Calm
  /\ UNCHANGED <<row, outputs, runs, queue, api, worker, admin, cleaner, inputs>>

InputsRemoved(j) ==
  /\ row[j].status # "none" /\ inputs[j]
  /\ inputs' = [inputs EXCEPT ![j] = FALSE]
  /\ Calm
  /\ UNCHANGED <<row, outputs, runs, queue, api, worker, admin, cleaner, elapsed>>

-----------------------------------------------------------------------------

ApiStep(j) == Dispatch(j) \/ Refresh(j) \/ RejectDispatch(j)

Run(w) ==
  \/ Load(w) \/ Claim(w) \/ Resolve(w)
  \/ \E p \in 1..Ceiling : ReportProgress(w, p)
  \/ \E n \in 1..MaxOutputs : Produce(w, n)
  \/ ProcessorRaises(w) \/ Register(w) \/ RegisterRaises(w)
  \/ Complete(w) \/ Fail(w) \/ Redact(w) \/ Ack(w)

WorkerStep(w) == (\E j \in Jobs : Receive(w, j)) \/ Run(w)

WorkerUpset(w) ==
  \/ ClaimFails(w) \/ FlushFails(w) \/ CommitFails(w) \/ RedactFails(w)
  \/ NodeCrash(w) \/ ChildKilled(w) \/ Redeliver(w)

CleanerStep == CleanerSelect \/ CleanerCommit

Next ==
  \/ \E j \in Jobs : \/ Create(j) \/ ApiStep(j) \/ DispatchRaises(j)
                     \/ ApiCrash(j) \/ AdminRead(j)
                     \/ Elapse(j) \/ InputsRemoved(j)
  \/ \E w \in Workers : WorkerStep(w) \/ WorkerUpset(w)
  \/ AdminCommit
  \/ CleanerStep

Spec == Init /\ [][Next]_vars

\* The event loop, the worker pool and beat keep scheduling their own steps,
\* every tool runs under a command timeout, and the clock advances.
Fairness ==
  /\ \A j \in Jobs : WF_vars(ApiStep(j)) /\ WF_vars(Elapse(j))
  /\ \A w \in Workers : WF_vars(WorkerStep(w))
  /\ WF_vars(AdminCommit)
  /\ WF_vars(CleanerStep)

FairSpec == Spec /\ Fairness

-----------------------------------------------------------------------------
(* Properties.                                                              *)

\* Someone will still act on the job: create_job has not returned, a message
\* waits, or a worker is on its way to the commit of an outcome.
Backed(j) ==
  \/ api[j].pc \notin {"idle", "done"}
  \/ queue[j] > 0
  \/ \E w \in Workers : /\ worker[w].job = j
                        /\ worker[w].pc \in {"received", "loaded"} \cup RunPCs

\* A message never overtakes the row it names: create_job commits before it
\* dispatches, so no worker takes the job_missing exit.
MessageHasRow ==
  \A j \in Jobs :
    (queue[j] > 0 \/ \E w \in Workers : worker[w].job = j)
      => row[j].status # "none"

\* A job shown as completed has every file of one of its runs linked, whatever
\* fails: the OUTPUT links and the status share a commit.
CompletedIsWhole ==
  \A j \in Jobs : row[j].status = "completed" =>
    \E o \in outputs[j] : \A p \in 1..o.of :
      [run |-> o.run, position |-> p, of |-> o.of] \in outputs[j]

\* The results of a completed job come from a single run: a run that died
\* before its commit leaves no link, and a finished job is not run again.
CompletedFromOneRun ==
  \A j \in Jobs : row[j].status = "completed" =>
    \A o1, o2 \in outputs[j] : o1.run = o2.run

\* No job that is queued or processing is forgotten: late acknowledgement
\* brings the message of a dead worker node back.
NoStrandedJob ==
  \A j \in Jobs : row[j].status \in {"queued", "processing"} => Backed(j)

\* Every job reaches its retention end: it is eventually expired and stays so,
\* because workers finish and the cleanup keeps running.
RetentionWins ==
  \A j \in Jobs : <>[](row[j].status \in {"none", "expired"})

-----------------------------------------------------------------------------
(* What a client may rely on, as an abstract specification.                 *)

Contract == INSTANCE JobContract
  WITH status  <- [j \in Jobs |-> row[j].status],
       results <- [j \in Jobs |-> IF row[j].status = "completed"
                                  THEN outputs[j] ELSE {}]

\* Left alone by admins and by duplicate deliveries, a job goes through the
\* statuses of JobContract in order and its results appear once and whole.
ImplementsContract == Contract!Spec

-----------------------------------------------------------------------------
(* A statement of the repository the code does not keep (see README).        *)

\* "The worker needs them during processing, but they must not live on in the
\* database afterwards" (tasks/base.py): with no step of the job left, no
\* password is in its row.
SecretsLeave ==
  \A j \in SecretJobs :
    row[j].status \in Terminal /\ ~Backed(j)
      /\ (\A w \in Workers : worker[w].job # j)
    => row[j].options # "secret"

\* endpoints/admin/storage.py: a retried job is "Requeued".
RequeuedIsQueued ==
  \A j \in Jobs : row[j].status = "queued" => Backed(j)

=============================================================================
