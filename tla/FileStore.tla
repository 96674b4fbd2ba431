----------------------------- MODULE FileStore -----------------------------
(***************************************************************************)
(* Stored files: a row in the table stored_files and bytes on the disk,    *)
(* changed in separate steps by                                             *)
(*                                                                         *)
(*   uploads    services/upload.py, storage.write_stream                    *)
(*   runs       tasks/base.py _register_outputs, storage.import_file        *)
(*   downloads  services/download.py                                        *)
(*   deletions  endpoints/files.py (user), services/admin.py (admin)        *)
(*   cleanup    tasks/cleanup.py                                            *)
(*                                                                         *)
(* A request (an upload, or the run of one job) stores a batch of files and *)
(* makes their rows visible in one commit.                                  *)
(***************************************************************************)
EXTENDS Naturals, FiniteSets

CONSTANTS Uploads,     \* upload requests
          Runs,        \* runs of distinct jobs that reach _register_outputs
          MaxBatch,    \* bound: files of one request
          MaxRequests, \* bound: requests of one behaviour
          Previewed,   \* requests whose files clients ask thumbnails of
          Retention,   \* FILE_RETENTION_HOURS, in ticks of the clock
          MaxTime,     \* bound: last tick
          Upsets,      \* which failures and interventions this instance has
          MaxUpsets    \* bound: how many of them happen in one behaviour

AllUpsets == {"api_crash",      \* the API process dies or cancels a request
              "worker_crash",   \* the worker that registers outputs dies
              "cleaner_crash",  \* the cleanup task dies, or its commit fails
              "db_flush", "db_commit",
              "commit_unknown", \* commit raises after the server committed
              "unlink_fails",   \* unlink raises OSError
              "admin_delete", "admin_purge"}

ASSUME ConstantsAssumption ==
  /\ Uploads \cap Runs = {}
  /\ MaxBatch \in Nat \ {0}
  /\ MaxRequests \in Nat
  /\ Retention \in Nat
  /\ MaxTime \in Nat
  /\ Upsets \subseteq AllUpsets
  /\ MaxUpsets \in Nat

Requests == Uploads \cup Runs
File == Requests \X (1..MaxBatch)

VARIABLES rec,      \* rec[f]: status of the committed row of f
          disk,     \* disk[f]: the bytes of f
          thumbs,   \* files with a cached thumbnail
          req,      \* req[r]: where request r stands
          due,      \* due[r]: expires_at of the rows of r's batch
          job,      \* job[r]: status and expires_at of the job of run r
          cleaner,  \* the cleanup task
          deleter,  \* the user's DELETE request in progress
          purge,    \* files an admin purge has selected
          reader,   \* the download in progress
          asked,    \* files someone asked to delete or purge (history)
          now,
          upsets

store == <<rec, disk, thumbs>>
batches == <<req, due, job>>
others == <<cleaner, deleter, purge, reader>>
vars == <<rec, disk, thumbs, req, due, job, cleaner, deleter, purge, reader,
          asked, now, upsets>>

-----------------------------------------------------------------------------

FileStatuses == {"none", "active", "expired", "deleted"}
ReqStates == [pc: {"idle", "open", "writing", "written", "imported",
                   "failing", "failed", "done", "dead"},
              size: 0..MaxBatch, kept: 0..MaxBatch]
CleanerIdle == [pc |-> "idle", files |-> {}, left |-> {}]
DeleterStates == [pc: {"idle", "loaded", "unlinked"}, files: SUBSET File]
DeleterIdle == [pc |-> "idle", files |-> {}]
ReaderIdle == [pc |-> "idle", files |-> {}, got |-> {}]

TypeOK ==
  /\ rec \in [File -> FileStatuses]
  /\ disk \in [File -> {"absent", "partial", "whole"}]
  /\ thumbs \in SUBSET File
  /\ req \in [Requests -> ReqStates]
  /\ due \in [Requests -> Nat]
  /\ job \in [Runs -> [status: {"none", "processing", "completed", "failed",
                                "expired"}, expires: Nat]]
  /\ cleaner \in [pc: {"idle", "unlinking"}, files: SUBSET File,
                  left: SUBSET File]
  /\ deleter \in DeleterStates
  /\ purge \in SUBSET File
  /\ reader \in [pc: {"idle", "checked", "served", "error"},
                 files: SUBSET File, got: SUBSET {"partial", "whole"}]
  /\ asked \in SUBSET File
  /\ now \in 0..MaxTime
  /\ upsets \in 0..MaxUpsets

Init ==
  /\ rec = [f \in File |-> "none"]
  /\ disk = [f \in File |-> "absent"]
  /\ thumbs = {}
  /\ req = [r \in Requests |-> [pc |-> "idle", size |-> 0, kept |-> 0]]
  /\ due = [r \in Requests |-> 0]
  /\ job = [r \in Runs |-> [status |-> "none", expires |-> 0]]
  /\ cleaner = CleanerIdle
  /\ deleter = DeleterIdle
  /\ purge = {}
  /\ reader = ReaderIdle
  /\ asked = {}
  /\ now = 0
  /\ upsets = 0

Upset(kind) == /\ kind \in Upsets
               /\ upsets < MaxUpsets
               /\ upsets' = upsets + 1
Calm == UNCHANGED upsets

At(r, pc) == req[r].pc = pc
Batch(r) == {r} \X (1..req[r].size)
KeptMutant(r) == {p \in Batch(r) : p[2] <= req[r].kept + 1}
Kept(r) == {r} \X (1..req[r].kept)          \* stored and flushed so far
Current(r) == <<r, req[r].kept + 1>>

\* Bounds of the instance: another request may begin.
Begun == {u \in Uploads : ~At(u, "idle")}
         \cup {r \in Runs : job[r].status # "none"}
Admits == /\ now + Retention < MaxTime
          /\ Cardinality(Begun) < MaxRequests

Set(function, S, value) ==
  [x \in DOMAIN function |-> IF x \in S THEN value ELSE function[x]]

\* storage.delete of each file of S; an OSError is logged and swallowed.
Unlinked(S) ==
  \/ Calm /\ disk' = Set(disk, S, "absent")
  \/ /\ Upset("unlink_fails")
     /\ \E f \in S : disk' = Set(disk, S \ {f}, "absent")

\* repositories/file.py list_expired: the rows the cleanup will look at.
Overdue(f) == due[f[1]] < now
ListedMutant(f) == rec[f] = "active" /\ due[f[1]] <= now
Listed(f) == rec[f] = "active" /\ Overdue(f)

-----------------------------------------------------------------------------
(* Uploads: UploadService.upload_files.                                     *)

\* expires_at is computed before the first file is read.
BeginUpload(u, n) ==
  /\ At(u, "idle") /\ Admits
  /\ req' = [req EXCEPT ![u] = [pc |-> "open", size |-> n, kept |-> 0]]
  /\ due' = [due EXCEPT ![u] = now + Retention]
  /\ Calm
  /\ UNCHANGED <<store, job, others, asked, now>>

\* The file passes validation and write_stream creates it.
StartWrite(u) ==
  /\ At(u, "open") /\ req[u].kept < req[u].size
  /\ disk' = [disk EXCEPT ![Current(u)] = "partial"]
  /\ req' = [req EXCEPT ![u].pc = "writing"]
  /\ Calm
  /\ UNCHANGED <<rec, thumbs, due, job, others, asked, now>>

EndWrite(u) ==
  /\ At(u, "writing")
  /\ disk' = [disk EXCEPT ![Current(u)] = "whole"]
  /\ req' = [req EXCEPT ![u].pc = "written"]
  /\ Calm
  /\ UNCHANGED <<rec, thumbs, due, job, others, asked, now>>

FlushableMutant(u) == req[u].pc \in {"writing", "written"}
Flushable(u) == req[u].pc = "written"

FlushUpload(u) ==
  /\ u \in Uploads /\ Flushable(u)
  /\ req' = [req EXCEPT ![u].pc = "open", ![u].kept = @ + 1]
  /\ Calm
  /\ UNCHANGED <<store, due, job, others, asked, now>>

\* A refused type, a broken stream (write_stream unlinks the partial file) or
\* a failed flush: rolled back, and the files kept so far are unlinked. The
\* file whose flush failed is not among them.
UploadRaises(u) ==
  /\ \/ At(u, "open") /\ req[u].kept < req[u].size /\ Unlinked(Kept(u))
     \/ At(u, "writing") /\ Unlinked(Kept(u) \cup {Current(u)})
     \/ /\ u \in Uploads /\ At(u, "written") /\ Upset("db_flush")
        /\ disk' = Set(disk, Kept(u), "absent")
  /\ req' = [req EXCEPT ![u].pc = "failed"]
  /\ UNCHANGED <<rec, thumbs, due, job, others, asked, now>>

CommitUpload(u) ==
  /\ u \in Uploads /\ At(u, "open") /\ req[u].kept = req[u].size
  /\ rec' = Set(rec, Batch(u), "active")
  /\ req' = [req EXCEPT ![u].pc = "done"]
  /\ Calm
  /\ UNCHANGED <<disk, thumbs, due, job, others, asked, now>>

CommitUploadFails(u) ==
  /\ u \in Uploads /\ At(u, "open") /\ req[u].kept = req[u].size
  /\ \/ Upset("db_commit") /\ UNCHANGED rec
     \/ Upset("commit_unknown") /\ rec' = Set(rec, Batch(u), "active")
  /\ disk' = Set(disk, Batch(u), "absent")
  /\ req' = [req EXCEPT ![u].pc = "failed"]
  /\ UNCHANGED <<thumbs, due, job, others, asked, now>>

UploadDies(u) ==
  /\ u \in Uploads /\ req[u].pc \in {"open", "writing", "written"}
  /\ Upset("api_crash")
  /\ req' = [req EXCEPT ![u].pc = "dead"]
  /\ UNCHANGED <<store, due, job, others, asked, now>>

-----------------------------------------------------------------------------
(* Runs: _register_outputs inside run_tool_job (see JobLifecycle).          *)

CreateJob(r) ==
  /\ job[r].status = "none" /\ Admits
  /\ job' = [job EXCEPT ![r] = [status |-> "processing",
                                expires |-> now + Retention]]
  /\ Calm
  /\ UNCHANGED <<store, req, due, others, asked, now>>

OutputDueMutant(r) == now
OutputDue(r) == now + Retention

BeginRun(r, n) ==
  /\ At(r, "idle") /\ job[r].status = "processing"
  /\ OutputDue(r) < MaxTime
  /\ req' = [req EXCEPT ![r] = [pc |-> "open", size |-> n, kept |-> 0]]
  /\ due' = [due EXCEPT ![r] = OutputDue(r)]
  /\ Calm
  /\ UNCHANGED <<store, job, others, asked, now>>

\* import_file moves the file from the workspace, which is a rename ...
Import(r) ==
  /\ At(r, "open") /\ req[r].kept < req[r].size
  /\ disk' = [disk EXCEPT ![Current(r)] = "whole"]
  /\ req' = [req EXCEPT ![r].pc = "imported"]
  /\ Calm
  /\ UNCHANGED <<rec, thumbs, due, job, others, asked, now>>

\* ... or, across file systems, a copy that may break off half-way.
ImportRaises(r) ==
  /\ At(r, "open") /\ req[r].kept < req[r].size
  /\ \E left \in {"absent", "partial"} :
       disk' = [disk EXCEPT ![Current(r)] = left]
  /\ req' = [req EXCEPT ![r].pc = "failing"]
  /\ Calm
  /\ UNCHANGED <<rec, thumbs, due, job, others, asked, now>>

ChecksumRaises(r) ==
  /\ At(r, "imported")
  /\ req' = [req EXCEPT ![r].pc = "failing"]
  /\ Calm
  /\ UNCHANGED <<store, due, job, others, asked, now>>

FlushRun(r) ==
  /\ At(r, "imported")
  /\ req' = [req EXCEPT ![r].pc = "open", ![r].kept = @ + 1]
  /\ Calm
  /\ UNCHANGED <<store, due, job, others, asked, now>>

\* The death of the worker, or a failed flush or commit: nobody rolls the
\* session back, so the handler of the failure commits nothing either (see
\* JobLifecycle).
RunDies(r) ==
  /\ \/ At(r, "imported") /\ Upset("db_flush")
     \/ /\ \/ At(r, "failing")
           \/ At(r, "open") /\ req[r].kept = req[r].size
        /\ Upset("db_commit")
     \/ req[r].pc \in {"open", "imported", "failing"} /\ Upset("worker_crash")
  /\ req' = [req EXCEPT ![r].pc = "dead"]
  /\ UNCHANGED <<store, due, job, others, asked, now>>

\* Rows, links and the status COMPLETED in one commit.
CompleteRun(r) ==
  /\ At(r, "open") /\ req[r].kept = req[r].size
  /\ rec' = Set(rec, Batch(r), "active")
  /\ job' = [job EXCEPT ![r].status = "completed"]
  /\ req' = [req EXCEPT ![r].pc = "done"]
  /\ Calm
  /\ UNCHANGED <<disk, thumbs, due, others, asked, now>>

\* The commit of FAILED also commits the rows flushed before the failure.
FailRun(r) ==
  /\ At(r, "failing")
  /\ rec' = Set(rec, Kept(r), "active")
  /\ job' = [job EXCEPT ![r].status = "failed"]
  /\ req' = [req EXCEPT ![r].pc = "done"]
  /\ Calm
  /\ UNCHANGED <<disk, thumbs, due, others, asked, now>>

-----------------------------------------------------------------------------
(* Downloads and thumbnails.                                                *)

\* get_downloadable: active, not past its expiry, a file on disk.
Offered(f) == rec[f] = "active" /\ ~Overdue(f) /\ disk[f] # "absent"

\* The OUTPUT links of the job of run r.
Outputs(r) == IF At(r, "done") THEN Kept(r) ELSE {}

\* build_job_response: one output goes through get_downloadable, several are
\* zipped as long as each is a file on disk.
JobOffered(r) ==
  /\ job[r].status = "completed"
  /\ IF req[r].size = 1 THEN Offered(<<r, 1>>)
     ELSE \A f \in Outputs(r) : disk[f] # "absent"

ReadCheck ==
  /\ reader.pc = "idle"
  /\ \/ \E f \in File : Offered(f) /\ reader' = [reader EXCEPT
                                       !.pc = "checked", !.files = {f}]
     \/ \E r \in Runs : JobOffered(r) /\ reader' = [reader EXCEPT
                                       !.pc = "checked", !.files = Outputs(r)]
  /\ Calm
  /\ UNCHANGED <<store, batches, cleaner, deleter, purge, asked, now>>

\* The paths are opened afterwards, when the response is sent or zipped.
ReadOpen ==
  /\ reader.pc = "checked"
  /\ LET found == {disk[f] : f \in reader.files} IN
     reader' = IF "absent" \in found THEN [reader EXCEPT !.pc = "error"]
               ELSE [reader EXCEPT !.pc = "served", !.got = found]
  /\ Calm
  /\ UNCHANGED <<store, batches, cleaner, deleter, purge, asked, now>>

ReadEnd ==
  /\ reader.pc \in {"served", "error"}
  /\ reader' = ReaderIdle
  /\ Calm
  /\ UNCHANGED <<store, batches, cleaner, deleter, purge, asked, now>>

\* generate_thumbnail, on first request; cached under the file's id.
Thumbnail(f) ==
  /\ f[1] \in Previewed
  /\ rec[f] = "active" /\ disk[f] = "whole" /\ f \notin thumbs
  /\ thumbs' = thumbs \cup {f}
  /\ Calm
  /\ UNCHANGED <<rec, disk, batches, others, asked, now>>

-----------------------------------------------------------------------------
(* DELETE /files/{id}: load, unlink, commit.                                *)

DeleteLoad(f) ==
  /\ deleter.pc = "idle" /\ rec[f] = "active"
  /\ deleter' = [pc |-> "loaded", files |-> {f}]
  /\ asked' = asked \cup {f}
  /\ Calm
  /\ UNCHANGED <<store, batches, cleaner, purge, reader, now>>

DeleteUnlink ==
  /\ deleter.pc = "loaded"
  /\ Unlinked(deleter.files)
  /\ deleter' = [deleter EXCEPT !.pc = "unlinked"]
  /\ UNCHANGED <<rec, thumbs, batches, cleaner, purge, reader, asked, now>>

DeleteCommit ==
  /\ deleter.pc = "unlinked"
  /\ rec' = Set(rec, deleter.files, "deleted")
  /\ deleter' = DeleterIdle
  /\ Calm
  /\ UNCHANGED <<disk, thumbs, batches, cleaner, purge, reader, asked, now>>

DeleteDies ==
  /\ deleter.pc # "idle" /\ Upset("api_crash")
  /\ deleter' = DeleterIdle
  /\ UNCHANGED <<store, batches, cleaner, purge, reader, asked, now>>

-----------------------------------------------------------------------------
(* Admin: both operations change rows and leave the bytes.                  *)

AdminDelete(f) ==
  /\ rec[f] # "none" /\ Upset("admin_delete")
  /\ rec' = [rec EXCEPT ![f] = "deleted"]
  /\ asked' = asked \cup {f}
  /\ UNCHANGED <<disk, thumbs, batches, others, now>>

AdminPurgeSelect ==
  /\ purge = {} /\ Upset("admin_purge")
  /\ purge' = {f \in File : Listed(f)}
  /\ UNCHANGED <<store, batches, cleaner, deleter, reader, asked, now>>

AdminPurgeCommit ==
  /\ purge # {}
  /\ rec' = Set(rec, purge, "expired")
  /\ purge' = {}
  /\ Calm
  /\ UNCHANGED <<disk, thumbs, batches, cleaner, deleter, reader, asked, now>>

-----------------------------------------------------------------------------
(* cleanup_expired: unlinks file by file, commits every row at the end.     *)

JobsToExpire == {r \in Runs : /\ job[r].status \in {"completed", "failed"}
                              /\ job[r].expires < now}

CleanerSelect ==
  /\ cleaner.pc = "idle"
  /\ LET files == {f \in File : Listed(f)} IN
     /\ files # {} \/ JobsToExpire # {}
     /\ cleaner' = [pc |-> "unlinking", files |-> files, left |-> files]
  /\ Calm
  /\ UNCHANGED <<store, batches, deleter, purge, reader, asked, now>>

CleanerUnlink(f) ==
  /\ f \in cleaner.left
  /\ Unlinked({f})
  /\ cleaner' = [cleaner EXCEPT !.left = @ \ {f}]
  /\ UNCHANGED <<rec, thumbs, batches, deleter, purge, reader, asked, now>>

SweptMutant == TRUE
Swept == cleaner.left = {}

CleanerCommit ==
  /\ cleaner.pc = "unlinking" /\ Swept
  /\ rec' = Set(rec, cleaner.files, "expired")
  /\ job' = [r \in Runs |-> IF r \in JobsToExpire
                            THEN [job[r] EXCEPT !.status = "expired"]
                            ELSE job[r]]
  /\ cleaner' = CleanerIdle
  /\ Calm
  /\ UNCHANGED <<disk, thumbs, req, due, deleter, purge, reader, asked, now>>

CleanerDies ==
  /\ cleaner.pc = "unlinking" /\ Upset("cleaner_crash")
  /\ cleaner' = CleanerIdle
  /\ UNCHANGED <<store, batches, deleter, purge, reader, asked, now>>

Tick ==
  /\ now < MaxTime
  /\ now' = now + 1
  /\ Calm
  /\ UNCHANGED <<store, batches, others, asked>>

-----------------------------------------------------------------------------

UploadStep(u) ==
  \/ StartWrite(u) \/ EndWrite(u) \/ FlushUpload(u)
  \/ UploadRaises(u) \/ CommitUpload(u)

RunStep(r) ==
  \/ Import(r) \/ ImportRaises(r) \/ ChecksumRaises(r) \/ FlushRun(r)
  \/ CompleteRun(r) \/ FailRun(r)

CleanerStep == CleanerSelect \/ (\E f \in File : CleanerUnlink(f))
               \/ CleanerCommit
DeleterStep == DeleteUnlink \/ DeleteCommit

Next ==
  \/ \E u \in Uploads : \/ \E n \in 1..MaxBatch : BeginUpload(u, n)
                        \/ UploadStep(u) \/ CommitUploadFails(u)
                        \/ UploadDies(u)
  \/ \E r \in Runs : \/ CreateJob(r)
                     \/ \E n \in 1..MaxBatch : BeginRun(r, n)
                     \/ RunStep(r) \/ RunDies(r)
  \/ ReadCheck \/ ReadOpen \/ ReadEnd
  \/ \E f \in File : Thumbnail(f) \/ DeleteLoad(f) \/ AdminDelete(f)
  \/ DeleterStep \/ DeleteDies
  \/ AdminPurgeSelect \/ AdminPurgeCommit
  \/ CleanerStep \/ CleanerDies
  \/ Tick

Spec == Init /\ [][Next]_vars

\* Beat keeps starting the cleanup and requests keep running; time passes.
Fairness ==
  /\ \A u \in Uploads : WF_vars(UploadStep(u))
  /\ \A r \in Runs : WF_vars(RunStep(r))
  /\ WF_vars(CleanerStep) /\ WF_vars(DeleterStep)
  /\ WF_vars(AdminPurgeCommit)
  /\ WF_vars(Tick)

FairSpec == Spec /\ Fairness

-----------------------------------------------------------------------------
(* Properties.                                                              *)

\* What a download serves is complete: neither a file that is still being
\* written nor the rest of one that broke off is ever sent.
ServedIsWhole == reader.pc = "served" => reader.got = {"whole"}

\* A file whose row is active and not yet due keeps its bytes unless someone
\* asked for its deletion: neither the rollback of an upload nor a cleanup
\* that works from its own selection takes them away.
KeptUntilDue ==
  \A f \in File : rec[f] = "active" /\ ~Overdue(f) /\ f \notin asked
    => disk[f] = "whole"

\* A completed job can be downloaded until it is due, since its outputs were
\* given their own expiry later than the job got its own.
CompletedIsServed ==
  \A r \in Runs :
    /\ job[r].status = "completed"
    /\ now <= job[r].expires
    /\ Outputs(r) \cap asked = {}
    => JobOffered(r)

\* Every file that got a row is reclaimed in the end: the bytes go, although
\* the cleanup may die between unlinking them and committing, and the row
\* stops being active.
Reclaimed ==
  \A f \in File :
    rec[f] # "none" ~> [](rec[f] # "active" /\ disk[f] = "absent")

-----------------------------------------------------------------------------
(* What a client may rely on, as an abstract specification.                 *)

Contract == INSTANCE FileContract
  WITH shown <- [f \in File |->
                   IF rec[f] = "none" THEN "unborn"
                   ELSE IF Offered(f) THEN "offered" ELSE "withdrawn"]

\* A file is offered once, together with its batch, and once it is withdrawn
\* (deleted, expired, or its bytes are gone) no step offers it again.
ImplementsContract == Contract!Spec

-----------------------------------------------------------------------------
(* A statement of the repository the code does not keep (see README).        *)

\* services/upload.py: a failed batch rolls back "both the transaction and
\* any bytes already on disk".
FailedUploadLeavesNothing ==
  \A u \in Uploads : At(u, "failed") => \A f \in Batch(u) : disk[f] = "absent"

=============================================================================
