# A formal model of tools-backend

tools-backend is a FastAPI service with Celery workers that runs PDF tools
(merge, convert, protect, OCR, ...) on uploaded files. This directory holds
TLA+ specifications of its core logic, TLC configurations that check them on
small instances, and TLAPS proofs of theorems about them for every instance.
Every definition is translated from the code under `src/`; `PROJECT.json` maps
each one to the lines it stands for.

    tlc -config JobSafety.cfg MCJobLifecycle      # model-check one run
    tlapm JobLifecycleProofs.tla                  # check the proofs

## The system

| Component | State | Operations | Talks to | Correct when | Modules |
|---|---|---|---|---|---|
| Jobs (`services/tool_base.py`, `tasks/base.py`, `tasks/tools/*`, `workers/celery_app.py`, `tasks/cleanup.py`, `services/admin.py`) | `processing_jobs` rows, `job_files` links, messages (`task_acks_late`), each session's copy of a row | create and dispatch, claim, report, register outputs, complete or fail, redact secrets, cancel, retry, expire | database, broker, storage, Redis | statuses only move forward, outputs appear whole with "completed", no job is stranded | JobLifecycle, JobContract |
| Files (`services/upload.py`, `storage.py`, `download.py`, `endpoints/files.py`, `tasks/cleanup.py`) | `stored_files` rows, bytes on disk, thumbnails | upload a batch, import outputs, download, delete, purge, expire | database, disk, workers | what is offered is whole, kept until due, reclaimed in the end | FileStore, FileContract |
| Office engines (`utils/office_pool.py`) | resident unoserver engines, slot locks, strikes | lease, start lazily, convert, fall back, restart, disable, shut down | threads, LibreOffice | one client per server, a crashed engine is not the document's fault | OfficePool |
| soffice profiles (`utils/office.py`) | profile directories, template, slot locks | lease, clone, retry pristine, seed the template, purge by age | processes, disk | one soffice per profile, no half-written template | SofficeProfiles |
| Parallel inputs, workspaces, commands (`tasks/base.py`, `services/temp_files.py`, `utils/command.py`) | futures, results by index, a directory per run | submit, gather, report, stop softly or hard, remove, purge | thread pool, Celery, external programs | outputs in order, the true error, no workspace under work removed or left | ParallelInputs |
| Job events (`services/job_events.py`, `endpoints/jobs.py`) | Redis pub/sub channel per job, WebSocket and SSE clients | publish, subscribe, snapshot, forward until terminal | workers, clients | a client learns the end, and only a real one | JobStream |
| Page tools and stamps (`utils/pdf_pages.py`, `poppler.py`, `pdf_overlay.py`) | the document | merge, split, rotate, delete, extract, reorder, stamp, render in chunks | tools | a stamp is read where it was put, each page is rendered once | PageTools |
| Watermark removal (`utils/pdf_security.py`) | two interpreters of content streams | scan, choose targets, rewrite | PyMuPDF, pypdf | targets go and nothing else, the job's answer is true | WatermarkRemoval |
| Document tools (`utils/pdf_document.py`, `ocr_language.py`, ...) | the document: text, locks, metadata, forms | redact, edit metadata, fill, protect, unlock, repair, OCR, compare | PyMuPDF, qpdf, OCR | a redaction removes what it names or nothing is handed out | DocumentTools |
| PDF to Word (`utils/pdf_convert.py`) | source, Word document, paragraph properties | decrypt, range, convert, fall back, mark right-to-left | pdf2docx | the requested pages, all of them, in order | WordConversion |
| Tools, admission, results, archives (`services/tools/*`, `services/tool_base.py`, `config/plans.py`, `services/download.py`) | a job's options and inputs, names | check options, inputs and plan; name; register; bundle | all tools | within the plan, no result lost | ToolCatalog |
| Accounts (`services/auth.py`, `core/security.py`, `services/admin.py`) | `users`, access and refresh tokens, audit log | register, login, refresh, suspend, change, delete | admin | an address has one account, every change a record | Accounts |
| Limits (`dependencies/rate_limit.py`, `services/feedback.py`, `captcha.py`) | Redis counters, feedback rows, challenges | count a request, submit feedback, verify a challenge | Redis, database | no more than the limit in a minute; beyond the day's only what overlaps | Limits |
| Settings and start-up (`services/admin.py`, `admin_bootstrap.py`) | a document per category, seeded rows | merge an update, upload an asset, seed | all processes | an update takes away only what it names, a start leaves everything there | Settings |
| Error log (`services/error_capture.py`) | a row per fingerprint | capture, resolve, delete, clear | handler of last resort | every error is counted once | ErrorLog |
| Content (`services/admin.py`) | announcements, FAQs, posts, pages, messages, subscriptions, tool switches | create, load and commit an edit, delete | admins | what is published has its date | Content |
| Migrations (`migrations/versions`) | tables, columns, indexes, enums | upgrade, downgrade | `app/models` | apply over any rows, undo each other, fit the models | Schema |

What is hard in it: the job row is written by five kinds of process (API,
workers, admin, cleanup, and a second worker after a redelivery), each from the
copy it loaded earlier, with no version column or row lock; the broker delivers
at least once; processes die between two commits; bytes on disk and rows in the
database change in separate steps; engines, profiles and directories are shared
by threads and processes with timeouts, restarts and purges by age; Redis may be
down and loses events; and nearly every service of the API reads, decides and
then inserts or writes back, with other requests in between. `PROJECT.json`
"hazards" lists each at its line, with the properties that watch it.

## Modules

An action of a module is one step between two points where another process or
thread can get in: a database commit, an `await`, a file operation, a lock, a
message. Everything a handler does between two such points is one action.
Failures and interventions ("upsets") are steps of their own, each of a kind
listed in the module's `AllUpsets`; the constant `Upsets` selects the kinds of
an instance and `MaxUpsets` bounds how many of them one behaviour has. A
definition named `...Mutant` is a faulty variant of the one that follows it; no
specification uses it, and `PROJECT.json` says which property catches it.

### JobLifecycle (with JobContract, MCJobLifecycle, JobLifecycleProofs)

`row[j]` is the row of `processing_jobs` with the columns the code branches on
or promises something about (status, progress, error, and whether the options
hold a password); `outputs[j]` its OUTPUT links; `queue[j]` the messages in the
broker. `api[j]` is `create_job` (commit, dispatch, the handler of a failed
dispatch), `worker[w]` is `run_tool_job` with the copy of the row its session
loaded, `admin` a cancel or retry between its check and its commit, `cleaner`
the selection of `cleanup_expired`.

Sessions keep copies of rows, and a commit writes the columns that differ from
the copy that was loaded: `Written(stored, loaded, copy)` is that rule
(`expire_on_commit=False`, no version column), and every commit goes through
it. Nobody calls `rollback()` in `run_tool_job`: after a flush or a commit that
failed the session refuses everything, so the handler's own commit and the
`finally` block raise too and the task ends where it stood, with the row as it
was (`FlushFails`, `CommitFails`). Messages are acknowledged after the run
(`task_acks_late`): a dead node's message returns (`node_crash`), a child
killed by the hard time limit is acknowledged (`child_killed`), a live worker's
message may be delivered again (`redeliver`).

| Run | Checks | Shows |
|---|---|---|
| JobSafety | `TypeOK`, `MessageHasRow`, `CompletedIsWhole` | every upset, two at a time: no message overtakes its row; a completed job has all the files of one of its runs |
| JobRecovery | `NoStrandedJob`, `CompletedFromOneRun`, `RetentionWins` | failed and late dispatches, dead nodes and cancellations, three at a time: no unfinished job is forgotten, the results of a completed one come from one run and, with fairness, every job ends expired for good |
| JobRefinement | `ImplementsContract` | JobLifecycle implements `JobContract`: statuses move forward, results appear once and whole with `completed` |
| FindRetry | `RequeuedIsQueued` (violated) | the admin's retry sets QUEUED and sends no message |
| FindSecrets | `SecretsLeave` (violated) | a node that dies after the outcome's commit leaves the passwords: the redelivered message returns early |

JobRecovery and JobRefinement name the upsets under which their properties
hold. The others are either listed below as differences between the code and
what it says (an admin's retry, a killed child, a failed commit, a cancel of a
running job) or
the plain consequence of at-least-once delivery: two live workers may run the
same job, and its results are then those of both.

*Bounds.* One job suffices for everything but the cleanup's batches, since no
step touches two jobs except the cleanup's commit; JobRefinement has two. Two
workers give the duplicate runs. Two outputs give a batch that is half
registered. A tool reports progress 0 or the ceiling (90 %), so three values of
progress (0, the ceiling, full) tell all its writers apart. Two or three upsets
per behaviour cover every pair or triple of failures.

*Fairness.* `create_job`'s steps (its event loop runs), each worker's steps
(workers poll the broker; every tool runs under a command timeout), the
admin's commit, the cleanup (Celery beat starts it every 15 minutes) and the
clock. Upsets have none. No strong fairness is needed.

### FileStore (with FileContract, FileStoreProofs)

`rec[f]` is the committed status of the row of file `f`, `disk[f]` its bytes
(absent, partial, whole), `thumbs` the cached thumbnails. A request stores a
batch of files and makes their rows visible in one commit: `req[r]` is an
upload (`upload_files`: stream to disk, validate, flush, next file, commit; on
an exception roll back and unlink) or the outputs of a run
(`_register_outputs`: import, flush, commit with the job; after a failed flush or
commit the job stays in processing, as in JobLifecycle). `due[r]` and `job[r]`
hold the two expiry clocks, `now` is counted in ticks of which `Retention` make
FILE_RETENTION_HOURS. `cleaner` is `cleanup_expired` between its query, its
unlinks and its commit; `deleter` the user's DELETE; `purge` the admin's purge;
`reader` a download between its checks and the response body.

| Run | Checks | Shows |
|---|---|---|
| FileSafety | `KeptUntilDue`, `CompletedIsServed` | an upload, or the outputs of a run, against deletions, purges and cleanups with three failures: an active file keeps its bytes until it is due, and a completed job can be downloaded until its own expiry |
| FileLiveness | `ServedIsWhole`, `Reclaimed`, `ImplementsContract` | an upload or a run with a commit of unknown outcome and a cleanup that dies half-way, under fairness: no download sends a partial file; files appear with their batch and, once withdrawn, are never offered again; every file that got a row is reclaimed |
| FindUpload | `FailedUploadLeavesNothing` (violated) | the bytes of the file whose flush fails stay on disk |

*Bounds.* Batches of one or two files (a batch that fails at its second file is
the interesting one), one request of either kind (`MaxRequests`; no step touches
two requests except the cleanup's), four ticks for a retention of one (before,
at and after each of the two expiries), three failures. Each run leaves out the
upsets for which its property is not claimed: `KeptUntilDue` a commit whose
outcome is unknown (the handler unlinks files whose rows exist), `Reclaimed` an
admin's purge and an unlink that fails (`cleanup_expired` ignores that, and
those bytes stay).

*Fairness.* Upload and run steps, the cleanup (beat), a deletion that has
begun, an admin's purge that has begun, the clock.

### OfficePool (with OfficePoolProofs)

The threads of one worker process. `conv[t]` is `libreoffice_convert` and
`UnoServerPool.convert` in thread `t` (or the prewarming thread); `proc` lists
the unoserver processes ever started, with the number of documents inside each;
`table` is `_servers`; `locked` and `poolLocked` are the slot locks and
`_pool_lock`; `pool`, `disabled` and `strikes` the module's globals. The strike
is read, written and compared in separate steps under the pool lock and the
success is read and written in separate steps without it, as
`_engine_strikes += ...` does. `shutdown` terminates the servers of the table in
one step and clears the table in another. A process has one pool object in its
life, so a thread that still holds a disabled pool works on the same table.

| Run | Checks | Shows |
|---|---|---|
| OfficeEngines | `DisabledForCause`, `OneClientPerServer`, `FixedSize`, `GoodDocumentConverts`, `EveryConversionEnds` | "auto" mode: no crash of the engine, not even a shutdown by another thread, is taken for the fault of a good document; two clients never share a server; a pool in service has no server outside its slots and is disabled only after enough crashes; with fairness, slot locks, pool lock and shutdown never block each other for good |

*Assumptions.* unoserver exits within the two seconds' grace after its
LibreOffice died (`Judge` waits for it): if it does not, the code blames the
document. soffice, which retries on a fresh profile, converts every good
document or times out. A document is good or bad from the start.

*Bounds.* Two threads and two slots (the check of a slot's lock and its
acquisition are separate, so both threads may wait for one slot), two launcher
candidates, a strike limit of two crashes instead of three, three conversions,
two failures, a spawn that fails among them. Left out are how ports are chosen
(`_free_port`), the environment the client is given (`os.environ` around a
conversion) and the resolution of the launcher: they have no state of the model.

*Fairness.* Each thread's own steps (the startup is bounded by 90 seconds, the
client by its timeout, the grace by two seconds) and the exit of an unoserver
whose LibreOffice died. The number of conversions is bounded, so lock handover
needs no strong fairness.

### Worker: ParallelInputs, SofficeProfiles, JobStream (composed by MCWorker, with WorkerProofs)

*ParallelInputs* is one run of `run_tool_job` over its inputs: `op[i]` the
operation on input `i`, `taken` what `as_completed` has handed out, `results` the
slots it fills,
`main` the run itself, `dir` its workspace. With one worker the inputs run in
turn (`process_each_input`); with more, the pool's shutdown waits for queued
operations too. `age` is the time of the soft and hard limits and of the
cleanup's purge. An operation ends as `run_command` lets it end, and `ErrorOf`
says which error that is for the job.

*SofficeProfiles* is `libreoffice_convert` on the soffice engine: `lease[t]`
where thread `t` is (purge, pick a slot without its lock, acquire, clone, run,
retry, seed, release), `profile[n]` the directory `<pid>-<slot>`, `template` and
`staging` the shared copies, each by the parts it holds, `started` and `dead`
the processes. `shutil.rmtree` and `copytree` go part by part where somebody
else can see it: the purge of another process's profile, the staging directory.
Directories age past a day while their process lives, so a purge may take parts
of a profile that is converted on (`hurt`) or copied: a copy then lacks them,
with an error or without one, as copytree had listed them or not.
`raided` remembers the living processes' profiles this happened to.

*JobStream* is one WebSocket or SSE stream: `row` what is committed, `outbox`
what the worker committed and has not published yet, `wire` what Redis holds
for the subscriber, `stream` the coroutine with the last thing it told and the
turns it has used.

| Run | Checks | Shows |
|---|---|---|
| Worker | `WorkspaceOutlivesWork`, `ErrorsHaveCause`, `WorkspacesGo` | the first failure is reported only after the threads left the workspace; outputs are complete and ordered by input; killed runs' workspaces are purged |
| | `TemplateIsWhole`, `ProfilesAreExclusive` | processes seeding together publish no half template unless a living process's profile is purged; two soffice never share a profile |
| | `EndsAreReal`, `LearnsTheEnd` | a stream reports no end that was not committed, and a client that stays learns of it though events are lost and Redis goes down |

*Composition.* The three meet only through values that are inputs of each other
(a run's operation ends somehow; a stream reads a row), so `MCWorker` lets a
behaviour be one of them while the others rest in an initial state.

*Bounds.* Three inputs on one or two threads: one running, one queued, one done
when something fails. Soft limit, hard limit and the age of a purge at 1, 2 and
3 ticks keep their order. Two threads of one process and of two, two slots,
three leases, two parts of a template, one upset. Three events, two reports and
two upsets of a stream.

*Fairness.* A run's steps, the clock, the cleanup, the hard limit once it is
reached (Celery kills), a stream's own steps. The worker is not assumed to
finish: `LearnsTheEnd` speaks of jobs that did.

### Documents: PageTools, WatermarkRemoval, DocumentTools, WordConversion, ToolCatalog (composed by MCDocuments)

*PageTools*: a document is the sequence of its pages, a page its origin, its
`/Rotate`, the angle of its content and its stamps; a user applies one tool
after another to the last output. Rendering is the chunk arithmetic of
`poppler.py`, against the result of a single `pdftoppm`.

*WatermarkRemoval*: content streams as sequences of operations, the scanning
interpreter (graphics state, traits of what is drawn), the choice of targets,
and the rewriting interpreter, with artifacts, layers, annotations and forms.
The interpreters are functions of a plan (what to remove) and a stream, and so is
the viewer the properties speak of, which shows what a stream draws, each drawing
in its state. When the interpreters found nothing of the user's text, PyMuPDF
redacts it: whatever text is at the place of a match goes with it. A text object
(BT to ET) is one operation, with the one alpha it may set before its text and
which goes on after it, so that dropping it drops that too; texts of mixed
transparency count as transparent, as the lower alpha does in the code.

*DocumentTools*: pages as rows of cells (a typed word, a scanned one, a cover);
redaction by terms and areas, metadata, form filling and flattening, protect,
unlock, repair, OCR with the detection of languages, compress, compare.

*WordConversion*: decrypting and clamping the page range, the layout converter
with its count of processes, the text fallback, marking of right-to-left
paragraphs with the order of their properties.

*ToolCatalog*: the 27 tools with the options they take and which combinations
they refuse, the plan's limits, what each makes of its inputs and under which
names, the registration, and the archive of a job or of chosen files.

| Run | Checks | Shows |
|---|---|---|
| Documents | `StampsFit`, `ImagesAreThePages` | stamps are upright and inside the crop box through any sequence of rotations; chunks render each page once, in order |
| | `TheRestIsKept`, `RemovalIsHonest` | only targets leave a page, and what is redacted beside them; what stays keeps order, place and state (the alpha only where no dropped text had set one); headings and straight scans survive; "nothing removed" is said only when nothing was |
| | `RedactionIsExact` | a completed redaction leaves no term or covered cell and touches no other; if a term was not found nothing is handed out |
| | `ConversionKeepsAll` | both converters give the requested pages, and finishing loses no property |
| | `AdmittedWithinPlan`, `NoResultIsLost` | an admitted job is its caller's own and within the plan; every document has its result, under a name of its own in the archive |

*Bounds.* These are sequential algorithms, run over every small input: uploads
of two pages, four pages at most, two tools in a row; four operations of a
content stream in all (a further page counts as one), among texts and images
that differ in every trait the code reads, a text that contains the user's word,
two at one place, and one that only PyMuPDF reads; two pages of two cells;
documents of two pages to convert; jobs of up to three of five files that
collide in stem, owner, size and kind.

### Service: Accounts, Limits, Settings, ErrorLog, Content, Schema (composed by MCService, with AccountProofs, ServiceProofs)

Each of the first five is a service between whose reads and writes other
requests commit: a request in hand is a record of what it read. *Accounts* cuts
register, login, refresh and the changes of an admin with their audit record,
which is a second commit; *Limits* the two calls of the rate limiter and the
count and insert of feedback, over half-minute ticks; *Settings* the merge of a
category's document, leaf by leaf, and the four steps of a start, each cut
between its look-up and its write, with whatever registrations and admins make
of the account of ADMIN_EMAIL meanwhile; *ErrorLog* the look-up of a fingerprint
and the write that follows; *Content* load and commit of an edit, of which the
commit writes the columns that differ. *Schema* runs the operations of the six
revisions on tables that may hold rows, and compares the last with `app/models`.

| Run | Checks | Shows |
|---|---|---|
| Service | `OneAccountPerAddress`, `ChangesAreAudited` | the unique index alone keeps an address single; a committed change lacks its record only if its process died or an account of it was deleted meanwhile |
| | `LimitsHold` | never more than the limit in a minute, whatever dies between INCR and EXPIRE; more than the day's submissions only if they were under way together |
| | `StartsSeed`, `SettledChangesStay` | of starts that collide one seeds everything, unless a process died in them or a request got between a step's look-up and its write; an update takes away only what it names or what was set while it ran |
| | `ErrorsAreCounted` | every error is in the log once, or lost for one of three named reasons |
| | `PublishedIsDated` | overlapping edits leave nothing published without its date |
| | `MigrationsFit` | every path through the revisions applies to tables with rows, undoes itself and ends at the models |

*Bounds.* Two handlers of each part, and two starting processes, make every
overlap of a pair; symmetric, since no part tells them apart. Three spellings
of two addresses, three accounts, two changes; a limit of one a minute and one a
day, over two ticks; two edits and three starts; two accounts of ADMIN_EMAIL,
with every setting of it and of the password; four errors of one
fingerprint; three rows and two edits; three calls of alembic with two tables
holding rows. The account of ADMIN_EMAIL and the updates of settings share
nothing, so the starts meet each in a part of its own ("starts", "settings"). No part promises
progress, so the run assumes no fairness.

## Where the code differs from what it says

Three runs check a statement of the repository and TLC finds it violated;
`PROJECT.json` "findings" quotes it: FindRetry, FindSecrets and FindUpload
above. Other differences met while modelling, which no run shows:

- Jobs. A cancelled job "has already finished" (`services/admin.py:1406`), but
  the worker that runs it overwrites the status with its outcome. "Never let a
  job row dangle in 'processing'" (`tasks/base.py:299`): a child killed by the
  hard time limit leaves it there, and so does a failed flush or commit, whose
  handler writes through the session that failed; the message is acknowledged,
  the passwords stay in the row, and only terminal jobs expire. "Nothing must
  overwrite its status transitions" (`services/tool_base.py:132-134`): a
  dispatch that raises after delivery writes FAILED over them. Passwords are
  "redacted ... once the job reaches a terminal state"
  (`services/tools/protect.py:4-5`): not when it ends outside `run_tool_job`.
- Files. Downloads enforce "must be active, must not be past its expiry"
  (`services/download.py:3-5`): the zip of a job does not look at its files'
  rows. Missing bytes are "not a 500" (`download.py:74`): they are when they go
  between the check and the opening. EXPIRED means "outputs purged"
  (`constants/__init__.py:83`): the outputs are due later than the job.
  `list_expired` returns what still holds disk space (`repositories/file.py:76`):
  not what an admin purged or deleted without unlinking. Thumbnails are
  "removed implicitly" (`services/thumbnails.py:4-5`): nothing removes them.
- Office pool. "soffice takes over for good" (`utils/office_pool.py:87-88`): a
  thread that waits for a slot while the pool is disabled starts a server in
  it. "One LibreOffice never handles two documents at once" (12-13): after a
  timeout the server keeps the document and is sent the next one. A died
  conversion is "retried once" (14-15): the pool gives up after one attempt. An
  OSError from a restart (326) fails the conversion in "auto" mode.
  "A success repays 1" of the score (84): one that overlaps a strike writes
  back what it read before it, less one, and so erases the strike.
- Worker. "Concurrent seeders can't publish a half-written template"
  (`utils/office.py:128-129`): two threads of one process share the staging
  directory, and one publishes what the other is still copying
  (`NeverHalfWritten`). It happens with one thread per process too. "Live
  workers touch their profiles on every conversion" (102) does not hold of the
  directory's own time, which a clone takes over from the template; so another
  process's first lease may purge the profile of a living one, and what
  `copytree` has not listed when it goes is missing from the template without
  an error.
- Documents. A full-page image is "a scan/background, never removed"
  (`utils/pdf_security.py:58`): it is when it is also drawn small, diagonal or
  transparent. Removing a text removes what it was not asked to: the graphics
  state of a dropped BT..ET block goes with it (641-648), so what follows may
  become transparent or opaque; and redaction takes "every character whose box
  intersects a match" (846), as it says there, neighbours included. Both are
  named in `TheRestIsKept`. The finishing pass of a conversion "must downgrade
  to LTR output, never fail the job" (`utils/pdf_convert.py:406-407`): it saves in
  place, so one that breaks off hands out a torn file as a success. "Number shown on the first stamped page"
  (`tools/page_numbers.py:36`): a skipped first page takes it
  (`NumberingStartsAtStart`). No file "they believe is clean while a term they
  typed still sits in it" (`utils/pdf_document.py:277`): a term that is found in
  the text layer of one page stays in the scan of another (`NoTermIsLeft`).
  "Unrecognised extensions keep their relative position"
  (`utils/pdf_convert.py:210`): the second of two in a row goes to the front
  (`ForeignTagsKeepTheirOrder`). "The same file can appear at several positions"
  (`models/job.py:130`): some tools write the results of both over each other,
  and registration misses one (`RepeatsAreFiles`).
- Service. Two first captures of one error leave two rows of its fingerprint;
  from then on every capture of it fails and is dropped
  (`services/error_capture.py:44`). "Every step is idempotent"
  (`services/admin_bootstrap.py:11`): visits are seeded twice when two processes
  start together. It is to "guarantee" a row per tool and category (3), and
  "best-effort": somebody who registers with ADMIN_EMAIL, or deletes that
  account, while a start is about to write it makes its commit fail, and the
  handler (`admin_bootstrap.py:367`) gives up the tools, the settings and the
  visits with it, which is why `StartsSeed` exempts it. A merge of settings
  loses what another admin changed in the same document meanwhile
  (`services/admin.py:2069`). An admin cannot suspend their own account with the
  endpoint for it, but can with the general update. A refresh token is honoured
  for a suspended account (`services/auth.py:67`); the requests made with the
  new tokens are not. The tool switches and stored settings are read by the
  admin panel alone.
- Not modelled parts. `send_email` "never raises" (`services/email.py:45`), but
  builds its headers outside the `try`. A visit from reddit.com counts as social
  media, for its address contains "t.co", and one from an advertisement that
  names google counts as search (`services/admin.py:287-299`).

The definitions in parentheses are in the modules, each next to the weaker
property that does hold and that a run checks.

## Theorems

For any number of jobs, workers, outputs and upsets of every kind
(`JobLifecycleProofs`, from `ConstantsAssumption` alone):

- `TypeCorrect`: `Spec => []TypeOK`. `TypeOK` is not inductive: a worker's next
  step commits its copy of the row, so `Typing` adds what that copy is at each
  place of the run (`WorkerOK`: a loaded row up to the outcome, "processing"
  since the claim, the job it names exists). The lemma `WrittenTyped` says that
  columns written from a stale copy leave a well-formed row.
- `CompletedJobsAreWhole`: `Spec => []CompletedIsWhole`. Inductive given
  `Typing`: `RowSteps` shows that any step either leaves the status from being
  "completed" or keeps the outputs, or is the worker's commit, whose outputs
  are whole by `CompletionIsWhole`.
- `MessagesHaveRows`: `Spec => []MessageHasRow`, strengthened to every kind of
  reference to a job (message, worker, request in progress): references are
  handed on, and only `create_job`'s commit makes the first
  (`ReferencesComeFrom`).

For any number of jobs, workers and outputs, under the upsets each theorem
names: without duplicate deliveries and retries a job is
in one pair of hands. Either `create_job` has not dispatched it, or one message
waits, or one worker has it (`Sole`, with `Alone` for each job). Every step of a
worker takes, drops or goes on with its job (`Takes`, `Drops`, `Goes`), and the
invariants are proved about these.

- `JobsKeepTheContract`: without late dispatches, duplicate deliveries and admin
  actions, JobLifecycle implements JobContract. Stale copies are harmless then
  because whoever has a job knows its status (`Mirrored`).
- `ResultsOfOneRun`: without duplicate deliveries and retries,
  `Spec => []CompletedFromOneRun`. Links only appear when their job is over
  (`Over`: terminal, and no worker is on its way to another status), and what
  is over stays over (`OverStays`).
- `NoJobIsStranded`: with dead nodes, failed and late dispatches and
  cancellations, `Spec => []NoStrandedJob`. `Served` adds that every worker owes
  its acknowledgement, and that a request about to report an unavailable queue
  either overwrites the status or saw a failure that is over. A killed child or
  a failed commit is acknowledged all the same, so neither is among the upsets.

For any number of threads, slots, launcher candidates, conversions and upsets
of every kind, and any strike cost and limit (`OfficePoolProofs`, from
`ConstantsAssumption` alone):

- `PoolTyped`: `Spec => []TypeOK`. The count of documents inside a server is
  decremented by its client and by late answers; that it stays a natural number
  needs `Occupied` (a document a client waits for is inside its server), which
  needs that no other client uses that server.
- `ServersAreExclusive`: `Spec => []OneClientPerServer`. Inductive with `Locks`
  (each lock has the one holder that stands where it is held) and `Servers` (a
  process that is starting is in nobody's table; a client's process can only be
  in the table at the client's own slot; the table has no process twice).
- `DisablingIsJustified`: `Spec => []DisabledForCause`. Strengthened by `Cause`:
  the score and every score a thread has read are covered by the crashes
  recorded so far, and a pool is only activated before it was ever disabled.

- `PoolKeepsItsSize`: `Spec => []FixedSize`. `Homes` says where servers are:
  while the pool is in service or being probed, whatever runs is in the table or
  being started, and who starts a server found none that runs in its slot. So
  every live server has a slot of its own, an injection of the servers into the
  slots, and `FS_Injection` bounds their number. It fails once the pool is
  disabled: `shutdown` takes no slot lock, and a restart under way outlives it.
- `GoodDocumentsConvert`: `Spec => GoodDocumentConverts`, an action property.
  `_server_died` is asked of the very process the document was sent to, so a
  thread at "judge" has a bad document or lost its server (`Verdicts`), which
  stays lost, for dead processes are replaced and never revived.

Every step of a thread is shown once to be a `Moves(t, c)`: thread `t` becomes
`c`, a slot lock, the pool lock and the table change in one of a few ways. The
invariants are then proved about these moves, not about 25 actions. The last
two theorems need what the steps do to the servers that boot and that are up, which
`Turns(t, c)` tells in the same way.

For any number of uploads, runs, files of a batch, ticks and upsets of every
kind (`FileStoreProofs`, from `ConstantsAssumption` alone):

- `StoreTyped`: `Spec => []TypeOK`; `DownloadsAreWhole`:
  `Spec => []ServedIsWhole`; `ResultsOutliveTheirJob`:
  `Spec => []CompletedIsServed`.
- `FilesAreKept`: `Spec => []KeptUntilDue`, for instances without a commit of
  unknown outcome, after which the handler does unlink files that have rows.

All four follow from one invariant, which says of each request in turn: of a
batch under way, what is stored so far is whole (`BatchOK`); a row has whole
bytes or none (`RowsOK`); the files of a request that is over have rows, and
bytes until they are due or someone asked for them (`DoneOK`); a job expires no
later than its outputs (`JobOK`); and what the cleanup, a deleter, a purge or a
reader holds is overdue, asked for or has its row (`Hands`). The second half is
what makes the first inductive: cleanups and deletions act on what they read
steps ago.

- `FilesKeepTheContract`: FileStore implements FileContract. Every step makes the files of one request appear together,
  withdraws files, or leaves what is offered as it was (`Appears`, `Withdraws`,
  `Unseen`); the shown files are an expression over rows and requests, so the
  refinement needs the invariant above only where rows appear.

For any number of accounts, handlers, spellings and changes (`AccountProofs`,
from `AccountAssumption` alone):

- `AccountsTyped`, `AddressesAreUnique` (`Spec => []OneAccountPerAddress`) and
  `ChangesHaveRecords` (`Spec => []ChangesAreAudited`), from the invariant that
  every account a handler holds exists or was deleted by another admin
  (`Holding`), that deletions name who made them and were not of oneself
  (`Others`), and that stored addresses are normal and distinct (`Distinct`).
  Every step either only adds and removes rows (`Grows`) and turns one handler
  to its next place (`Turns`), and the invariant is proved about these.

For any number of inputs, threads, processes, slots, events and upsets of every
kind (`WorkerProofs`, from `RunAssumption`, `ProfilesAssumption` and
`StreamAssumption`):

- `WorkspacesOutliveWork` and `RunErrorsHaveCause`, from `RunInvariant`: a
  result the run took is in its slot and stays ok until the run raises
  (`Collected`); an input that failed, and the run itself, has its cause among
  the upsets so far (`Explained`); no living run is older than its hard limit,
  which is below the age of the purge (`Sheltered`: the one place where the
  three settings meet).
- `SofficeProfilesAreExclusive`: `ProfilesSpec => []ProfilesAreExclusive`. From
  acquiring its slot to releasing it a thread is the one holder of the lock
  (`Locked`); the choice of a slot without its lock needs no assumption.
- `TemplatesAreWhole`: `ProfilesSpec => []TemplateIsWhole`. Where no two threads
  at work share a process and nothing was purged of a living process's profile
  (`Quiet`), the profile a thread leased is empty or whole when soffice starts
  and whole once it has ended, and a copy that failed nowhere holds exactly the
  parts it has been through (`Sound`), so what is renamed is whole. Both
  hypotheses are in the property: without them it is false, as the divergences
  above say.
- `StreamEndsAreReal`: `StreamSpec => []EndsAreReal`. An end in the row, about to
  be published, queued by Redis or told is one the job has reached since the
  stream opened (`Announced`), and nothing is queued before (`Subscribed`).
- `RunsTyped`, `StreamsTyped`: progress stays within its ceiling (a division),
  and a stream never turns more than `_MAX_EVENTS` times.

For any number of callers, requests, updates, starts, rows and handlers
(`ServiceProofs`, from `LimitAssumption`, `SettingsAssumption` and
`ContentAssumption`; the error log needs none):

- `LimitsAreKept`: `LimitsSpec => []LimitsHold`. While requests of a minute may
  still ask for their count, its counter is there and covers those let through
  (`Metered`): it lives 90 seconds, a request that waits for Redis is at most
  one tick old (`Fresh`), and of those between INCR and EXPIRE there is one per
  counter (`OneFirst`). For the limit of a day, a submission saw fewer of its
  kind among those stored before it arrived, and deletions only make them fewer
  (`Spaced`, `FewStays`).
- `StartsAlwaysSeed`: `SettingsSpec => []StartsSeed`. While a step is not done,
  some start that has not passed it is not blocked (`Promised`, `Able`): if it is
  refused, its rows came from a start that stored what both wanted and goes on.
  The first step differs, for the account may also be changed by a request
  (`Late`): the steps after it need that nobody did while a start was about to
  write it, and the account itself that nobody did since a start looked.
- `SettledChangesAlwaysStay`: `SettingsSpec => SettledChangesStay`. Each leaf of
  a document an update is about to merge into is as it was loaded, or was set
  since (`Follows`).
- `PublishedIsAlwaysDated`: `ContentSpec => []PublishedIsDated`. What a handler
  is about to write has the time with what the time is of (`SetsTime`), which
  is judged by the row it loaded and still fits the row it meets, since ids are
  never given twice.
- `EveryErrorIsCounted`: `ErrorsSpec => []ErrorsAreCounted`. The balance of errors
  against rows, captures, removals and losses is kept by each step (`Balanced`),
  for a capture counts in a row of its own fingerprint (`SeesItsOwn`). While first
  captures of a fingerprint run one at a time, whoever may insert its row is
  alone and there is no row yet (`OneRow`).

For documents, page selections, stamps, numbers of workers, requests and plans
of any size (`DocumentProofs`, from `PageAssumption`, `DocumentAssumption`,
`WordAssumption` and `CatalogAssumption`):

- `StampsAlwaysFit`: `PagesSpec => []StampsFit`. Every page of the document and
  of what is on the shelf is upright (`UprightPages`): a tool either hands pages
  on, turns content and stamps by the same angle (`BakedIsUpright`), turns the
  flag alone, which is in neither side, or adds a stamp to a page that has no
  flag any more. Where a block lies is the arithmetic of nine positions.
- `ChunksRenderEveryPage`: `PagesSpec => ImagesAreThePages`. The chunks cover the
  span (`ChunkSizes`: two roundings up of a division) and each begins where the one
  before ends, so what is joined after `k` chunks is the span up to the end of
  chunk `k` (`ChunksAreTheSpan`, by induction on `k`).
- `RedactionsAreExact`: `DocumentSpec => RedactionIsExact`, an action property: a
  cell is left alone or covered (`CoverIs`), and a term that no cell shows makes
  the request fail before anything is written.
- `JobsStayWithinPlan`: `CatalogSpec => []AdmittedWithinPlan`. The sum over the
  inputs that `_validate_inputs` compares with the plan is a natural number and
  the one the property speaks of (`TotalIsNatural`, `SameTotal`).
- `ConversionsKeepAll`: `WordSpec => ConversionKeepsAll`, an action property. Both
  converters make the range of the requested pages (`RangeIsTheRequested`). The
  finishing pass sorts by rank and place: any total order of the numbers up to `n`
  lists them (`OrderExists`) and lists them all (`OrderIsOnto`), so nothing is
  dropped, and two known properties have different ranks (`SortedIsGood`); the
  inserted bidi leaves the others where they were (`BidiIsGood`).
- `NoResultIsEverLost`: `CatalogSpec => []NoResultIsLost`. An accepted job has
  inputs that its tool takes (`JobIsSound`), and what each kind of tool makes of
  them bears their names in their order (`ProducedIsGood`: one for each input, the
  documents among them, the pages of each, which begin in turn when they are
  joined, `FlattenBegins`). In an archive, of the name and its first counters one
  is free, for there are more of them than names before it (`ArchiveNameIsFree`,
  by the pigeonhole principle), so each file gets a new one (`ArchivedIsGood`, by
  induction on the files).

For documents of any number of pages and operations, any texts and images, and
whatever the heuristics take for a watermark (also in `DocumentProofs`, from no
assumption on the constants):

- `TheRestIsAlwaysKept`: `WatermarkSpec => []TheRestIsKept`. The rewriter and the
  viewer are compared operation by operation (`StreamsAgree`, by induction on the
  stream): `Agree` relates the state of the rewriter to what a viewer has of the
  source and of the stream written so far. Outside of removed content all three
  follow the same state, but for the alpha that dropped texts had set: source and
  output are in the same turn (`SameTurn`) and have the same outline, and where no
  such text is (`Strays`) the same drawings exactly. Redaction turns a text into
  the state it sets, which a viewer passes through alike. Within it the rewriter stands still while the source goes
  on, and the invariant says that the source returns to where the rewriter stands
  (`Within`): the stack of saved states below is untouched, and the state that is
  current, or that was saved last above them, is the one the section began with.
  That needs what `Nested` says of a source, that operators nest within sections
  (`ComesBack`). `WatermarkInv` carries this to runs: each output page is the
  rewriting of its source page under the plan (`RewriteIs`, `SavedIs`), everything
  noted is where it is noted (`NotedIs`), and an image among the targets was drawn
  diagonal, clear or not full-page somewhere (`TargetsAre`), so a scan that is
  always drawn straight is none.
- `RemovalsAreHonest`: `WatermarkSpec => []RemovalIsHonest`, from the same
  invariant. The rewriter keeps no operation that shows the user's text, and keeps
  the whole stream if it counts nothing (`RewrittenTally`); what PyMuPDF removes is
  the difference of lengths, a sum of natural numbers that is zero only if each is
  (`NothingSummed`).

The library states induction with an operator as parameter, which the provers
cannot instantiate. `Inductions` states it with sets: a set of numbers that has
0 and, with `n`, `n + 1` has every number (`Induction`, from the
well-foundedness of `<`). From it follow the existence and uniqueness of folds
over finite sets (`FoldExists`, `FoldUnique`), what a sum over a set is and how it
changes with one element (`SumIsNatural`, `SumOneMore`, `SumOfParts`), whichever
order the fold takes (`AddsInAnyOrder`), what joining sequences gives
(`FlattenSteps`, `FlattenType`), the listing of numbers in an order, and what a
fold over a sequence gives: a set of sequences that has the empty one and, with
each, the one that is longer by one has every sequence (`OneAfterAnother`), and a
fold of a longer sequence is one step more (`TurnsAreSteps`, since the fold of
the community modules takes the greatest index last).

TLC alone checks the liveness properties (`RetentionWins`, `Reclaimed`,
`EveryConversionEnds`, `WorkspacesGo`, `LearnsTheEnd`: temporal reasoning with
fairness is out of the prover's reach) and one safety property: `MigrationsFit`
(Migrations) is a computation over the concrete revisions of the repository, and
has no constant that a proof could generalise.

## Not modelled

- Admin reports and analytics (`services/admin.py` 260-960 in part): queries
  that aggregate rows and change none; the insert of a page visit stands alone.
- The HTTP surface (routers, schemas, middleware, error handlers, health):
  translation between HTTP and the services, without state.
- Configuration and logging: values are constants of the models.
- E-mail: output nothing reads back.
- Database and Redis clients: sessions and commits are steps of the modules
  that use them.
- Image enhancement, compression settings, fonts, colours, placeholders of
  stamps, the layout of reports, sanitising of file names, checksums, the
  inside of pdf2docx, Ghostscript, Tesseract and LibreOffice: computation on
  content no property speaks about.
- Of the office pool: the choice of ports, the environment shared by concurrent
  conversions, the resolution of the launcher.
- Types and widths of columns, and the wording of rows.
- Scripts and tests.

## Plan

What is there was built in this order: the job and its broker, the files, the
office pool, each with its proofs; the inside of a worker; documents; the
service around them; proofs about files and accounts. What is left:

1. *Composition*: a run of ParallelInputs whose operations are leases of
   SofficeProfiles and OfficePool, as threads of one process.
2. *Office pool*: the race for ports between two pools, and the client's
   environment.
3. *Larger instances*: two requests of different kinds in the file store with
   the fairness of FileLiveness, a third process for the template.
