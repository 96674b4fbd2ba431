----------------------------- MODULE JobStream -----------------------------
(***************************************************************************)
(* A progress stream of one job, endpoints/jobs.py: either a WebSocket,     *)
(* which forwards what the worker publishes over Redis and reads the row    *)
(* when nothing comes, or server-sent events, which only read the row.      *)
(* The worker commits, then publishes what it committed                     *)
(* (services/job_events.py); an admin and the cleanup publish nothing.      *)
(***************************************************************************)
EXTENDS Naturals, Sequences

CONSTANTS MaxEvents,       \* _MAX_EVENTS
          MaxProgress,     \* 100
          StreamUpsets,    \* which failures and interventions may happen
          MaxStreamUpsets  \* bound: how many of them

AllStreamUpsets == {"redis_down", "event_lost", "disconnect", "admin_cancel",
                    "admin_retry"}

ASSUME StreamAssumption == /\ MaxEvents \in Nat \ {0}
                           /\ MaxProgress \in Nat \ {0}
                           /\ StreamUpsets \subseteq AllStreamUpsets
                           /\ MaxStreamUpsets \in Nat

VARIABLES row,     \* committed status and progress of the job
          work,    \* the worker's copy of them (expire_on_commit=False)
          outbox,  \* the event the worker has committed and not yet published
          wire,    \* events Redis has queued for the WebSocket's subscription
          stream,  \* the stream, of either kind
          seen,    \* statuses the job has had, or was announcing, since the
                   \* stream opened (history)
          upset    \* upsets so far

streamVars == <<row, work, outbox, wire, stream, seen, upset>>

\* "pending" is never committed; "unknown" stands for a job without a row.
Statuses == {"unknown", "queued", "processing", "completed", "failed",
             "cancelled", "expired"}
Terminal == {"completed", "failed", "cancelled", "expired"}
View == [status: Statuses, progress: 0..MaxProgress]
NoView == [status |-> "unknown", progress |-> 0]

StreamState == [kind: {"ws", "sse"},
                pc: {"idle", "opened", "loop", "asleep", "closed", "gone"},
                pubsub: BOOLEAN,
                turns: 0..MaxEvents,
                last: View]

StreamTypeOK ==
  /\ row \in View
  /\ work \in View
  /\ outbox \in View
  /\ wire \in Seq(View)
  /\ stream \in StreamState
  /\ seen \in SUBSET Statuses
  /\ upset \in 0..MaxStreamUpsets

StreamInit ==
  /\ row \in {NoView, [status |-> "queued", progress |-> 0]}
  /\ work = NoView
  /\ outbox = NoView
  /\ wire = <<>>
  /\ stream \in [kind: {"ws", "sse"}, pc: {"idle"}, pubsub: {FALSE},
                 turns: {0}, last: {NoView}]
  /\ seen = {}
  /\ upset = 0

StreamUpset(kind) == /\ kind \in StreamUpsets
               /\ upset < MaxStreamUpsets
               /\ upset' = upset + 1

-----------------------------------------------------------------------------
(* The job's row and the worker.                                            *)

Open == stream.pc \in {"opened", "loop", "asleep"}

\* A commit that leaves v in the row.
Commit(v) ==
  /\ row' = v
  /\ seen' = IF Open THEN seen \cup {v.status} ELSE seen

\* Mutant: what the worker publishes is not committed yet.
CommitWorkMutant(v) ==
  /\ outbox = NoView
  /\ work' = v
  /\ outbox' = v
  /\ UNCHANGED <<row, seen, wire, stream, upset>>

\* The worker commits its own copy and turns to publishing it.
CommitWork(v) ==
  /\ outbox = NoView
  /\ work' = v
  /\ outbox' = v
  /\ Commit(v)
  /\ UNCHANGED <<wire, stream, upset>>

Start == /\ row.status = "queued" /\ work.status # "processing"
         /\ CommitWork([status |-> "processing", progress |-> 0])

\* Only the changed column is written: the row keeps its status.
Report ==
  /\ work.status = "processing" /\ outbox = NoView
  /\ \E p \in work.progress + 1 .. MaxProgress :
       /\ work' = [work EXCEPT !.progress = p]
       /\ outbox' = work'
       /\ Commit([row EXCEPT !.progress = p])
  /\ UNCHANGED <<wire, stream, upset>>

Finish ==
  /\ work.status = "processing"
  /\ \/ CommitWork([status |-> "completed", progress |-> MaxProgress])
     \/ CommitWork([work EXCEPT !.status = "failed"])

AdminCommit ==
  /\ \/ /\ row.status \in {"queued", "processing"}
        /\ StreamUpset("admin_cancel")
        /\ Commit([row EXCEPT !.status = "cancelled"])
     \/ /\ row.status \in {"failed", "cancelled"}
        /\ StreamUpset("admin_retry")
        /\ Commit([status |-> "queued", progress |-> 0])
  /\ UNCHANGED <<work, outbox, wire, stream>>

\* The cleanup, once the retention of a job is over.
Expire ==
  /\ row.status \in Terminal \ {"expired"}
  /\ Commit([row EXCEPT !.status = "expired"])
  /\ UNCHANGED <<work, outbox, wire, stream, upset>>

\* publish_job_event never raises: the event reaches the subscription, if
\* there is one, or is lost.
Publish ==
  /\ outbox # NoView
  /\ outbox' = NoView
  /\ \/ /\ wire' = IF stream.pubsub THEN Append(wire, outbox) ELSE wire
        /\ UNCHANGED upset
     \/ StreamUpset("event_lost") /\ UNCHANGED wire
  /\ UNCHANGED <<row, work, stream, seen>>

-----------------------------------------------------------------------------
(* A stream.                                                                *)

\* Where the stream goes after it has sent v, with n turns of its loop gone.
AfterSend(v, n) == IF v.status \notin Terminal /\ v # NoView /\ n < MaxEvents
                   THEN "loop" ELSE "closed"
Send(v, n) ==
  stream' = [stream EXCEPT !.pc = AfterSend(v, n), !.turns = n, !.last = v,
                           !.pubsub = @ /\ AfterSend(v, n) = "loop"]

\* The WebSocket subscribes, or finds Redis down, before it reads the row.
Subscribe ==
  /\ stream.pc = "idle"
  /\ seen' = {row.status, outbox.status}
  /\ \/ /\ stream' = [stream EXCEPT !.pc = "opened",
                                    !.pubsub = stream.kind = "ws"]
        /\ UNCHANGED upset
     \/ /\ stream.kind = "ws" /\ StreamUpset("redis_down")
        /\ stream' = [stream EXCEPT !.pc = "opened"]
  /\ UNCHANGED <<row, work, outbox, wire>>

\* The WebSocket's first snapshot; server-sent events start with the loop.
FirstSnapshot ==
  /\ stream.pc = "opened"
  /\ IF stream.kind = "ws" THEN Send(row, 0)
     ELSE stream' = [stream EXCEPT !.pc = "loop"]
  /\ UNCHANGED <<row, work, outbox, wire, seen, upset>>

Pushed ==
  /\ stream.pc = "loop" /\ stream.pubsub /\ wire # <<>>
  /\ wire' = Tail(wire)
  /\ Send(Head(wire), stream.turns + 1)
  /\ UNCHANGED <<row, work, outbox, seen, upset>>

\* Mutant: when nothing comes, the stream waits on.
PauseMutant ==
  /\ stream.pc = "loop" /\ stream.pubsub
  /\ stream' = [stream EXCEPT !.turns = 0]
  /\ UNCHANGED <<row, work, outbox, wire, seen, upset>>

\* get_message times out, also while an event is on its way, or there is no
\* subscription and the stream sleeps. Then it reads the row.
Pause ==
  /\ stream.pc = "loop"
  /\ stream' = [stream EXCEPT !.pc = "asleep"]
  /\ UNCHANGED <<row, work, outbox, wire, seen, upset>>

\* get_message raises: what was queued is gone, the stream polls from now on.
Degrade ==
  /\ stream.pc = "loop" /\ stream.pubsub /\ StreamUpset("redis_down")
  /\ stream' = [stream EXCEPT !.pc = "asleep", !.pubsub = FALSE]
  /\ wire' = <<>>
  /\ UNCHANGED <<row, work, outbox, seen>>

Snapshot ==
  /\ stream.pc = "asleep"
  /\ Send(row, stream.turns + 1)
  /\ UNCHANGED <<row, work, outbox, wire, seen, upset>>

\* The client goes away: the next send raises.
Disconnect ==
  /\ Open /\ StreamUpset("disconnect")
  /\ stream' = [stream EXCEPT !.pc = "gone", !.pubsub = FALSE]
  /\ UNCHANGED <<row, work, outbox, wire, seen>>

StreamStep == \/ FirstSnapshot \/ Pushed \/ Pause \/ Snapshot

StreamNext == \/ Start \/ Report \/ Finish \/ AdminCommit \/ Expire \/ Publish
        \/ Subscribe \/ StreamStep \/ Degrade \/ Disconnect

StreamFairness == WF_streamVars(StreamStep)

StreamSpec == StreamInit /\ [][StreamNext]_streamVars /\ StreamFairness

-----------------------------------------------------------------------------

\* A stream never reports an end the job has not reached: the worker publishes
\* after its commit, and nothing an earlier subscription left is delivered.
EndsAreReal ==
  stream.last.status \in Terminal => stream.last.status \in seen

\* Once the job has ended and the worker is silent, a client that stays and
\* whose stream has turns left for what is queued learns of the end, whether
\* or not its event was lost; only a retry of the job excuses the stream.
Queued == IF stream.pubsub THEN Len(wire) ELSE 0
Room == stream.pc \in {"opened", "asleep"} \/ MaxEvents - stream.turns > Queued
Ended == /\ row.status \in Terminal
         /\ work.status # "processing" /\ outbox = NoView
Told == stream.last.status \in Terminal
LearnsTheEnd ==
  (Ended /\ Open /\ Room) ~> (Told \/ stream.pc = "gone" \/ ~Ended)

=============================================================================
