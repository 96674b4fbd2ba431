----------------------------- MODULE JobContract -----------------------------
(***************************************************************************)
(* What the processing API promises a client about a job: its status only  *)
(* moves forward, and the files GET /jobs/{id}/download offers appear in    *)
(* one step with the status "completed", do not change while it lasts, and  *)
(* are withdrawn when the job expires.                                      *)
(***************************************************************************)
CONSTANT Jobs

VARIABLES status,   \* status[j], as GET /jobs/{id} shows it
          results   \* results[j]: the files offered for download

vars == <<status, results>>

Init == /\ status = [j \in Jobs |-> "none"]
        /\ results = [j \in Jobs |-> {}]

Move(j, from, to) == /\ status[j] \in from
                     /\ status' = [status EXCEPT ![j] = to]

Submit(j) == Move(j, {"none"}, "queued") /\ UNCHANGED results

Start(j) == Move(j, {"queued"}, "processing") /\ UNCHANGED results

\* Completion publishes a non-empty set of files.
Finish(j) == /\ Move(j, {"processing"}, "completed")
             /\ results'[j] # {}
             /\ results' = [results EXCEPT ![j] = results'[j]]

\* A job may fail before any worker takes it: the queue was unavailable.
Abort(j) == Move(j, {"queued", "processing"}, "failed") /\ UNCHANGED results

\* One cleanup expires any number of finished jobs and offers them no more.
Expire(S) ==
  /\ \A j \in S : status[j] \in {"completed", "failed"}
  /\ status' = [j \in Jobs |-> IF j \in S THEN "expired" ELSE status[j]]
  /\ results' = [j \in Jobs |-> IF j \in S THEN {} ELSE results[j]]

Next == \/ \E j \in Jobs : Submit(j) \/ Start(j) \/ Finish(j) \/ Abort(j)
        \/ \E S \in SUBSET Jobs : Expire(S)

Spec == Init /\ [][Next]_vars
=============================================================================
