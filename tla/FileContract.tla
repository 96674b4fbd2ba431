---------------------------- MODULE FileContract ----------------------------
(***************************************************************************)
(* What the file API promises: a file comes into being with the batch it   *)
(* belongs to, is offered for download, and is withdrawn for good.          *)
(***************************************************************************)
CONSTANTS File, Requests

VARIABLE shown    \* shown[f]: what GET /files/{id}/download makes of f

Init == shown = [f \in File |-> "unborn"]

Becomes(S, value) ==
  shown' = [f \in File |-> IF f \in S THEN value ELSE shown[f]]

\* S are the files a request leaves behind: they appear in one step, and none
\* of the request's files appeared before.
Appear(S, r) ==
  /\ S # {} /\ \A f \in S : f[1] = r
  /\ \A f \in File : f[1] = r => shown[f] = "unborn"

Offer(S) == Becomes(S, "offered") /\ \E r \in Requests : Appear(S, r)

\* A request that outlasted the retention of its files leaves expired ones.
Miss(S) == Becomes(S, "withdrawn") /\ \E r \in Requests : Appear(S, r)

\* A deletion, a cleanup or the passing of time withdraws any number of files.
Withdraw(S) == /\ \A f \in S : shown[f] = "offered"
               /\ Becomes(S, "withdrawn")

Next == \E S \in SUBSET File : Offer(S) \/ Miss(S) \/ Withdraw(S)

Spec == Init /\ [][Next]_shown
=============================================================================
