------------------------------- MODULE MCWorker -------------------------------
(* The inside of a worker for TLC: the run of one tool over its inputs, the    *)
(* profiles its soffice conversions lease, and the stream on which a client    *)
(* follows the job. They share no state; a behaviour is one of one of them,    *)
(* and the others rest in one of their initial states.                         *)
EXTENDS ParallelInputs, SofficeProfiles, JobStream

CONSTANTS p1, p2

VARIABLE part

vars == <<part, runVars, profileVars, streamVars>>

\* Threads of two processes, or of one.
MCCrews == {{<<p1, 1>>, <<p2, 1>>}, {<<p1, 1>>, <<p1, 2>>}}

Init == /\ part \in {"run", "profiles", "stream"}
        /\ RunInit /\ ProfilesInit /\ StreamInit
        /\ part # "run" => inputs = 1 /\ width = 1
        /\ part # "profiles" => crew = {<<p1, 1>>, <<p2, 1>>}
        /\ part # "stream" => row = NoView /\ stream.kind = "sse"

InRun(Step) == part = "run" /\ Step /\ UNCHANGED <<part, profileVars, streamVars>>
InProfiles(Step) == part = "profiles" /\ Step /\ UNCHANGED <<part, runVars, streamVars>>
InStream(Step) == part = "stream" /\ Step /\ UNCHANGED <<part, runVars, profileVars>>

Next == InRun(RunNext) \/ InProfiles(ProfilesNext) \/ InStream(StreamNext)

Fairness ==
  /\ WF_vars(InRun(RunStep)) /\ WF_vars(InRun(Tick)) /\ WF_vars(InRun(PurgeStale))
  /\ WF_vars(InRun(age >= HardLimit /\ Kill))
  /\ WF_vars(InStream(StreamStep))

Spec == Init /\ [][Next]_vars /\ Fairness
=============================================================================
