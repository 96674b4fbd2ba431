----------------------------- MODULE WorkerProofs -----------------------------
(***************************************************************************)
(* Theorems about the inside of a worker and the streams that follow it:    *)
(* the run of a tool over its inputs (ParallelInputs), the leases of soffice *)
(* profiles (SofficeProfiles) and the progress streams (JobStream), for any  *)
(* number of inputs, threads, processes, events and upsets of every kind.    *)
(***************************************************************************)
EXTENDS ParallelInputs, SofficeProfiles, JobStream, FiniteSetTheorems, TLAPS

-----------------------------------------------------------------------------
(* A run over its inputs.                                                   *)

CausedBy(error, kinds) == \E kind \in kinds \ {"killed"} : ErrorOf[kind] = error

\* What the run has taken is where it belongs until it raises.
Collected ==
  /\ main = "collect" => /\ outcome = NoOutcome
                         /\ \A i \in taken : op[i] = "ok" /\ results[i] = i
  /\ outcome.outputs # <<>> => \A i \in Inputs : op[i] = "ok" /\ outcome.outputs[i] = i

Explained ==
  /\ \A i \in Inputs : op[i] \in Errors => CausedBy(op[i], happened)
  /\ outcome.error # "none" => CausedBy(outcome.error, happened)

\* The workspace goes with the run or long after it.
Sheltered ==
  /\ dir = "removed" => main \in {"done", "dead", "abandoned"}
  /\ main \in {"done", "dead"} => Running = {}
  /\ Alive => age <= HardLimit

RunInvariant == RunTypeOK /\ Collected /\ Explained /\ Sheltered

LEMMA RunStarts == RunInit => RunInvariant
  <1> SUFFICES ASSUME RunInit PROVE RunInvariant
    OBVIOUS
  <1>1. inputs \in 1..MaxInputs /\ width \in 1..MaxInputs
    <2>1. PICK w \in MaxWorkers : width = IF w < inputs THEN w ELSE inputs
      BY DEF RunInit
    <2> QED  BY <2>1, RunAssumption DEF RunInit
  <1>2. RunTypeOK
    BY <1>1, RunAssumption DEF RunInit, RunTypeOK, OpStates, NoOutcome
  <1>3. Collected /\ Explained /\ Sheltered
    BY <1>1, RunAssumption
    DEF RunInit, Collected, Explained, Sheltered, NoOutcome, Running, Errors, Alive
  <1> QED  BY <1>2, <1>3 DEF RunInvariant

\* The progress of a part of the inputs is at most the ceiling.
LEMMA ProgressBounded ==
  ASSUME NEW n \in Nat, inputs \in Nat \ {0}, n <= inputs, Ceiling \in Nat
  PROVE  Progressed(n) \in 0..Ceiling
  <1>1. n * Ceiling <= inputs * Ceiling /\ n * Ceiling \in Nat
    OBVIOUS
  <1>2. (n * Ceiling) \div inputs <= Ceiling
    BY <1>1
  <1>3. (n * Ceiling) \div inputs >= 0 /\ (n * Ceiling) \div inputs \in Int
    BY <1>1
  <1> QED  BY <1>2, <1>3 DEF Progressed

LEMMA OneMoreTaken ==
  ASSUME RunTypeOK, NEW i \in Inputs \ taken
  PROVE  Cardinality(taken) \in Nat /\ Cardinality(taken) + 1 <= inputs
  <1>1. IsFiniteSet(Inputs) /\ Cardinality(Inputs) = inputs
    BY FS_Interval, RunAssumption DEF Inputs, RunTypeOK
  <1>2. IsFiniteSet(taken)
    BY <1>1, FS_Subset DEF RunTypeOK
  <1>3. Cardinality(taken \cup {i}) = Cardinality(taken) + 1
    BY <1>2, FS_AddElement
  <1>4. Cardinality(taken \cup {i}) <= inputs
    BY <1>1, FS_Subset DEF RunTypeOK
  <1>5. Cardinality(taken) \in Nat
    BY <1>2, FS_CardinalityType
  <1> QED  BY <1>3, <1>4, <1>5

\* An upset joins those that happened; what was explained stays explained.
LEMMA CausesStay ==
  ASSUME NEW before, NEW kinds, before \subseteq kinds, NEW error, CausedBy(error, before)
  PROVE  CausedBy(error, kinds)
  BY DEF CausedBy

LEMMA CausedNow ==
  ASSUME NEW kinds, NEW kind \in RunUpsets \ {"killed"}, kind \in kinds
  PROVE  CausedBy(ErrorOf[kind], kinds)
  BY DEF CausedBy

\* An input begins or ends: no slot, no outcome and no directory changes.
LEMMA InputsMove ==
  ASSUME RunInvariant, NEW i \in Inputs, BeginInput(i) \/ EndInput(i)
  PROVE  RunInvariant'
  <1>1. /\ UNCHANGED <<inputs, width, taken, results, main, progress, outcome, dir, age>>
        /\ Inputs' = Inputs /\ op \in [Inputs -> OpStates] /\ happened \subseteq RunUpsets
        /\ op[i] \in {"queued", "running"} /\ main \notin {"done", "dead"}
    <2>1. main # "done" \/ ~EndInput(i)
      BY DEF EndInput, RunInvariant, Sheltered
    <2> QED  BY <2>1 DEF BeginInput, EndInput, Waiting, Running, RunInvariant, RunTypeOK, Inputs
  <1>2. /\ op'[i] \in {"running", "ok"} \cup Errors
        /\ op' = [op EXCEPT ![i] = op'[i]]
        /\ op'[i] \in Errors => CausedBy(op'[i], happened')
        /\ happened \subseteq happened' /\ happened' \subseteq RunUpsets
    <2>1. CASE BeginInput(i)
      BY <1>1, <2>1 DEF BeginInput, Errors
    <2>2. CASE EndInput(i) /\ op' = [op EXCEPT ![i] = "ok"] /\ RunCalm
      BY <1>1, <2>2 DEF EndInput, RunCalm, Errors
    <2>3. ASSUME NEW kind \in {"processing", "timeout", "missing", "exit", "error"},
                 RunUpset(kind), op' = [op EXCEPT ![i] = ErrorOf[kind]]
          PROVE  /\ op'[i] = ErrorOf[kind] /\ ErrorOf[kind] \in Errors
                 /\ kind \in RunUpsets \ {"killed"} /\ kind \in happened'
                 /\ happened \subseteq happened' /\ happened' \subseteq RunUpsets
      BY <1>1, <2>3 DEF RunUpset, ErrorOf, Errors
    <2> QED  BY <1>1, <2>1, <2>2, <2>3, CausedNow DEF EndInput
  <1>3. op' \in [Inputs -> OpStates] /\ \A k \in Inputs : k # i => op'[k] = op[k]
    BY <1>1, <1>2 DEF OpStates
  <1>4. RunTypeOK'
    BY <1>1, <1>2, <1>3 DEF RunInvariant, RunTypeOK
  <1>5. Collected'
    <2>1. main = "collect" => i \notin taken
      BY <1>1 DEF RunInvariant, Collected
    <2>2. outcome.outputs = <<>>
      BY <1>1 DEF RunInvariant, Collected
    <2>3. taken \subseteq Inputs
      BY DEF RunInvariant, RunTypeOK
    <2> QED  BY <1>1, <1>3, <2>1, <2>2, <2>3 DEF RunInvariant, Collected
  <1>6. Explained'
    BY <1>1, <1>2, <1>3, CausesStay DEF RunInvariant, Explained
  <1>7. Sheltered'
    BY <1>1 DEF RunInvariant, Sheltered, Alive
  <1> QED  BY <1>4, <1>5, <1>6, <1>7 DEF RunInvariant

\* A result is taken.
LEMMA TakesResult ==
  ASSUME RunInvariant, NEW i \in Inputs, Take(i)
  PROVE  RunInvariant'
  <1>1. /\ UNCHANGED <<inputs, width, op, dir, age>> /\ Inputs' = Inputs
        /\ main = "collect" /\ outcome = NoOutcome /\ dir = "present"
        /\ op[i] \in {"ok"} \cup Errors /\ i \in Inputs \ taken
        /\ taken' = taken \cup {i} /\ op \in [Inputs -> OpStates]
        /\ taken \subseteq Inputs /\ results \in [Inputs -> 0..inputs]
        /\ happened \subseteq RunUpsets
    BY DEF Take, Over, Waiting, Running, RunInvariant, RunTypeOK, Collected, Sheltered,
           Inputs, OpStates
  <1>2. i \in 0..inputs /\ results' \in [Inputs -> 0..inputs]
    <2>1. i \in 0..inputs
      BY DEF Inputs
    <2> QED  BY <1>1, <2>1 DEF Take, Slot
  <1>3. /\ happened \subseteq happened' /\ happened' \subseteq RunUpsets
        /\ \/ UNCHANGED <<main, outcome>> /\ op[i] = "ok" /\ results' = [results EXCEPT ![i] = i]
              /\ progress' = Progressed(Cardinality(taken) + 1)
           \/ /\ main' = "join" /\ progress' = progress
              /\ \E error \in Errors : /\ outcome' = [outcome EXCEPT !.error = error]
                                       /\ CausedBy(error, happened')
    <2>1. CASE op[i] # "ok"
      <3>1. happened' = happened /\ main' = "join" /\ progress' = progress
            /\ outcome' = [outcome EXCEPT !.error = op[i]] /\ op[i] \in Errors
        BY <1>1, <2>1 DEF Take, Raise, RunCalm
      <3>2. CausedBy(op[i], happened)
        BY <1>1, <3>1 DEF RunInvariant, Explained
      <3>3. \E error \in Errors : outcome' = [outcome EXCEPT !.error = error] /\ CausedBy(error, happened')
        BY <3>1, <3>2, CausesStay
      <3> QED  BY <1>1, <3>1, <3>3
    <2>2. CASE op[i] = "ok" /\ RunUpset("report_fails")
      <3>1. /\ happened' = happened \cup {"report_fails"} /\ "report_fails" \in RunUpsets
            /\ results' = [results EXCEPT ![i] = i]
        BY <2>2 DEF RunUpset, Take, Slot
      <3>2. main' = "join" /\ progress' = progress
            /\ outcome' = [outcome EXCEPT !.error = "SERVER_ERROR"]
        BY <2>2 DEF Take, Raise, RunUpset, RunCalm
      <3>3. ErrorOf["report_fails"] = "SERVER_ERROR" /\ "SERVER_ERROR" \in Errors
        BY DEF ErrorOf, Errors
      <3>4. CausedBy("SERVER_ERROR", happened')
        BY <3>1, <3>3, CausedNow
      <3> QED  BY <1>1, <3>1, <3>2, <3>3, <3>4
    <2>3. CASE op[i] = "ok" /\ ~RunUpset("report_fails")
      BY <1>1, <2>3 DEF Take, RunCalm, Slot
    <2> QED  BY <2>1, <2>2, <2>3
  <1>4. progress' \in 0..Ceiling
    <2>1. Cardinality(taken) + 1 \in Nat /\ Cardinality(taken) + 1 <= inputs
      BY <1>1, OneMoreTaken DEF RunInvariant
    <2>2. inputs \in Nat \ {0} /\ Ceiling \in Nat /\ progress \in 0..Ceiling
      BY RunAssumption DEF RunInvariant, RunTypeOK
    <2>3. Progressed(Cardinality(taken) + 1) \in 0..Ceiling
      BY <2>1, <2>2, ProgressBounded
    <2> QED  BY <1>3, <2>2, <2>3
  <1>5. main' \in {"collect", "join"} /\ outcome'.outputs = <<>>
        /\ outcome' \in [error: Errors \cup {"none"}, outputs: {<<>>} \cup [Inputs -> 0..inputs]]
    BY <1>1, <1>3 DEF NoOutcome
  <1>6. RunTypeOK'
    BY <1>1, <1>2, <1>3, <1>4, <1>5 DEF RunInvariant, RunTypeOK
  <1>7. Collected'
    <2>1. CASE main' = "join"
      BY <1>5, <2>1 DEF Collected
    <2>2. CASE main' = "collect"
      <3>1. outcome' = outcome /\ op[i] = "ok" /\ results' = [results EXCEPT ![i] = i]
        BY <1>3, <2>2
      <3>2. \A k \in taken' : op'[k] = "ok" /\ results'[k] = k
        BY <1>1, <3>1 DEF RunInvariant, Collected
      <3> QED  BY <1>1, <1>5, <3>1, <3>2 DEF Collected, NoOutcome
    <2> QED  BY <1>5, <2>1, <2>2
  <1>8. Explained'
    <2>1. \A k \in Inputs' : op'[k] \in Errors => CausedBy(op'[k], happened')
      BY <1>1, <1>3, CausesStay DEF RunInvariant, Explained
    <2>2. outcome'.error # "none" => CausedBy(outcome'.error, happened')
      <3>1. CASE outcome' = outcome
        BY <1>1, <3>1 DEF NoOutcome
      <3>2. ASSUME NEW error \in Errors, outcome' = [outcome EXCEPT !.error = error],
                   CausedBy(error, happened')
            PROVE  CausedBy(outcome'.error, happened')
        <4>1. outcome'.error = error
          BY <1>1, <3>2 DEF NoOutcome
        <4> QED  BY <3>2, <4>1 DEF CausedBy
      <3> QED  BY <1>3, <3>1, <3>2
    <2> QED  BY <2>1, <2>2 DEF Explained
  <1>9. Sheltered'
    BY <1>1, <1>5 DEF RunInvariant, Sheltered, Alive
  <1> QED  BY <1>6, <1>7, <1>8, <1>9 DEF RunInvariant

\* The run returns, leaves, is stopped or killed; time passes; the cleanup goes.
LEMMA RunMoves ==
  ASSUME RunInvariant, Return \/ Leave \/ Tick \/ PurgeStale
  PROVE  RunInvariant'
  <1>1. /\ UNCHANGED <<inputs, width, op, taken, results, progress, happened>> /\ Inputs' = Inputs
        /\ \A error : CausedBy(error, happened') <=> CausedBy(error, happened)
    BY DEF Return, Leave, Tick, PurgeStale, Inputs, CausedBy
  <1>2. HardLimit \in Nat /\ MaxAge \in Nat /\ HardLimit < MaxAge /\ age \in Nat
    BY RunAssumption DEF RunInvariant, RunTypeOK
  <1>3. CASE Return
    <2>1. /\ main' = "join" /\ outcome' = [outcome EXCEPT !.outputs = results]
          /\ UNCHANGED <<dir, age>> /\ main = "collect" /\ taken = Inputs /\ outcome = NoOutcome
      BY <1>3 DEF Return, RunInvariant, Collected
    <2>2. outcome'.outputs = results /\ outcome'.error = "none"
          /\ outcome' \in [error: Errors \cup {"none"}, outputs: {<<>>} \cup [Inputs -> 0..inputs]]
      BY <2>1 DEF RunInvariant, RunTypeOK, NoOutcome
    <2>3. RunTypeOK'
      BY <1>1, <2>1, <2>2 DEF RunInvariant, RunTypeOK
    <2>4. Collected'
      BY <1>1, <2>1, <2>2 DEF RunInvariant, Collected
    <2>5. Explained' /\ Sheltered'
      BY <1>1, <2>1, <2>2 DEF RunInvariant, Explained, Sheltered, Alive
    <2> QED  BY <2>3, <2>4, <2>5 DEF RunInvariant
  <1>4. CASE Leave
    <2>1. main' = "done" /\ dir' = "removed" /\ UNCHANGED <<outcome, age>> /\ Running = {}
      BY <1>4 DEF Leave, Joined
    <2>2. Running' = {}
      BY <1>1, <2>1 DEF Running
    <2> QED  BY <1>1, <2>1, <2>2
             DEF RunInvariant, RunTypeOK, Collected, Explained, Sheltered, Alive
  <1>5. CASE Tick
    <2>1. age' = age + 1 /\ age <= MaxAge /\ (Alive => age < HardLimit)
          /\ UNCHANGED <<main, outcome, dir>>
      BY <1>5 DEF Tick
    <2>2. age' \in 0..MaxAge + 1 /\ (Alive' => age' <= HardLimit) /\ Running' = Running
      BY <1>1, <1>2, <2>1 DEF Alive, Running
    <2> QED  BY <1>1, <2>1, <2>2 DEF RunInvariant, RunTypeOK, Collected, Explained, Sheltered
  <1>6. CASE PurgeStale
    <2>1. dir' = "removed" /\ age > MaxAge /\ UNCHANGED <<main, outcome, age>>
      BY <1>6 DEF PurgeStale
    <2>2. main \in {"done", "dead", "abandoned"}
      BY <1>2, <2>1 DEF RunInvariant, Sheltered, Alive, RunTypeOK
    <2> QED  BY <1>1, <2>1, <2>2
             DEF RunInvariant, RunTypeOK, Collected, Explained, Sheltered, Running, Alive
  <1> QED  BY <1>3, <1>4, <1>5, <1>6

LEMMA SoftStops ==
  ASSUME RunInvariant, SoftStop
  PROVE  RunInvariant'
  <1>1. /\ UNCHANGED <<inputs, width, taken, results, progress, age>> /\ Inputs' = Inputs
        /\ op \in [Inputs -> OpStates] /\ happened' = happened \cup {"soft_limit"}
        /\ "soft_limit" \in RunUpsets /\ happened \subseteq RunUpsets
        /\ outcome' = [outcome EXCEPT !.error = "SERVER_ERROR"]
        /\ \/ main = "collect" /\ main' = "join" /\ dir' = dir
           \/ main = "join" /\ main' = "abandoned" /\ dir' = "removed" /\ op' = op
    BY DEF SoftStop, RunUpset, Raise, Inputs, RunInvariant, RunTypeOK
  <1>2. /\ op' \in [Inputs -> OpStates]
        /\ \A i \in Inputs : op'[i] = op[i] \/ (op'[i] = "SERVER_ERROR" /\ main = "collect")
    <2>1. CASE op' = op
      BY <1>1, <2>1
    <2>2. CASE /\ main = "collect"
               /\ op' = [i \in Inputs |-> IF op[i] = "running" THEN "SERVER_ERROR" ELSE op[i]]
      BY <1>1, <2>2 DEF OpStates, Errors
    <2> QED  BY <2>1, <2>2 DEF SoftStop
  <1>3. CausedBy("SERVER_ERROR", happened') /\ \A error : CausedBy(error, happened) => CausedBy(error, happened')
    <2>1. ErrorOf["soft_limit"] = "SERVER_ERROR"
      BY DEF ErrorOf
    <2>2. happened \subseteq happened' /\ "soft_limit" \in happened'
      BY <1>1
    <2>3. CausedBy(ErrorOf["soft_limit"], happened')
      BY <1>1, <2>2, CausedNow
    <2> QED  BY <2>1, <2>2, <2>3, CausesStay
  <1>4. outcome'.error = "SERVER_ERROR" /\ outcome'.outputs = outcome.outputs
        /\ outcome' \in [error: Errors \cup {"none"}, outputs: {<<>>} \cup [Inputs -> 0..inputs]]
    BY <1>1 DEF RunInvariant, RunTypeOK, Errors
  <1>5. RunTypeOK'
    BY <1>1, <1>2, <1>4 DEF RunInvariant, RunTypeOK
  <1>6. Collected'
    <2>1. outcome.outputs # <<>> => op' = op
      BY <1>1 DEF RunInvariant, Collected, NoOutcome
    <2> QED  BY <1>1, <1>4, <2>1 DEF RunInvariant, Collected
  <1>7. Explained'
    <2>1. \A i \in Inputs' : op'[i] \in Errors => CausedBy(op'[i], happened')
      BY <1>1, <1>2, <1>3 DEF RunInvariant, Explained
    <2> QED  BY <1>3, <1>4, <2>1 DEF Explained
  <1>8. Sheltered'
    BY <1>1 DEF RunInvariant, Sheltered, Alive
  <1> QED  BY <1>5, <1>6, <1>7, <1>8 DEF RunInvariant

LEMMA Kills ==
  ASSUME RunInvariant, Kill
  PROVE  RunInvariant'
  <1>1. /\ UNCHANGED <<inputs, width, taken, results, progress, outcome, dir, age>>
        /\ Inputs' = Inputs /\ main' = "dead" /\ dir = "present"
        /\ op \in [Inputs -> OpStates]
        /\ op' = [i \in Inputs |-> IF op[i] = "running" THEN "queued" ELSE op[i]]
    BY DEF Kill, Inputs, RunInvariant, RunTypeOK, Sheltered, Alive
  <1>2. happened \subseteq happened' /\ happened' \subseteq RunUpsets
    BY DEF Kill, RunCalm, RunUpset, RunInvariant, RunTypeOK
  <1>3. RunTypeOK'
    BY <1>1, <1>2 DEF RunInvariant, RunTypeOK, OpStates
  <1>4. Collected'
    BY <1>1 DEF RunInvariant, Collected
  <1>5. Explained'
    <2>1. \A i \in Inputs : op'[i] \in Errors => op'[i] = op[i]
      BY <1>1 DEF Errors
    <2> QED  BY <1>1, <1>2, <2>1, CausesStay DEF RunInvariant, Explained
  <1>6. Sheltered'
    <2>1. Running' = {}
      BY <1>1 DEF Running
    <2> QED  BY <1>1, <2>1 DEF Sheltered, Alive
  <1> QED  BY <1>3, <1>4, <1>5, <1>6 DEF RunInvariant

LEMMA RunSteps ==
  ASSUME RunInvariant, [RunNext]_runVars
  PROVE  RunInvariant'
  <1>1. CASE UNCHANGED runVars
    BY <1>1 DEF runVars, RunInvariant, RunTypeOK, Collected, Explained, Sheltered, CausedBy,
                Inputs, Running, Alive
  <1> QED  BY <1>1, InputsMove, TakesResult, RunMoves, SoftStops, Kills DEF RunNext, RunStep

LEMMA RunHolds == RunSpec => []RunInvariant
  BY RunStarts, RunSteps, PTL DEF RunSpec

\* Whatever fails, is stopped or killed, the state of a run is well-formed and
\* its progress within the tool's ceiling (tasks/base.py:172).
THEOREM RunsTyped == RunSpec => []RunTypeOK
  <1>1. RunInvariant => RunTypeOK
    BY DEF RunInvariant
  <1> QED  BY <1>1, RunHolds, PTL

\* No operation works in a workspace that is gone, however many threads a run
\* has, unless the soft limit struck while the pool was shutting down.
THEOREM WorkspacesOutliveWork == RunSpec => []WorkspaceOutlivesWork
  <1>1. RunInvariant => WorkspaceOutlivesWork
    BY DEF RunInvariant, Sheltered, WorkspaceOutlivesWork
  <1> QED  BY <1>1, RunHolds, PTL

\* Every error of a run has its cause, and outputs are those of all inputs in
\* their order, in whatever order the threads finished.
THEOREM RunErrorsHaveCause == RunSpec => []ErrorsHaveCause
  <1>1. RunInvariant => ErrorsHaveCause
    BY DEF RunInvariant, Collected, Explained, CausedBy, ErrorsHaveCause
  <1> QED  BY <1>1, RunHolds, PTL
-----------------------------------------------------------------------------
(* A progress stream.                                                       *)

\* An end that is announced has been reached since the stream opened.
Reached(v, statuses) == v.status \in Terminal => v.status \in statuses

\* A subscription exists while its stream is open; turns are left to it.
Subscribed ==
  /\ stream.pubsub => Open
  /\ stream.pc \in {"idle", "opened"} => stream.turns = 0 /\ stream.last = NoView
  /\ stream.pc \in {"loop", "asleep"} => stream.turns < MaxEvents
  /\ stream.pc = "idle" => wire = <<>>

\* What the stream may still read or be sent.
Announced ==
  /\ Open => Reached(row, seen) /\ Reached(outbox, seen)
  /\ stream.pubsub => \A i \in 1..Len(wire) : Reached(wire[i], seen)

StreamInvariant == StreamTypeOK /\ Subscribed /\ Announced /\ EndsAreReal

LEMMA StreamStarts == StreamInit => StreamInvariant
  <1> SUFFICES ASSUME StreamInit PROVE StreamInvariant
    OBVIOUS
  <1>1. /\ row \in View /\ work \in View /\ outbox \in View /\ NoView \in View
    BY StreamAssumption DEF StreamInit, View, NoView, Statuses
  <1>2. /\ wire = <<>> /\ wire \in Seq(View) /\ seen = {}
        /\ upset \in 0..MaxStreamUpsets /\ 0 \in 0..MaxEvents
    BY StreamAssumption DEF StreamInit
  <1>3. /\ stream.pc = "idle" /\ stream.pubsub = FALSE /\ stream.turns = 0
        /\ stream.last = NoView /\ stream \in StreamState
    BY <1>1, <1>2 DEF StreamInit, StreamState
  <1>4. StreamTypeOK
    BY <1>1, <1>2, <1>3 DEF StreamTypeOK
  <1>5. Subscribed /\ Announced /\ EndsAreReal
    BY <1>2, <1>3 DEF Subscribed, Announced, EndsAreReal, Open, NoView, Terminal
  <1> QED  BY <1>4, <1>5 DEF StreamInvariant

\* The row changes, and with it, in the worker's case, what it is about to
\* publish.
LEMMA RowMoves ==
  ASSUME StreamInvariant, NEW v \in View, Commit(v), UNCHANGED <<wire, stream>>,
         work' \in View, upset' \in 0..MaxStreamUpsets,
         outbox' \in View,
         outbox' = outbox \/ outbox'.status \notin Terminal \/ outbox'.status = v.status
  PROVE  StreamInvariant'
  <1>1. /\ row' = v /\ seen \subseteq seen' /\ seen' \in SUBSET Statuses /\ Open' = Open
        /\ Open => v.status \in seen'
    BY DEF Commit, StreamInvariant, StreamTypeOK, View, Open
  <1>2. StreamTypeOK'
    BY <1>1 DEF StreamInvariant, StreamTypeOK
  <1>3. Subscribed'
    BY <1>1 DEF StreamInvariant, Subscribed, Open
  <1>4. Announced'
    BY <1>1 DEF StreamInvariant, Announced, Reached
  <1>5. EndsAreReal'
    BY <1>1 DEF StreamInvariant, EndsAreReal
  <1> QED  BY <1>2, <1>3, <1>4, <1>5 DEF StreamInvariant

LEMMA WorkerMoves ==
  ASSUME StreamInvariant, Start \/ Report \/ Finish \/ AdminCommit \/ Expire
  PROVE  StreamInvariant'
  <1>1. /\ row \in View /\ work \in View /\ outbox \in View
        /\ upset \in 0..MaxStreamUpsets /\ MaxProgress \in Nat /\ MaxStreamUpsets \in Nat
    BY StreamAssumption DEF StreamInvariant, StreamTypeOK
  <1>2. ASSUME NEW v \in View, CommitWork(v)
        PROVE  StreamInvariant'
    BY <1>1, <1>2, RowMoves DEF CommitWork
  <1>3. CASE Start
    <2>1. [status |-> "processing", progress |-> 0] \in View
      BY <1>1 DEF View, Statuses
    <2> QED  BY <1>2, <1>3, <2>1 DEF Start
  <1>4. CASE Finish
    <2>1. /\ [status |-> "completed", progress |-> MaxProgress] \in View
          /\ [work EXCEPT !.status = "failed"] \in View
      BY <1>1 DEF View, Statuses
    <2> QED  BY <1>2, <1>4, <2>1 DEF Finish
  <1>5. CASE Report
    <2>1. PICK p \in work.progress + 1 .. MaxProgress :
            /\ work' = [work EXCEPT !.progress = p] /\ outbox' = work'
            /\ Commit([row EXCEPT !.progress = p])
      BY <1>5 DEF Report
    <2>2. p \in 0..MaxProgress
      BY <1>1 DEF View
    <2>3. work' \in View /\ [row EXCEPT !.progress = p] \in View
      BY <1>1, <2>1, <2>2 DEF View
    <2>4. outbox'.status = "processing" /\ "processing" \notin Terminal
      BY <1>1, <1>5, <2>1 DEF Report, View, Terminal
    <2> QED  BY <1>1, <1>5, <2>1, <2>3, <2>4, RowMoves DEF Report
  <1>6. CASE AdminCommit
    <2>1. /\ [status |-> "queued", progress |-> 0] \in View
          /\ [row EXCEPT !.status = "cancelled"] \in View
      BY <1>1 DEF View, Statuses
    <2>2. upset' \in 0..MaxStreamUpsets
      BY <1>1, <1>6 DEF AdminCommit, StreamUpset
    <2>3. PICK v \in View : Commit(v)
      BY <1>6, <2>1 DEF AdminCommit
    <2> QED  BY <1>1, <1>6, <2>2, <2>3, RowMoves DEF AdminCommit
  <1>7. CASE Expire
    <2>1. [row EXCEPT !.status = "expired"] \in View
      BY <1>1 DEF View, Statuses
    <2> QED  BY <1>1, <1>7, <2>1, RowMoves DEF Expire
  <1> QED  BY <1>3, <1>4, <1>5, <1>6, <1>7

LEMMA Publishes ==
  ASSUME StreamInvariant, Publish
  PROVE  StreamInvariant'
  <1>1. /\ UNCHANGED <<row, work, stream, seen>> /\ outbox' = NoView /\ Open' = Open
        /\ wire \in Seq(View) /\ outbox \in View /\ upset' \in 0..MaxStreamUpsets
    BY StreamAssumption DEF Publish, StreamUpset, StreamInvariant, StreamTypeOK, Open
  <1>2. /\ wire' \in Seq(View)
        /\ wire' = wire \/ (stream.pubsub /\ wire' = Append(wire, outbox))
    BY <1>1 DEF Publish
  <1>3. NoView \in View /\ NoView.status \notin Terminal
    BY StreamAssumption DEF View, NoView, Statuses, Terminal
  <1>4. StreamTypeOK'
    BY <1>1, <1>2, <1>3 DEF StreamInvariant, StreamTypeOK
  <1>5. Subscribed'
    <2>1. stream.pubsub => stream.pc # "idle"
      BY DEF StreamInvariant, Subscribed, Open
    <2> QED  BY <1>1, <1>2, <2>1 DEF StreamInvariant, Subscribed
  <1>6. Announced'
    <2>1. ASSUME stream.pubsub, NEW i \in 1..Len(wire')
          PROVE  Reached(wire'[i], seen)
      <3>1. Reached(outbox, seen) /\ \A k \in 1..Len(wire) : Reached(wire[k], seen)
        BY <2>1 DEF StreamInvariant, Subscribed, Announced
      <3>2. wire'[i] = outbox \/ \E k \in 1..Len(wire) : wire'[i] = wire[k]
        BY <1>1, <1>2, <2>1
      <3> QED  BY <3>1, <3>2
    <2> QED  BY <1>1, <1>3, <2>1 DEF StreamInvariant, Announced, Reached
  <1> QED  BY <1>1, <1>4, <1>5, <1>6 DEF StreamInvariant, EndsAreReal

\* A stream that sends what has been reached.
LEMMA Sends ==
  ASSUME StreamInvariant, Open, NEW v \in View, Reached(v, seen),
         NEW n \in 0..MaxEvents, Send(v, n),
         UNCHANGED <<row, work, outbox, seen, upset>>,
         wire' \in Seq(View),
         stream.pubsub => \A i \in 1..Len(wire') : Reached(wire'[i], seen)
  PROVE  StreamInvariant'
  <1>1. /\ AfterSend(v, n) \in {"loop", "closed"}
        /\ AfterSend(v, n) = "loop" => n < MaxEvents
    BY DEF AfterSend
  <1>2. stream \in StreamState
    BY DEF StreamInvariant, StreamTypeOK
  <1>3. /\ stream'.pc = AfterSend(v, n) /\ stream'.turns = n /\ stream'.last = v
        /\ stream'.pubsub = (stream.pubsub /\ AfterSend(v, n) = "loop")
        /\ stream' \in StreamState
    <2> HIDE DEF AfterSend
    <2> QED  BY <1>1, <1>2 DEF Send, StreamState
  <1>4. StreamTypeOK'
    BY <1>3 DEF StreamInvariant, StreamTypeOK
  <1>5. Subscribed'
    BY <1>1, <1>3 DEF Subscribed, Open
  <1>6. Announced'
    BY <1>3 DEF StreamInvariant, Announced
  <1>7. EndsAreReal'
    BY <1>3 DEF EndsAreReal, Reached
  <1> QED  BY <1>4, <1>5, <1>6, <1>7 DEF StreamInvariant

LEMMA Opens ==
  ASSUME StreamInvariant, Subscribe
  PROVE  StreamInvariant'
  <1>1. /\ stream \in StreamState /\ stream.pc = "idle" /\ wire = <<>> /\ ~stream.pubsub
        /\ stream.turns = 0 /\ stream.last = NoView
        /\ UNCHANGED <<row, work, outbox, wire>>
        /\ seen' = {row.status, outbox.status} /\ row \in View /\ outbox \in View
    BY DEF Subscribe, StreamInvariant, StreamTypeOK, Subscribed, Open
  <1>2. /\ stream' \in StreamState /\ stream'.pc = "opened" /\ stream'.turns = 0
        /\ stream'.last = NoView /\ upset' \in 0..MaxStreamUpsets
    <2>1. upset \in 0..MaxStreamUpsets /\ MaxStreamUpsets \in Nat
      BY StreamAssumption DEF StreamInvariant, StreamTypeOK
    <2>2. PICK pubsub \in BOOLEAN :
            stream' = [stream EXCEPT !.pc = "opened", !.pubsub = pubsub]
      <3>1. stream = [stream EXCEPT !.pubsub = FALSE]
        BY <1>1 DEF StreamState
      <3> QED  BY <1>1, <3>1 DEF Subscribe, StreamState
    <2>3. upset' \in 0..MaxStreamUpsets
      BY <2>1 DEF Subscribe, StreamUpset
    <2> QED  BY <1>1, <2>2, <2>3 DEF StreamState
  <1>3. StreamTypeOK'
    BY <1>1, <1>2 DEF StreamInvariant, StreamTypeOK, View
  <1>4. Subscribed' /\ Announced' /\ EndsAreReal'
    BY <1>1, <1>2 DEF Subscribed, Announced, EndsAreReal, Reached, Open, NoView, Terminal
  <1> QED  BY <1>3, <1>4 DEF StreamInvariant

LEMMA StreamMoves ==
  ASSUME StreamInvariant, StreamStep \/ Degrade \/ Disconnect
  PROVE  StreamInvariant'
  <1>1. /\ stream \in StreamState /\ row \in View /\ wire \in Seq(View)
        /\ upset \in 0..MaxStreamUpsets /\ MaxStreamUpsets \in Nat
        /\ MaxEvents \in Nat \ {0}
    BY StreamAssumption DEF StreamInvariant, StreamTypeOK
  <1>2. ASSUME NEW pc \in {"loop", "asleep", "gone"}, NEW pubsub \in BOOLEAN,
               pubsub => stream.pubsub /\ pc # "gone" /\ wire' = wire,
               pc # "gone" => Open /\ stream.turns < MaxEvents,
               stream' = [stream EXCEPT !.pc = pc, !.pubsub = pubsub],
               wire' \in {wire, <<>>}, upset' \in 0..MaxStreamUpsets,
               UNCHANGED <<row, work, outbox, seen>>
        PROVE  StreamInvariant'
    <2>1. /\ stream'.pc = pc /\ stream'.turns = stream.turns /\ stream'.last = stream.last
          /\ stream'.pubsub = pubsub /\ stream' \in StreamState
      BY <1>1, <1>2 DEF StreamState
    <2>2. wire' \in Seq(View)
      <3>1. wire' = wire \/ wire' = <<>>
        BY <1>2
      <3>2. <<>> \in Seq(View)
        OBVIOUS
      <3> QED  BY <1>1, <3>1, <3>2, Zenon
    <2>3. StreamTypeOK'
      BY <1>2, <2>1, <2>2 DEF StreamInvariant, StreamTypeOK
    <2>4. Subscribed' /\ Announced' /\ EndsAreReal'
      BY <1>2, <2>1 DEF StreamInvariant, Subscribed, Announced, EndsAreReal, Open
    <2> QED  BY <2>3, <2>4 DEF StreamInvariant
  <1>3. CASE FirstSnapshot
    <2>1. Open /\ stream.turns = 0 /\ stream.turns < MaxEvents /\ Reached(row, seen)
      BY <1>1, <1>3 DEF FirstSnapshot, Open, StreamInvariant, Subscribed, Announced
    <2>2. CASE Send(row, 0) /\ UNCHANGED <<row, work, outbox, wire, seen, upset>>
      BY <1>1, <2>1, <2>2, Sends DEF StreamInvariant, Announced
    <2>3. CASE stream' = [stream EXCEPT !.pc = "loop"]
      <3>1. stream' = [stream EXCEPT !.pc = "loop", !.pubsub = stream.pubsub]
        BY <1>1, <2>3 DEF StreamState
      <3>2. stream.pubsub \in BOOLEAN
        BY <1>1 DEF StreamState
      <3> QED  BY <1>1, <1>2, <1>3, <2>1, <3>1, <3>2 DEF FirstSnapshot
    <2> QED  BY <1>3, <2>2, <2>3 DEF FirstSnapshot
  <1>4. CASE Pushed
    <2>1. /\ Open /\ wire # <<>> /\ wire' = Tail(wire) /\ Send(Head(wire), stream.turns + 1)
          /\ UNCHANGED <<row, work, outbox, seen, upset>>
          /\ stream.turns < MaxEvents /\ stream.pubsub
          /\ \A i \in 1..Len(wire) : Reached(wire[i], seen)
      BY <1>4 DEF Pushed, Open, StreamInvariant, Subscribed, Announced
    <2>2. Head(wire) \in View /\ Reached(Head(wire), seen) /\ Tail(wire) \in Seq(View)
      BY <1>1, <2>1
    <2>3. \A i \in 1..Len(Tail(wire)) : Reached(Tail(wire)[i], seen)
      BY <1>1, <2>1
    <2>4. stream.turns + 1 \in 0..MaxEvents
      BY <1>1, <2>1 DEF StreamState
    <2> QED  BY <2>1, <2>2, <2>3, <2>4, Sends
  <1>5. CASE Pause
    <2>1. stream' = [stream EXCEPT !.pc = "asleep", !.pubsub = stream.pubsub]
      BY <1>1, <1>5 DEF Pause, StreamState
    <2>2. stream.pubsub \in BOOLEAN /\ Open /\ stream.turns < MaxEvents
      BY <1>1, <1>5 DEF Pause, StreamState, Open, StreamInvariant, Subscribed
    <2> QED  BY <1>1, <1>2, <1>5, <2>1, <2>2 DEF Pause
  <1>6. CASE Snapshot
    <2>1. Open /\ stream.turns < MaxEvents /\ Reached(row, seen)
          /\ Send(row, stream.turns + 1) /\ UNCHANGED <<row, work, outbox, wire, seen, upset>>
      BY <1>6 DEF Snapshot, Open, StreamInvariant, Subscribed, Announced
    <2>2. stream.turns + 1 \in 0..MaxEvents
      BY <1>1, <2>1 DEF StreamState
    <2> QED  BY <1>1, <2>1, <2>2, Sends DEF StreamInvariant, Announced
  <1>7. CASE Degrade
    <2>1. Open /\ stream.turns < MaxEvents /\ upset' \in 0..MaxStreamUpsets
      BY <1>1, <1>7 DEF Degrade, StreamUpset, Open, StreamInvariant, Subscribed
    <2> QED  BY <1>2, <1>7, <2>1 DEF Degrade
  <1>8. CASE Disconnect
    <2>1. upset' \in 0..MaxStreamUpsets
      BY <1>1, <1>8 DEF Disconnect, StreamUpset
    <2> QED  BY <1>2, <1>8, <2>1 DEF Disconnect
  <1> QED  BY <1>3, <1>4, <1>5, <1>6, <1>7, <1>8 DEF StreamStep

LEMMA StreamSteps ==
  ASSUME StreamInvariant, [StreamNext]_streamVars
  PROVE  StreamInvariant'
  <1>1. CASE UNCHANGED streamVars
    BY <1>1 DEF streamVars, StreamInvariant, StreamTypeOK, Subscribed, Announced, EndsAreReal,
                Open
  <1> QED  BY <1>1, WorkerMoves, Publishes, Opens, StreamMoves DEF StreamNext

\* However events are lost, delayed or doubled by a reading of the row, and
\* whenever Redis fails or an admin steps in, a stream announces no end the job
\* has not reached since the stream opened.
THEOREM StreamEndsAreReal == StreamSpec => []EndsAreReal
  <1>1. StreamInvariant => EndsAreReal
    BY DEF StreamInvariant
  <1> QED  BY <1>1, StreamStarts, StreamSteps, PTL DEF StreamSpec

\* A stream counts its turns up to _MAX_EVENTS and never past (jobs.py).
THEOREM StreamsTyped == StreamSpec => []StreamTypeOK
  <1>1. StreamInvariant => StreamTypeOK
    BY DEF StreamInvariant
  <1> QED  BY <1>1, StreamStarts, StreamSteps, PTL DEF StreamSpec
-----------------------------------------------------------------------------
(* The profiles of soffice.                                                 *)

\* The fields of a lease, named: the provers take sets they need not look into.
Places == {"idle", "purge", "pick", "wait", "clone", "run", "seed", "clear",
           "mkdir", "copy", "publish", "undo", "release"}
Tries == 1..2
Flags == BOOLEAN
Lefts == (SUBSET Names) \cup (SUBSET Parts)
Victims == SUBSET Names
LeaseStates == [pc: Places, slot: 1..Slots, try: Tries, good: Flags, hurt: Flags,
                left: Lefts, victim: Victims, result: Results]

\* Where a thread is between acquiring its slot and releasing it.
Holding == {"clone", "run", "seed", "clear", "mkdir", "copy", "publish", "undo", "release"}

Locked == \A t \in Threads : lease[t].pc \in Holding => slotLock[Name(t)] = {t}

Listed == \A t \in Threads : /\ lease[t].pc = "purge" => lease[t].left \subseteq Names
                             /\ lease[t].pc = "copy" => lease[t].left \subseteq Parts

\* No two threads at work share a process, and with it a staging directory.
Alone == \A t, u \in crew : t[1] = u[1] => t = u

\* Then no other thread touches the profile of a thread, unless it is purged.
Quiet == Alone /\ raided = {}
Sane == {None, Empty, Whole}

\* What a thread has leased is in order, and what it has copied is there; a
\* file it could not copy keeps it from publishing.
Sound(t) ==
  /\ lease[t].pc \in {"purge", "pick", "wait", "clone", "run", "seed", "clear", "mkdir"}
       => ~lease[t].hurt
  /\ lease[t].pc = "run" => profile[Name(t)] \in {Empty, Whole}
  /\ lease[t].pc \in {"seed", "clear", "mkdir", "copy"} => profile[Name(t)] = Whole
  /\ lease[t].pc = "copy" /\ ~lease[t].hurt => Stage(t) = {"."} \cup (Parts \ lease[t].left)
  /\ lease[t].pc = "publish" => Stage(t) = Whole
InOrder == /\ template \in {None, Whole}
           /\ \A n \in Names : n[1] \notin dead => profile[n] \in Sane
           /\ \A t \in crew : t[1] \notin dead => Sound(t)
Seeded == Quiet => InOrder

ProfilesInvariant == ProfilesTypeOK /\ Locked /\ Listed /\ Seeded

LEMMA LeaseTyped == ProfilesTypeOK <=>
  /\ crew \in Crews /\ profile \in [Names -> Dirs] /\ aged \in SUBSET Names
  /\ raided \in SUBSET Names /\ template \in Dirs /\ staging \in [Processes -> Dirs]
  /\ slotLock \in [Names -> SUBSET Threads]
  /\ started \in SUBSET Processes /\ dead \in SUBSET Processes
  /\ lease \in [Threads -> LeaseStates]
  /\ leases \in 0..MaxLeases /\ mishaps \in 0..MaxProfileUpsets
  BY DEF ProfilesTypeOK, LeaseStates, Places, Tries, Flags, Lefts, Victims

\* A thread that changes what it holds of its lease.
LEMMA LeaseChanges ==
  ASSUME lease \in [Threads -> LeaseStates], NEW t \in Threads, NEW r \in LeaseStates,
         lease' = [lease EXCEPT ![t] = r]
  PROVE  /\ lease' \in [Threads -> LeaseStates] /\ lease'[t] = r
         /\ \A u \in Threads : u # t => lease'[u] = lease[u]
  OBVIOUS

LEMMA LeaseFields ==
  ASSUME NEW r \in LeaseStates, NEW good \in Flags, NEW pc \in Places, NEW left \in Lefts
  PROVE  [r EXCEPT !.good = good, !.pc = pc, !.left = left] \in LeaseStates
  BY DEF LeaseStates

LEMMA FieldsKnown ==
  /\ TRUE \in Flags /\ FALSE \in Flags /\ {1, 2} \subseteq Tries
  /\ \A left : left \in SUBSET Names \/ left \in SUBSET Parts => left \in Lefts
  /\ {"idle", "purge", "pick", "wait", "clone", "run", "seed", "clear",
      "mkdir", "copy", "publish", "undo", "release"} \subseteq Places
  <1>1. TRUE \in Flags /\ FALSE \in Flags
    BY DEF Flags
  <1>2. \A left : left \in SUBSET Names \/ left \in SUBSET Parts => left \in Lefts
    BY DEF Lefts
  <1>3. {1, 2} \subseteq Tries
    BY DEF Tries
  <1> QED  BY <1>1, <1>2, <1>3 DEF Places

LEMMA NamesOfThreads ==
  ASSUME NEW t \in Threads
  PROVE  t[1] \in Processes /\ \A s \in 1..Slots : <<t[1], s>> \in Names
  BY DEF Threads, Names

LEMMA CrewWorks == ProfilesTypeOK => crew \subseteq Threads
  BY ProfilesAssumption DEF ProfilesTypeOK, Threads

LEMMA IdleTyped == Idle \in LeaseStates /\ Idle.pc = "idle"
  BY ProfilesAssumption
  DEF Idle, LeaseStates, Results, Places, Tries, Flags, Lefts, Victims

LEMMA ProfilesStart == ProfilesInit => ProfilesInvariant
  <1> SUFFICES ASSUME ProfilesInit PROVE ProfilesInvariant
    OBVIOUS
  <1>1. Idle \in LeaseStates /\ Idle.pc = "idle"
    BY IdleTyped
  <1>2. ProfilesTypeOK
    <2>1. {} \in Dirs
      BY DEF Dirs
    <2>2. /\ crew \in Crews /\ profile \in [Names -> Dirs] /\ aged \in SUBSET Names
          /\ raided \in SUBSET Names /\ template \in Dirs /\ staging \in [Processes -> Dirs]
      BY <2>1 DEF ProfilesInit, None
    <2>3. /\ slotLock \in [Names -> SUBSET Threads]
          /\ started \in SUBSET Processes /\ dead \in SUBSET Processes
          /\ lease \in [Threads -> LeaseStates]
      BY <1>1 DEF ProfilesInit
    <2>4. leases \in 0..MaxLeases /\ mishaps \in 0..MaxProfileUpsets
      BY ProfilesAssumption DEF ProfilesInit
    <2> QED  BY <2>2, <2>3, <2>4, LeaseTyped
  <1>3. \A t \in Threads : lease[t].pc = "idle"
    BY <1>1 DEF ProfilesInit
  <1>4. Locked /\ Listed
    BY <1>3 DEF Locked, Listed, Holding
  <1>5. Seeded
    <2>1. template = None /\ (\A n \in Names : profile[n] = None) /\ crew \subseteq Threads
      BY <1>2, CrewWorks DEF ProfilesInit
    <2> QED  BY <1>3, <2>1 DEF Seeded, InOrder, Sane, Sound
  <1> QED  BY <1>2, <1>4, <1>5 DEF ProfilesInvariant

\* One thread moves on, keeping the locks as they are.
LEMMA ThreadMoves ==
  ASSUME ProfilesInvariant, NEW t \in crew,
         UNCHANGED <<crew, raided, slotLock, dead>>,
         profile' \in [Names -> Dirs], aged' \in SUBSET Names,
         template' \in Dirs, staging' \in [Processes -> Dirs], started' \in SUBSET Processes,
         leases' \in 0..MaxLeases, mishaps' \in 0..MaxProfileUpsets,
         lease' \in [Threads -> LeaseStates],
         \A u \in Threads : u # t => lease'[u] = lease[u],
         \A n \in Names : n # Name(t) => profile'[n] = profile[n],
         \A p \in Processes : p # t[1] => staging'[p] = staging[p],
         lease'[t].pc \in Holding => lease[t].pc \in Holding /\ lease'[t].slot = lease[t].slot,
         lease'[t].pc = "purge" => lease'[t].left \subseteq Names,
         lease'[t].pc = "copy" => lease'[t].left \subseteq Parts,
         Quiet => Sound(t)' /\ template' \in {None, Whole} /\ profile'[Name(t)] \in Sane
  PROVE  ProfilesInvariant'
  <1>1. /\ t \in Threads /\ crew \subseteq Threads /\ crew \in Crews
        /\ slotLock \in [Names -> SUBSET Threads] /\ dead \in SUBSET Processes
        /\ raided \in SUBSET Names /\ lease \in [Threads -> LeaseStates]
    BY CrewWorks, LeaseTyped DEF ProfilesInvariant
  <1>2. ProfilesTypeOK'
    <2>1. ProfilesTypeOK' <=>
            /\ crew' \in Crews /\ profile' \in [Names -> Dirs] /\ aged' \in SUBSET Names
            /\ raided' \in SUBSET Names
            /\ template' \in Dirs /\ staging' \in [Processes -> Dirs]
            /\ slotLock' \in [Names -> SUBSET Threads]
            /\ started' \in SUBSET Processes /\ dead' \in SUBSET Processes
            /\ lease' \in [Threads -> LeaseStates]
            /\ leases' \in 0..MaxLeases /\ mishaps' \in 0..MaxProfileUpsets
      BY DEF ProfilesTypeOK, LeaseStates, Places, Tries, Flags, Lefts, Victims
    <2> QED  BY <1>1, <2>1
  <1>3. Locked'
    <2> SUFFICES ASSUME NEW u \in Threads, lease'[u].pc \in Holding
                 PROVE  slotLock[<<u[1], lease'[u].slot>>] = {u}
      BY DEF Locked, Name
    <2>1. lease[u].pc \in Holding /\ lease'[u].slot = lease[u].slot
      BY <1>1
    <2> QED  BY <2>1 DEF ProfilesInvariant, Locked, Name
  <1>4. Listed'
    BY <1>1 DEF ProfilesInvariant, Listed
  <1>5. Seeded'
    <2> SUFFICES ASSUME Quiet PROVE InOrder'
      BY DEF Seeded, Quiet, Alone
    <2>1. ASSUME NEW u \in crew, u # t, u[1] \notin dead
          PROVE  Sound(u)'
      <3>1. u[1] # t[1] /\ u[1] \in Processes /\ lease'[u] = lease[u]
        BY <1>1, <2>1, NamesOfThreads DEF Quiet, Alone
      <3>2. Stage(u)' = Stage(u) /\ Name(u)' = Name(u)
        BY <3>1 DEF Stage, Name
      <3>3. lease[u].slot \in 1..Slots
        BY <1>1 DEF LeaseStates
      <3>4. Name(u) \in Names /\ Name(u) # Name(t)
        BY <1>1, <3>1, <3>3, NamesOfThreads DEF Name
      <3>5. profile'[Name(u)] = profile[Name(u)]
        BY <3>4
      <3>6. Sound(u)
        BY <2>1 DEF ProfilesInvariant, Seeded, InOrder
      <3> QED  BY <3>1, <3>2, <3>5, <3>6 DEF Sound
    <2>2. \A n \in Names : n[1] \notin dead => profile'[n] \in Sane
      BY DEF ProfilesInvariant, Seeded, InOrder
    <2>3. Sane' = Sane /\ None' = None /\ Whole' = Whole
      BY DEF Sane, None, Empty, Whole
    <2> QED  BY <2>1, <2>2, <2>3 DEF InOrder
  <1> QED  BY <1>2, <1>3, <1>4, <1>5 DEF ProfilesInvariant

\* What the actions start from.
LEMMA ThreadAt ==
  ASSUME ProfilesInvariant, NEW t \in Threads, NEW pc, At(t, pc)
  PROVE  /\ t \in crew /\ lease[t].pc = pc /\ lease[t] \in LeaseStates
         /\ lease \in [Threads -> LeaseStates] /\ Name(t) \in Names /\ t[1] \in Processes
         /\ profile \in [Names -> Dirs] /\ aged \in SUBSET Names /\ raided \in SUBSET Names
         /\ template \in Dirs /\ staging \in [Processes -> Dirs] /\ Stage(t) \in Dirs
         /\ started \in SUBSET Processes /\ slotLock \in [Names -> SUBSET Threads]
         /\ leases \in 0..MaxLeases /\ mishaps \in 0..MaxProfileUpsets
         /\ MaxLeases \in Nat /\ MaxProfileUpsets \in Nat
         /\ Quiet => Sound(t) /\ template \in {None, Whole} /\ profile[Name(t)] \in Sane
  <1>1. /\ lease \in [Threads -> LeaseStates] /\ profile \in [Names -> Dirs]
        /\ aged \in SUBSET Names /\ template \in Dirs /\ staging \in [Processes -> Dirs]
        /\ slotLock \in [Names -> SUBSET Threads] /\ started \in SUBSET Processes
        /\ leases \in 0..MaxLeases /\ mishaps \in 0..MaxProfileUpsets
        /\ raided \in SUBSET Names
    BY LeaseTyped DEF ProfilesInvariant
  <1>2. t \in crew /\ lease[t].pc = pc /\ lease[t] \in LeaseStates /\ t[1] \notin dead
    BY <1>1 DEF At
  <1>3. lease[t].slot \in 1..Slots
    BY <1>2 DEF LeaseStates
  <1>4. Name(t) \in Names /\ t[1] \in Processes /\ Stage(t) \in Dirs /\ Name(t)[1] = t[1]
    BY <1>1, <1>3, NamesOfThreads DEF Name, Stage
  <1>5. MaxLeases \in Nat /\ MaxProfileUpsets \in Nat
    BY ProfilesAssumption
  <1>6. Quiet => Sound(t) /\ template \in {None, Whole} /\ profile[Name(t)] \in Sane
    BY <1>2, <1>4 DEF ProfilesInvariant, Seeded, InOrder
  <1> QED  BY <1>1, <1>2, <1>4, <1>5, <1>6

LEMMA MishapsBounded ==
  ASSUME mishaps \in 0..MaxProfileUpsets, MaxProfileUpsets \in Nat, NEW kind,
         ProfileUpset(kind) \/ ProfileCalm
  PROVE  mishaps' \in 0..MaxProfileUpsets
  BY DEF ProfileUpset, ProfileCalm

LEMMA LeaseBegins ==
  ASSUME ProfilesInvariant, NEW t \in Threads, BeginLease(t)
  PROVE  ProfilesInvariant'
  <1>1. At(t, "idle") /\ leases < MaxLeases /\ leases' = leases + 1
        /\ started' = started \cup {t[1]}
        /\ UNCHANGED <<crew, profile, aged, raided, template, staging, slotLock, dead>>
    BY DEF BeginLease, Disks
  <1>2. PICK good \in BOOLEAN :
          /\ IF good THEN ProfileCalm ELSE ProfileUpset("bad_document")
          /\ lease' = [lease EXCEPT ![t] =
               [Idle EXCEPT !.good = good,
                  !.pc = IF t[1] \in started THEN "pick" ELSE "purge",
                  !.left = IF t[1] \in started THEN {}
                           ELSE {n \in Names : n[1] # t[1] /\ profile[n] # None}]]
    BY DEF BeginLease
  <1>3. ASSUME NEW pc \in {"pick", "purge"}, NEW left \in SUBSET Names,
               lease' = [lease EXCEPT ![t] = [Idle EXCEPT !.good = good, !.pc = pc, !.left = left]]
        PROVE  ProfilesInvariant'
    <2>1. [Idle EXCEPT !.good = good, !.pc = pc, !.left = left] \in LeaseStates
      <3>1. Idle \in LeaseStates
        BY IdleTyped
      <3>2. good \in Flags /\ left \in Lefts /\ pc \in Places
        BY FieldsKnown DEF Flags
      <3> QED  BY <3>1, <3>2, LeaseFields
    <2>2. /\ lease' \in [Threads -> LeaseStates] /\ lease'[t].pc = pc /\ lease'[t].left = left
          /\ lease'[t].hurt = FALSE
          /\ \A u \in Threads : u # t => lease'[u] = lease[u]
      BY <1>1, <1>3, <2>1, ThreadAt DEF Idle
    <2>3. mishaps' \in 0..MaxProfileUpsets /\ leases' \in 0..MaxLeases
      BY <1>1, <1>2, ThreadAt, MishapsBounded
    <2>4. Quiet => Sound(t)' /\ template' \in {None, Whole} /\ profile'[Name(t)] \in Sane
      BY <1>1, <2>2, ThreadAt DEF Sound
    <2>5. started' \in SUBSET Processes
      BY <1>1, ThreadAt
    <2>6. t \in crew /\ lease'[t].pc \notin Holding /\ lease'[t].pc # "copy"
          /\ lease'[t].left \subseteq Names
      BY <1>1, <2>2 DEF At, Holding
    <2>7. /\ profile' \in [Names -> Dirs] /\ aged' \in SUBSET Names
          /\ template' \in Dirs /\ staging' \in [Processes -> Dirs]
          /\ UNCHANGED <<crew, raided, slotLock, dead, staging, profile>>
      BY <1>1, ThreadAt
    <2>8. /\ \A p \in Processes : p # t[1] => staging'[p] = staging[p]
          /\ \A n \in Names : n # Name(t) => profile'[n] = profile[n]
      BY <2>7
    <2> QED  BY <2>2, <2>3, <2>4, <2>5, <2>6, <2>7, <2>8, ThreadMoves
  <1>4. CASE t[1] \in started
    <2>1. lease' = [lease EXCEPT ![t] = [Idle EXCEPT !.good = good, !.pc = "pick", !.left = {}]]
      BY <1>2, <1>4
    <2>2. {} \in SUBSET Names /\ "pick" \in {"pick", "purge"}
      OBVIOUS
    <2> QED  BY <1>3, <2>1, <2>2
  <1>5. CASE t[1] \notin started
    <2>1. {n \in Names : n[1] # t[1] /\ profile[n] # None} \in SUBSET Names
      OBVIOUS
    <2>2. "purge" \in {"pick", "purge"}
      OBVIOUS
    <2> QED  BY <1>2, <1>3, <1>5, <2>1, <2>2
  <1> QED  BY <1>4, <1>5

\* Only the place of the thread changes, and perhaps its slot.
LEMMA ThreadGoes ==
  ASSUME ProfilesInvariant, NEW t \in crew, t \in Threads,
         NEW pc \in {"pick", "clone", "run", "seed", "clear", "mkdir", "publish", "undo",
                     "release", "idle", "wait"},
         Go(t, pc)
  PROVE  /\ lease' \in [Threads -> LeaseStates] /\ lease'[t].pc = pc
         /\ lease'[t].slot = lease[t].slot /\ lease'[t].left = lease[t].left
         /\ lease'[t].hurt = lease[t].hurt
         /\ \A u \in Threads : u # t => lease'[u] = lease[u]
  <1>1. lease \in [Threads -> LeaseStates]
    BY LeaseTyped DEF ProfilesInvariant
  <1> QED  BY <1>1, FieldsKnown DEF Go, LeaseStates

\* The purge moves on in its list.
LEMMA PurgeMoves ==
  ASSUME ProfilesInvariant, NEW t \in Threads, PurgeEntry(t) \/ PurgeLeaves(t) \/ PurgeEnds(t)
  PROVE  ProfilesInvariant'
  <1>1. At(t, "purge") /\ UNCHANGED <<crew, profile, aged, raided, template, staging, slotLock,
                                      started, dead, leases, mishaps>>
    BY DEF PurgeEntry, PurgeLeaves, PurgeEnds, Disks
  <1>2. lease[t].left \subseteq Names
    BY <1>1 DEF At, ProfilesInvariant, Listed
  <1>3. PICK pc \in {"purge", "pick"}, left \in SUBSET Names, victim \in SUBSET Names :
          lease' = [lease EXCEPT ![t] =
            [lease[t] EXCEPT !.pc = pc, !.left = left, !.victim = victim]]
    <2>1. lease[t] \in LeaseStates /\ lease \in [Threads -> LeaseStates] /\ lease[t].pc = "purge"
      BY <1>1, ThreadAt
    <2>2. lease[t].victim \in SUBSET Names
      BY <2>1 DEF LeaseStates, Victims
    <2>3. ASSUME NEW n \in lease[t].left,
                 lease' = [lease EXCEPT ![t].left = @ \ {n},
                                        ![t].victim = IF n \in aged THEN {n} ELSE {}]
          PROVE  lease' = [lease EXCEPT ![t] = [lease[t] EXCEPT !.pc = "purge",
                             !.left = lease[t].left \ {n},
                             !.victim = IF n \in aged THEN {n} ELSE {}]]
      BY <2>1, <2>3 DEF LeaseStates
    <2>4. ASSUME lease' = [lease EXCEPT ![t].victim = {}]
          PROVE  lease' = [lease EXCEPT ![t] = [lease[t] EXCEPT !.pc = "purge",
                             !.left = lease[t].left, !.victim = {}]]
      BY <2>1, <2>4 DEF LeaseStates
    <2>5. ASSUME Go(t, "pick")
          PROVE  lease' = [lease EXCEPT ![t] = [lease[t] EXCEPT !.pc = "pick",
                             !.left = lease[t].left, !.victim = lease[t].victim]]
      BY <2>1, <2>5 DEF LeaseStates, Go
    <2>6. CASE PurgeEntry(t)
      <3>1. PICK n \in lease[t].left :
               lease' = [lease EXCEPT ![t].left = @ \ {n},
                                      ![t].victim = IF n \in aged THEN {n} ELSE {}]
        BY <2>6 DEF PurgeEntry
      <3>2. /\ lease[t].left \ {n} \in SUBSET Names
            /\ (IF n \in aged THEN {n} ELSE {}) \in SUBSET Names
        BY <1>2
      <3> QED  BY <2>3, <3>1, <3>2
    <2>7. CASE PurgeLeaves(t)
      BY <1>2, <2>4, <2>7 DEF PurgeLeaves
    <2>8. CASE PurgeEnds(t)
      BY <1>2, <2>2, <2>5, <2>8 DEF PurgeEnds
    <2> QED  BY <2>6, <2>7, <2>8
  <1>4. /\ lease' \in [Threads -> LeaseStates] /\ lease'[t].pc = pc /\ lease'[t].left = left
        /\ lease'[t].hurt = lease[t].hurt
        /\ \A u \in Threads : u # t => lease'[u] = lease[u]
    <2>1. lease[t] \in LeaseStates /\ lease \in [Threads -> LeaseStates]
      BY <1>1, ThreadAt
    <2>2. PICK r : r = [lease[t] EXCEPT !.pc = pc, !.left = left, !.victim = victim]
      OBVIOUS
    <2>3. /\ r \in LeaseStates /\ r.pc = pc /\ r.left = left /\ r.hurt = lease[t].hurt
      BY <2>1, <2>2, FieldsKnown DEF LeaseStates, Victims
    <2> QED  BY <1>3, <2>1, <2>2, <2>3, LeaseChanges
  <1>5. Quiet => Sound(t)' /\ template' \in {None, Whole} /\ profile'[Name(t)] \in Sane
    BY <1>1, <1>3, <1>4, ThreadAt DEF Sound
  <1> QED  BY <1>1, <1>3, <1>4, <1>5, ThreadAt, ThreadMoves DEF Holding

\* The purge takes a file of a profile; if its process lives, that is noted.
LEMMA PurgeTakes ==
  ASSUME ProfilesInvariant, NEW t \in Threads, PurgeFile(t)
  PROVE  ProfilesInvariant'
  <1>1. PICK n \in lease[t].victim, d \in Dirs : Raided(t, n, d)
    <2>1. lease[t] \in LeaseStates /\ profile \in [Names -> Dirs]
      BY ThreadAt DEF PurgeFile
    <2>2. \A n \in lease[t].victim : n \in Names /\ profile[n] \in Dirs
      BY <2>1 DEF LeaseStates, Victims
    <2>3. \A n \in lease[t].victim : \A f \in Parts : profile[n] \ {f} \in Dirs
      BY <2>2, ProfilesAssumption DEF Dirs
    <2>4. None \in Dirs
      BY DEF None, Dirs
    <2> QED  BY <2>3, <2>4 DEF PurgeFile
  <1>2. At(t, "purge") /\ UNCHANGED <<crew, template, staging, slotLock, started, dead, leases,
                                      mishaps>>
        /\ profile' = [profile EXCEPT ![n] = d] /\ aged' = aged \ {n}
        /\ raided' = (IF n[1] \in dead THEN raided ELSE raided \cup {n})
    BY <1>1 DEF PurgeFile, Raided
  <1>3. /\ lease \in [Threads -> LeaseStates] /\ n \in Names
        /\ profile \in [Names -> Dirs] /\ aged \in SUBSET Names /\ raided \in SUBSET Names
        /\ template \in Dirs /\ staging \in [Processes -> Dirs]
        /\ slotLock \in [Names -> SUBSET Threads] /\ dead \in SUBSET Processes
        /\ started \in SUBSET Processes /\ crew \in Crews /\ crew \subseteq Threads
        /\ leases \in 0..MaxLeases /\ mishaps \in 0..MaxProfileUpsets
    <2>1. lease[t] \in LeaseStates
      BY <1>2, ThreadAt
    <2>2. n \in Names
      BY <1>1, <2>1 DEF LeaseStates, Victims
    <2> QED  BY <2>2, CrewWorks, LeaseTyped DEF ProfilesInvariant
  <1>4. ASSUME NEW u \in Threads
        PROVE  /\ lease'[u] \in LeaseStates
               /\ lease'[u].pc = lease[u].pc /\ lease'[u].slot = lease[u].slot
               /\ lease'[u].left = lease[u].left
               /\ lease[u].pc # "run" \/ Name(u) # n => lease'[u].hurt = lease[u].hurt
    <2>1. PICK victim, hurt : /\ victim = (IF u = t /\ d = None THEN {} ELSE lease[u].victim)
                             /\ hurt = (lease[u].hurt \/ (lease[u].pc = "run" /\ Name(u) = n))
                             /\ lease'[u] = [lease[u] EXCEPT !.victim = victim, !.hurt = hurt]
      BY <1>1 DEF Raided
    <2>2. lease[u] \in LeaseStates
      BY <1>3
    <2>3. victim \in Victims
      BY <2>1, <2>2 DEF LeaseStates, Victims
    <2>4. hurt \in Flags
      BY <2>1, <2>2 DEF LeaseStates, Flags
    <2>5. lease[u].hurt \in BOOLEAN
      BY <2>2 DEF LeaseStates, Flags
    <2>6. lease[u].pc # "run" \/ Name(u) # n => hurt = lease[u].hurt
      BY <2>1, <2>5
    <2> QED  BY <2>1, <2>2, <2>3, <2>4, <2>6 DEF LeaseStates
  <1>5. lease' \in [Threads -> LeaseStates]
    <2>1. lease' = [u \in Threads |-> lease'[u]]
      BY <1>1 DEF Raided
    <2> QED  BY <1>4, <2>1
  <1>6. profile' \in [Names -> Dirs] /\ aged' \in SUBSET Names /\ raided' \in SUBSET Names
    BY <1>2, <1>3
  <1>7. ProfilesTypeOK'
    BY <1>2, <1>3, <1>5, <1>6
    DEF ProfilesTypeOK, LeaseStates, Places, Tries, Flags, Lefts, Victims
  <1>8. Locked'
    BY <1>2, <1>4 DEF ProfilesInvariant, Locked, Name
  <1>9. Listed'
    BY <1>4 DEF ProfilesInvariant, Listed
  <1>10. Seeded'
    <2> SUFFICES ASSUME Quiet, raided' = {} PROVE InOrder'
      BY <1>2 DEF Seeded, Quiet, Alone
    <2>1. n[1] \in dead /\ InOrder
      BY <1>2 DEF ProfilesInvariant, Seeded
    <2>2. ASSUME NEW u \in crew, u[1] \notin dead
          PROVE  Sound(u)'
      <3>1. Name(u) # n /\ u \in Threads /\ Name(u)' = Name(u)
        BY <1>3, <1>4, <2>1, <2>2 DEF Name
      <3>2. lease[u].slot \in 1..Slots
        BY <1>3, <3>1 DEF LeaseStates
      <3>3. Name(u) \in Names
        BY <3>1, <3>2, NamesOfThreads DEF Name
      <3>4. profile'[Name(u)] = profile[Name(u)]
        BY <1>2, <1>3, <3>1, <3>3
      <3>5. Stage(u)' = Stage(u)
        BY <1>2 DEF Stage
      <3>6. Sound(u)
        BY <2>1, <2>2 DEF InOrder
      <3> QED  BY <1>4, <3>1, <3>4, <3>5, <3>6 DEF Sound
    <2>3. \A m \in Names : m[1] \notin dead => profile'[m] \in Sane
      BY <1>2, <1>3, <2>1 DEF InOrder
    <2> QED  BY <1>2, <2>1, <2>2, <2>3 DEF InOrder, Sane, None, Empty, Whole
  <1> QED  BY <1>7, <1>8, <1>9, <1>10 DEF ProfilesInvariant

LEMMA Purges ==
  ASSUME ProfilesInvariant, NEW t \in Threads, Purge(t)
  PROVE  ProfilesInvariant'
  BY PurgeMoves, PurgeTakes DEF Purge

LEMMA Picks ==
  ASSUME ProfilesInvariant, NEW t \in Threads, Pick(t)
  PROVE  ProfilesInvariant'
  <1>1. At(t, "pick") /\ UNCHANGED <<crew, profile, aged, raided, template, staging, slotLock,
                                     started, dead, leases, mishaps>>
    BY DEF Pick, Disks
  <1>2. PICK s \in 1..Slots : lease' = [lease EXCEPT ![t].pc = "wait", ![t].slot = s]
    BY DEF Pick
  <1>3. /\ lease' \in [Threads -> LeaseStates] /\ lease'[t].pc = "wait"
        /\ lease'[t].hurt = lease[t].hurt
        /\ \A u \in Threads : u # t => lease'[u] = lease[u]
    BY <1>1, <1>2, ThreadAt, FieldsKnown DEF LeaseStates
  <1>4. Quiet => Sound(t)' /\ template' \in {None, Whole} /\ profile'[Name(t)] \in Sane
    BY <1>1, <1>3, ThreadAt DEF Sound
  <1> QED  BY <1>1, <1>3, <1>4, ThreadAt, ThreadMoves DEF Holding

\* The lock of a slot changes hands only through nobody's.
LEMMA LocksMove ==
  ASSUME ProfilesInvariant, NEW t \in Threads, Acquire(t) \/ Release(t)
  PROVE  ProfilesInvariant'
  <1>1. /\ UNCHANGED <<crew, profile, aged, raided, template, staging, started, dead, leases,
                       mishaps>>
        /\ t \in crew /\ lease[t].slot \in 1..Slots /\ lease \in [Threads -> LeaseStates]
        /\ slotLock \in [Names -> SUBSET Threads] /\ Name(t) \in Names
        /\ \/ At(t, "wait") /\ Go(t, "clone") /\ slotLock[Name(t)] = {}
              /\ slotLock' = [slotLock EXCEPT ![Name(t)] = {t}]
           \/ At(t, "release") /\ Go(t, "idle") /\ slotLock[Name(t)] = {t}
              /\ slotLock' = [slotLock EXCEPT ![Name(t)] = {}]
    <2>1. At(t, "wait") \/ At(t, "release")
      BY DEF Acquire, Release
    <2>2. t \in crew /\ lease[t] \in LeaseStates /\ lease \in [Threads -> LeaseStates]
          /\ slotLock \in [Names -> SUBSET Threads] /\ Name(t) \in Names
      BY <2>1, ThreadAt
    <2>3. lease[t].slot \in 1..Slots
      BY <2>2 DEF LeaseStates
    <2>4. At(t, "release") => slotLock[Name(t)] = {t}
      BY DEF At, ProfilesInvariant, Locked, Holding
    <2> QED  BY <2>2, <2>3, <2>4 DEF Acquire, Release, Disks
  <1>2. /\ lease' \in [Threads -> LeaseStates] /\ lease'[t].slot = lease[t].slot
        /\ lease'[t].pc \in {"clone", "idle"} /\ lease'[t].hurt = lease[t].hurt
        /\ lease'[t].pc = "clone" => At(t, "wait")
        /\ lease'[t].pc = "clone" => slotLock'[Name(t)] = {t}
        /\ \A u \in Threads : u # t => lease'[u] = lease[u]
        /\ \A n \in Names \ {Name(t)} : slotLock'[n] = slotLock[n]
        /\ slotLock[Name(t)] \subseteq {t}
        /\ slotLock' \in [Names -> SUBSET Threads]
    <2>1. CASE At(t, "wait") /\ Go(t, "clone") /\ slotLock[Name(t)] = {}
               /\ slotLock' = [slotLock EXCEPT ![Name(t)] = {t}]
      BY <1>1, <2>1, ThreadGoes
    <2>2. CASE At(t, "release") /\ Go(t, "idle") /\ slotLock[Name(t)] = {t}
               /\ slotLock' = [slotLock EXCEPT ![Name(t)] = {}]
      BY <1>1, <2>2, ThreadGoes
    <2> QED  BY <1>1, <2>1, <2>2
  <1>3. ProfilesTypeOK'
    <2>1. ProfilesTypeOK
      BY DEF ProfilesInvariant
    <2> QED  BY <1>1, <1>2, <2>1
             DEF ProfilesTypeOK, LeaseStates, Places, Tries, Flags, Lefts, Victims
  <1>4. Locked'
    <2> SUFFICES ASSUME NEW u \in Threads, lease'[u].pc \in Holding
                 PROVE  slotLock'[<<u[1], lease'[u].slot>>] = {u}
      BY DEF Locked, Name
    <2>1. CASE u = t
      BY <1>2, <2>1 DEF Holding, Name
    <2>2. CASE u # t
      <3>1. lease[u].pc \in Holding /\ lease'[u] = lease[u] /\ slotLock[Name(u)] = {u}
        BY <1>2, <2>2 DEF ProfilesInvariant, Locked
      <3>2. Name(u) # Name(t)
        BY <1>2, <2>2, <3>1
      <3>3. Name(u) \in Names
        <4>1. lease[u].slot \in 1..Slots
          BY <1>1 DEF LeaseStates
        <4> QED  BY <4>1, NamesOfThreads DEF Name
      <3> QED  BY <1>2, <3>1, <3>2, <3>3 DEF Name
    <2> QED  BY <2>1, <2>2
  <1>5. Listed'
    BY <1>1, <1>2 DEF ProfilesInvariant, Listed
  <1>6. Seeded'
    <2> SUFFICES ASSUME Quiet PROVE InOrder'
      BY <1>1 DEF Seeded, Quiet, Alone
    <2>1. crew \subseteq Threads /\ InOrder
      BY CrewWorks DEF ProfilesInvariant, Seeded
    <2>2. Sound(t)'
      <3>1. At(t, "wait") => ~lease[t].hurt
        BY <1>1, <2>1, ThreadAt DEF Sound
      <3> QED  BY <1>2, <3>1 DEF Sound
    <2>3. ASSUME NEW u \in crew \ {t}, u[1] \notin dead
          PROVE  Sound(u)'
      <3>1. lease'[u] = lease[u] /\ Name(u)' = Name(u) /\ Stage(u)' = Stage(u)
        BY <1>1, <1>2, <2>1 DEF Name, Stage
      <3>2. Sound(u)
        BY <2>1, <2>3 DEF InOrder
      <3> QED  BY <1>1, <3>1, <3>2 DEF Sound
    <2> QED  BY <1>1, <2>1, <2>2, <2>3 DEF InOrder, Sane, None, Empty, Whole
  <1> QED  BY <1>3, <1>4, <1>5, <1>6 DEF ProfilesInvariant

\* A conversion on a leased profile.
LEMMA Converts ==
  ASSUME ProfilesInvariant, NEW t \in Threads,
         Clone(t) \/ Converted(t) \/ FailedRun(t) \/ TimedOut(t)
  PROVE  ProfilesInvariant'
  <1>1. /\ At(t, "clone") \/ At(t, "run")
        /\ UNCHANGED <<crew, raided, template, staging, slotLock, started, dead, leases>>
    BY DEF Clone, Converted, FailedRun, TimedOut
  <1>2. /\ t \in crew /\ lease \in [Threads -> LeaseStates] /\ Name(t) \in Names
        /\ profile \in [Names -> Dirs] /\ aged \in SUBSET Names
        /\ mishaps \in 0..MaxProfileUpsets /\ MaxProfileUpsets \in Nat
        /\ lease[t].pc \in {"clone", "run"} /\ template \in Dirs /\ staging \in [Processes -> Dirs]
        /\ started \in SUBSET Processes /\ leases \in 0..MaxLeases
        /\ Quiet => Sound(t) /\ template \in {None, Whole} /\ profile[Name(t)] \in Sane
    BY <1>1, ThreadAt
  <1>3. mishaps' \in 0..MaxProfileUpsets
    BY <1>2, MishapsBounded DEF Clone, Converted, FailedRun, TimedOut
  <1>4. {None, Empty, Whole} \subseteq Dirs
    BY DEF None, Empty, Whole, Dirs
  <1>5. Blame(t) \in Results /\ "ok" \in Results /\ "timeout" \in Results
    BY DEF Blame, Results
  \* What an attempt leaves.
  <1>6. \A d \in LeftBy(t) : d \in Dirs /\ (Quiet /\ lease[t].pc = "run" => d = Whole)
    BY <1>2, <1>4 DEF LeftBy, Sound, Damaged
  <1>7. ASSUME NEW d \in Dirs, profile' = [profile EXCEPT ![Name(t)] = d],
               aged' \in {aged, aged \ {Name(t)}, aged \cup {Name(t)}},
               NEW r \in LeaseStates, lease' = [lease EXCEPT ![t] = r],
               r.pc \in {"run", "seed", "release"}, r.slot = lease[t].slot,
               Quiet => \/ r.pc = "run" /\ d \in {Empty, Whole} /\ ~r.hurt
                        \/ r.pc = "seed" /\ d = Whole /\ ~r.hurt
                        \/ r.pc = "release" /\ d = None
        PROVE  ProfilesInvariant'
    <2>1. /\ lease' \in [Threads -> LeaseStates] /\ lease'[t] = r
          /\ \A u \in Threads : u # t => lease'[u] = lease[u]
      BY <1>2, <1>7, LeaseChanges
    <2>2. /\ profile' \in [Names -> Dirs] /\ aged' \in SUBSET Names
          /\ profile'[Name(t)] = d
          /\ \A n \in Names : n # Name(t) => profile'[n] = profile[n]
      BY <1>2, <1>7
    <2>3. Name(t)' = Name(t)
      BY <1>7, <2>1 DEF Name
    <2>4. Quiet => Sound(t)' /\ template' \in {None, Whole} /\ profile'[Name(t)] \in Sane
      BY <1>1, <1>2, <1>7, <2>1, <2>2, <2>3 DEF Sound, Sane
    <2>5. lease'[t].pc \in Holding /\ lease[t].pc \in Holding /\ lease'[t].pc \notin {"purge", "copy"}
      BY <1>2, <1>7, <2>1 DEF Holding
    <2> QED  BY <1>1, <1>2, <1>3, <1>7, <2>1, <2>2, <2>4, <2>5, ThreadMoves
  <1>8. CASE Clone(t)
    <2>1. lease[t].pc = "clone" /\ (Quiet => ~lease[t].hurt)
      BY <1>2, <1>8 DEF Clone, At, Sound
    <2>2. PICK r : r = [lease[t] EXCEPT !.pc = "run"]
      OBVIOUS
    <2>3. /\ r \in LeaseStates /\ r.pc = "run" /\ r.slot = lease[t].slot
          /\ r.hurt = lease[t].hurt /\ lease' = [lease EXCEPT ![t] = r]
      BY <1>2, <1>8, <2>2, FieldsKnown DEF LeaseStates, Clone, Go
    <2>4. PICK d \in Dirs :
            /\ profile' = [profile EXCEPT ![Name(t)] = d]
            /\ d \in {profile[Name(t)], template, Empty} /\ d # None
            /\ aged' \in {aged, aged \ {Name(t)}, aged \cup {Name(t)}}
      <3>1. Empty # None /\ profile[Name(t)] \in Dirs
        BY <1>2 DEF Empty, None
      <3>2. profile' = profile => profile' = [profile EXCEPT ![Name(t)] = profile[Name(t)]]
        BY <1>2
      <3> QED  BY <1>2, <1>4, <1>8, <3>1, <3>2 DEF Clone, Fresh
    <2>5. Quiet => d \in {Empty, Whole}
      BY <1>2, <2>4 DEF Sane
    <2> QED  BY <1>7, <2>1, <2>3, <2>4, <2>5
  <1>9. ASSUME lease[t].pc = "run", NEW pc \in {"seed", "release"}, NEW result \in Results,
               NEW d \in Dirs, EndRun(t, pc, result, d),
               aged' \in {aged, aged \ {Name(t)}},
               Quiet => (pc = "seed" /\ d = Whole) \/ (pc = "release" /\ d = None)
        PROVE  ProfilesInvariant'
    <2>1. Quiet => ~lease[t].hurt
      BY <1>2, <1>9 DEF Sound
    <2>2. PICK r : r = [lease[t] EXCEPT !.pc = pc, !.result = result]
      OBVIOUS
    <2>3. /\ r \in LeaseStates /\ r.pc = pc /\ r.slot = lease[t].slot
          /\ r.hurt = lease[t].hurt /\ lease' = [lease EXCEPT ![t] = r]
      BY <1>2, <1>9, <2>2, FieldsKnown DEF LeaseStates, EndRun
    <2>4. profile' = [profile EXCEPT ![Name(t)] = d]
      BY <1>9 DEF EndRun
    <2>5. Quiet => \/ r.pc = "seed" /\ d = Whole /\ ~r.hurt
                   \/ r.pc = "release" /\ d = None
      BY <1>9, <2>1, <2>3
    <2> QED  BY <1>7, <1>9, <2>3, <2>4, <2>5
  <1>10. CASE Converted(t)
    <2>1. lease[t].pc = "run"
      BY <1>10 DEF Converted, At
    <2>2. PICK d \in LeftBy(t) : EndRun(t, "seed", "ok", d)
      BY <1>10 DEF Converted
    <2>3. aged' \in {aged, aged \ {Name(t)}}
      BY <1>10 DEF Converted
    <2> QED  BY <1>5, <1>6, <1>9, <2>1, <2>2, <2>3
  <1>11. CASE TimedOut(t)
    <2>1. lease[t].pc = "run" /\ EndRun(t, "release", "timeout", None)
          /\ aged' \in {aged, aged \ {Name(t)}}
      BY <1>11 DEF TimedOut, At, Fresh
    <2> QED  BY <1>4, <1>5, <1>9, <2>1
  <1>12. CASE FailedRun(t)
    <2>1. lease[t].pc = "run"
      BY <1>12 DEF FailedRun, At
    <2>2. CASE Retry(t)
      <3>1. PICK r : r = [lease[t] EXCEPT !.try = 2, !.hurt = FALSE]
        OBVIOUS
      <3>2. /\ r \in LeaseStates /\ r.pc = "run" /\ r.slot = lease[t].slot
            /\ ~r.hurt /\ lease' = [lease EXCEPT ![t] = r]
        BY <1>2, <2>1, <2>2, <3>1, FieldsKnown DEF LeaseStates, Retry
      <3>3. profile' = [profile EXCEPT ![Name(t)] = Empty] /\ Empty \in Dirs
            /\ aged' \in {aged, aged \ {Name(t)}, aged \cup {Name(t)}}
        BY <1>4, <2>2 DEF Retry, Fresh
      <3>4. Quiet => r.pc = "run" /\ Empty \in {Empty, Whole} /\ ~r.hurt
        BY <3>2
      <3> QED  BY <1>7, <3>2, <3>3, <3>4
    <2>3. ASSUME NEW d \in LeftBy(t), EndRun(t, "seed", Blame(t), d),
                 aged' \in {aged, aged \ {Name(t)}}
          PROVE  ProfilesInvariant'
      BY <1>5, <1>6, <1>9, <2>1, <2>3
    <2>4. CASE EndRun(t, "release", Blame(t), None) /\ aged' = aged \ {Name(t)}
      BY <1>4, <1>5, <1>9, <2>1, <2>4
    <2> QED  BY <1>12, <2>2, <2>3, <2>4 DEF FailedRun, AfterFailure, Fresh
  <1> QED  BY <1>8, <1>10, <1>11, <1>12

\* The template is seeded.
LEMMA Seeds ==
  ASSUME ProfilesInvariant, NEW t \in Threads,
         TemplateExists(t) \/ RemoveStaging(t) \/ MakeStaging(t) \/ CopyFile(t)
           \/ EndCopy(t) \/ PublishTemplate(t)
  PROVE  ProfilesInvariant'
  <1>1. /\ UNCHANGED <<crew, profile, aged, raided, slotLock, started, dead, leases>>
        /\ \E pc \in Holding : At(t, pc)
    BY DEF TemplateExists, RemoveStaging, MakeStaging, CopyFile, EndCopy, PublishTemplate,
           SeedKeeps, SeedUnchanged, Holding
  <1>2. /\ t \in crew /\ lease \in [Threads -> LeaseStates] /\ t[1] \in Processes
        /\ profile \in [Names -> Dirs] /\ aged \in SUBSET Names /\ Name(t) \in Names
        /\ mishaps \in 0..MaxProfileUpsets /\ MaxProfileUpsets \in Nat
        /\ template \in Dirs /\ Stage(t) \in Dirs
        /\ staging \in [Processes -> Dirs] /\ started \in SUBSET Processes
        /\ leases \in 0..MaxLeases /\ lease[t].pc \in Holding
        /\ Quiet => Sound(t) /\ template \in {None, Whole} /\ profile[Name(t)] \in Sane
    BY <1>1, ThreadAt
  <1>3. {} \in Dirs /\ {"."} \in Dirs /\ "." \notin Parts
    BY ProfilesAssumption DEF Dirs
  <1>4. mishaps' \in 0..MaxProfileUpsets
    BY <1>2, MishapsBounded
    DEF TemplateExists, RemoveStaging, MakeStaging, CopyFile, EndCopy, PublishTemplate,
        SeedKeeps, ProfileCalm
  <1>5. ASSUME lease' \in [Threads -> LeaseStates], lease'[t].slot = lease[t].slot,
               lease'[t].pc \in Holding,
               \A u \in Threads : u # t => lease'[u] = lease[u],
               lease'[t].pc = "copy" => lease'[t].left \subseteq Parts,
               NEW d \in Dirs, Staged(t, d), template' \in Dirs,
               Quiet => template' \in {None, Whole},
               Quiet /\ lease'[t].pc \in {"clone", "run", "seed", "clear", "mkdir"} =>
                 \/ lease'[t].pc = lease[t].pc /\ lease'[t].hurt = lease[t].hurt
                 \/ /\ lease'[t].pc \notin {"clone", "run"} /\ ~lease'[t].hurt
                    /\ profile[Name(t)] = Whole,
               Quiet /\ lease'[t].pc = "copy" => profile[Name(t)] = Whole,
               Quiet /\ lease'[t].pc = "copy" /\ ~lease'[t].hurt =>
                 d = {"."} \cup (Parts \ lease'[t].left),
               Quiet /\ lease'[t].pc = "publish" => d = Whole
        PROVE  ProfilesInvariant'
    <2>1. /\ staging' \in [Processes -> Dirs] /\ Stage(t)' = d
          /\ \A p \in Processes : p # t[1] => staging'[p] = staging[p]
      BY <1>2, <1>5 DEF Staged, Stage
    <2>2. Name(t)' = Name(t) /\ profile' = profile
      BY <1>1, <1>5 DEF Name
    <2>3. lease'[t].pc # "purge" /\ lease'[t].pc \notin {"pick", "wait"}
      BY <1>5 DEF Holding
    <2>4. Quiet => Sound(t)' /\ template' \in {None, Whole} /\ profile'[Name(t)] \in Sane
      BY <1>2, <1>5, <2>1, <2>2, <2>3 DEF Sound
    <2>5. \A n \in Names : n # Name(t) => profile'[n] = profile[n]
      BY <2>2
    <2>6. /\ profile' \in [Names -> Dirs] /\ aged' \in SUBSET Names
          /\ started' \in SUBSET Processes /\ leases' \in 0..MaxLeases
          /\ UNCHANGED <<crew, raided, slotLock, dead>>
      BY <1>1, <1>2
    <2> QED  BY <1>2, <1>4, <1>5, <2>1, <2>3, <2>4, <2>5, <2>6, ThreadMoves
  <1>6. Staged(t, Stage(t)) <=> staging' = staging
    BY <1>2 DEF Staged, Stage
  <1>7. ASSUME NEW pc \in Holding \ {"copy"}, Go(t, pc)
        PROVE  /\ lease' \in [Threads -> LeaseStates] /\ lease'[t].slot = lease[t].slot
               /\ lease'[t].pc = pc /\ lease'[t].pc \in Holding /\ lease'[t].pc # "copy"
               /\ lease'[t].hurt = lease[t].hurt
               /\ \A u \in Threads : u # t => lease'[u] = lease[u]
    BY <1>2, <1>7, ThreadGoes DEF Holding
  <1>8. CASE TemplateExists(t)
    <2>1. PICK pc \in {"release", "clear"} : Go(t, pc)
      BY <1>8 DEF TemplateExists
    <2>2. pc \in Holding \ {"copy"} /\ pc # "publish" /\ pc # "run"
      BY DEF Holding
    <2>3. staging' = staging /\ template' = template /\ lease[t].pc = "seed"
      BY <1>8 DEF TemplateExists, SeedKeeps, At
    <2>4. Quiet => ~lease[t].hurt /\ profile[Name(t)] = Whole
      BY <1>2, <2>3 DEF Sound
    <2> QED  BY <1>2, <1>5, <1>6, <1>7, <2>1, <2>2, <2>3, <2>4
  <1>9. CASE RemoveStaging(t)
    <2>1. template' = template /\ lease[t].pc \in {"clear", "undo"}
      BY <1>9 DEF RemoveStaging, SeedKeeps, At
    <2>2. ASSUME NEW f \in Stage(t) \cap Parts, Staged(t, Stage(t) \ {f}), lease' = lease
          PROVE  ProfilesInvariant'
      <3>1. Stage(t) \ {f} \in Dirs
        BY <1>2, <1>3, <2>2 DEF Dirs
      <3> QED  BY <1>2, <1>5, <2>1, <2>2, <3>1
    <2>3. CASE Staged(t, None) /\ Go(t, "mkdir") /\ At(t, "clear")
      <3>1. "mkdir" \in Holding \ {"copy"} /\ lease[t].pc = "clear"
        BY <2>3 DEF Holding, At
      <3>2. Quiet => ~lease[t].hurt /\ profile[Name(t)] = Whole
        BY <1>2, <3>1 DEF Sound
      <3>3. None \in Dirs
        BY <1>3 DEF None
      <3> QED  BY <1>2, <1>5, <1>7, <2>1, <2>3, <3>1, <3>2, <3>3
    <2>4. CASE Staged(t, None) /\ Go(t, "release")
      <3>1. "release" \in Holding \ {"copy"}
        BY DEF Holding
      <3> QED  BY <1>2, <1>3, <1>5, <1>7, <2>1, <2>4, <3>1 DEF None
    <2> QED  BY <1>9, <2>2, <2>3, <2>4 DEF RemoveStaging
  <1>10. CASE MakeStaging(t)
    <2>1. template' = template /\ lease[t].pc = "mkdir"
      BY <1>10 DEF MakeStaging, SeedKeeps, At
    <2>2. Quiet => ~lease[t].hurt /\ profile[Name(t)] = Whole
      BY <1>2, <2>1 DEF Sound
    <2>3. CASE Staged(t, Empty) /\ lease' = [lease EXCEPT ![t].pc = "copy", ![t].left = Parts]
      <3>1. /\ lease' \in [Threads -> LeaseStates] /\ lease'[t].slot = lease[t].slot
            /\ lease'[t].pc = "copy" /\ lease'[t].left = Parts
            /\ \A u \in Threads : u # t => lease'[u] = lease[u]
        <4>1. PICK r : r = [lease[t] EXCEPT !.pc = "copy", !.left = Parts]
          OBVIOUS
        <4>2. lease[t] \in LeaseStates
          BY <1>2
        <4>3. r \in LeaseStates /\ r.pc = "copy" /\ r.slot = lease[t].slot /\ r.left = Parts
          BY <4>1, <4>2, FieldsKnown DEF LeaseStates
        <4>4. lease' = [lease EXCEPT ![t] = r]
          BY <1>2, <2>3, <4>1, <4>2 DEF LeaseStates
        <4> QED  BY <1>2, <4>3, <4>4, LeaseChanges
      <3>2. Empty \in Dirs /\ Empty = {"."} \cup (Parts \ Parts)
        BY <1>3 DEF Empty
      <3> QED  BY <1>2, <1>5, <2>1, <2>2, <2>3, <3>1, <3>2 DEF Holding
    <2>4. CASE staging' = staging /\ Go(t, "undo")
      <3>1. "undo" \in Holding \ {"copy"}
        BY DEF Holding
      <3> QED  BY <1>2, <1>5, <1>6, <1>7, <2>1, <2>4, <3>1
    <2> QED  BY <1>10, <2>3, <2>4 DEF MakeStaging
  <1>11. CASE CopyFile(t)
    <2>1. template' = template /\ lease[t].pc = "copy" /\ lease[t].left \subseteq Parts
          /\ (Quiet => profile[Name(t)] = Whole)
      BY <1>2, <1>11 DEF CopyFile, At, ProfilesInvariant, Listed, Sound
    <2>2. PICK f \in lease[t].left, now \in BOOLEAN :
            /\ lease' = [lease EXCEPT ![t].left = @ \ {f}, ![t].hurt = @ \/ now]
            /\ IF f \in profile[Name(t)] /\ Stage(t) # None
               THEN Staged(t, IF now THEN Stage(t) ELSE Stage(t) \cup {f})
               ELSE (Stage(t) = None => now) /\ staging' = staging
      BY <1>11 DEF CopyFile
    <2>3. PICK hurt \in BOOLEAN : hurt = (lease[t].hurt \/ now)
      BY <1>2 DEF LeaseStates, Flags
    <2>4. /\ lease' \in [Threads -> LeaseStates] /\ lease'[t].slot = lease[t].slot
          /\ lease'[t].pc = "copy" /\ lease'[t].left = lease[t].left \ {f}
          /\ lease'[t].left \subseteq Parts /\ lease'[t].hurt = hurt
          /\ \A u \in Threads : u # t => lease'[u] = lease[u]
      <3>1. lease[t].left \ {f} \in SUBSET Parts
        BY <2>1
      <3>2. PICK r : r = [lease[t] EXCEPT !.left = lease[t].left \ {f}, !.hurt = hurt]
        OBVIOUS
      <3>3. lease[t] \in LeaseStates
        BY <1>2
      <3>4. /\ r \in LeaseStates /\ r.pc = "copy" /\ r.slot = lease[t].slot
            /\ r.left = lease[t].left \ {f} /\ r.hurt = hurt
        BY <2>1, <2>3, <3>1, <3>2, <3>3, FieldsKnown DEF LeaseStates, Flags
      <3>5. lease' = [lease EXCEPT ![t] = r]
        BY <1>2, <2>2, <2>3, <3>2, <3>3 DEF LeaseStates
      <3> QED  BY <1>2, <3>1, <3>4, <3>5, LeaseChanges
    <2>5. "copy" \in Holding
      BY DEF Holding
    <2>6. ~hurt => ~lease[t].hurt /\ ~now
      BY <2>3
    <2>7. Quiet /\ ~lease[t].hurt => Stage(t) = {"."} \cup (Parts \ lease[t].left)
      BY <1>2, <2>1 DEF Sound
    <2>8. CASE staging' = staging /\ (Quiet => hurt)
      BY <1>2, <1>5, <1>6, <2>1, <2>4, <2>5, <2>8
    <2>9. CASE Staged(t, Stage(t) \cup {f}) /\ Stage(t) # None
      <3>1. Stage(t) \cup {f} \in Dirs
        BY <1>2, <2>1, <2>9 DEF Dirs, None
      <3>2. Quiet /\ ~hurt => Stage(t) \cup {f} = {"."} \cup (Parts \ (lease[t].left \ {f}))
        BY <2>1, <2>6, <2>7
      <3> QED  BY <1>2, <1>5, <2>1, <2>4, <2>5, <2>9, <3>1, <3>2
    <2>10. CASE Staged(t, Stage(t)) /\ hurt
      BY <1>6, <2>8, <2>10
    <2>11. Quiet /\ ~(f \in profile[Name(t)] /\ Stage(t) # None) /\ (Stage(t) = None => now)
             => hurt
      <3>1. f \in Whole
        BY <2>1 DEF Whole
      <3>2. {"."} \cup (Parts \ lease[t].left) # None
        BY DEF None
      <3> QED  BY <2>1, <2>3, <3>1
    <2> QED  BY <2>2, <2>3, <2>8, <2>9, <2>10, <2>11
  <1>12. CASE EndCopy(t)
    <2>1. template' = template /\ staging' = staging /\ lease[t].pc = "copy" /\ lease[t].left = {}
      BY <1>12 DEF EndCopy, SeedKeeps, At
    <2>2. PICK pc \in {"undo", "publish"} : Go(t, pc) /\ (pc = "publish" => ~lease[t].hurt)
      BY <1>12 DEF EndCopy
    <2>3. pc \in Holding \ {"copy"}
      BY DEF Holding
    <2>4. Quiet /\ pc = "publish" => Stage(t) = Whole
      BY <1>2, <2>1, <2>2 DEF Sound, Whole
    <2> QED  BY <1>2, <1>5, <1>6, <1>7, <2>1, <2>2, <2>3, <2>4
  <1>13. CASE PublishTemplate(t)
    <2>1. lease[t].pc = "publish" /\ "release" \in Holding \ {"copy"} /\ "undo" \in Holding \ {"copy"}
      BY <1>13 DEF PublishTemplate, At, Holding
    <2>2. Quiet => Stage(t) = Whole
      BY <1>2, <2>1 DEF Sound
    <2>3. CASE template' = Stage(t) /\ Staged(t, None) /\ Go(t, "release")
      BY <1>2, <1>3, <1>5, <1>7, <2>1, <2>2, <2>3 DEF None
    <2>4. CASE Go(t, "undo") /\ UNCHANGED <<template, staging>>
      BY <1>2, <1>5, <1>6, <1>7, <2>1, <2>4
    <2> QED  BY <1>13, <2>3, <2>4 DEF PublishTemplate
  <1> QED  BY <1>8, <1>9, <1>10, <1>11, <1>12, <1>13

LEMMA WorldMoves ==
  ASSUME ProfilesInvariant,
         (\E n \in Names : Age(n)) \/ \E p \in Processes : Die(p)
  PROVE  ProfilesInvariant'
  <1>1. /\ UNCHANGED <<crew, profile, raided, template, staging, slotLock, started, lease, leases>>
        /\ dead \subseteq dead'
        /\ aged' \in SUBSET Names /\ dead' \in SUBSET Processes
        /\ mishaps' \in 0..MaxProfileUpsets
    <2>1. /\ mishaps \in 0..MaxProfileUpsets /\ MaxProfileUpsets \in Nat
          /\ aged \in SUBSET Names /\ dead \in SUBSET Processes
      BY ProfilesAssumption, LeaseTyped DEF ProfilesInvariant
    <2> QED  BY <2>1, MishapsBounded DEF Age, Die, Disks
  <1>2. ProfilesTypeOK'
    BY <1>1 DEF ProfilesInvariant, ProfilesTypeOK
  <1>3. Locked' /\ Listed'
    BY <1>1 DEF ProfilesInvariant, Locked, Listed, Name
  <1>4. Seeded'
    <2> SUFFICES ASSUME Quiet PROVE InOrder'
      BY <1>1 DEF Seeded, Quiet, Alone
    <2>1. InOrder
      BY DEF ProfilesInvariant, Seeded
    <2>2. \A t \in crew : Sound(t) => Sound(t)'
      BY <1>1 DEF Sound, Name, Stage, Empty, Whole
    <2> QED  BY <1>1, <2>1, <2>2 DEF InOrder, Sane, None, Empty, Whole
  <1> QED  BY <1>2, <1>3, <1>4 DEF ProfilesInvariant

LEMMA ProfilesSteps ==
  ASSUME ProfilesInvariant, [ProfilesNext]_profileVars
  PROVE  ProfilesInvariant'
  <1>1. CASE UNCHANGED profileVars
    BY <1>1 DEF profileVars, ProfilesInvariant, ProfilesTypeOK, Locked, Listed, Seeded, Name,
                Quiet, Alone, InOrder, Sound, Stage, Sane, None, Empty, Whole
  <1> QED  BY <1>1, LeaseBegins, Purges, Picks, LocksMove, Converts, Seeds, WorldMoves
           DEF ProfilesNext, LeaseStep

LEMMA ProfilesHold == ProfilesSpec => []ProfilesInvariant
  BY ProfilesStart, ProfilesSteps, PTL DEF ProfilesSpec

\* Two soffice processes never run on one profile, for any number of processes,
\* threads and slots, whichever of them die.
THEOREM SofficeProfilesAreExclusive == ProfilesSpec => []ProfilesAreExclusive
  <1>1. ProfilesInvariant => ProfilesAreExclusive
    <2> SUFFICES ASSUME ProfilesInvariant, NEW t \in Threads, NEW u \in Threads,
                        At(t, "run"), At(u, "run"), Name(t) = Name(u)
                 PROVE  t = u
      BY DEF ProfilesAreExclusive
    <2>1. slotLock[Name(t)] = {t} /\ slotLock[Name(u)] = {u}
      BY DEF ProfilesInvariant, Locked, At, Holding
    <2> QED  BY <2>1
  <1> QED  BY <1>1, ProfilesHold, PTL

\* Processes with one converting thread each publish the template whole or not
\* at all, whichever copies fail and whenever a process dies, as long as no purge
\* by age takes the profile of a living process (utils/office.py,
\* _seed_template).
THEOREM TemplatesAreWhole == ProfilesSpec => []TemplateIsWhole
  <1>1. ProfilesInvariant => TemplateIsWhole
    BY DEF ProfilesInvariant, Seeded, Quiet, Alone, InOrder, TemplateIsWhole
  <1> QED  BY <1>1, ProfilesHold, PTL
=============================================================================
