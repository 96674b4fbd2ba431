------------------------- MODULE JobLifecycleProofs -------------------------
(***************************************************************************)
(* Theorems about JobLifecycle, for any number of jobs, workers, outputs   *)
(* and upsets of every kind.                                                *)
(***************************************************************************)
EXTENDS JobLifecycle, TLAPS

\* What a worker's copy of the row is known to be at each place of the run:
\* "processing" from the claim to the outcome.
WorkerOK(s) ==
  /\ s \in WorkerStates
  /\ s.pc # "idle" \/ s.unacked => s.job \in Jobs
  /\ s.pc \in {"claimed", "running", "registering"}
       => s.view.status = "processing"
  /\ s.pc = "registering" => s.made \in 1..MaxOutputs
  /\ s.staged <= s.made
  /\ s.pc \in {"received", "loaded", "claimed", "running"} => s.staged = 0

Typing ==
  /\ TypeOK
  /\ \A w \in Workers : WorkerOK(worker[w])
  /\ admin.pc # "idle" => admin.job \in Jobs

-----------------------------------------------------------------------------
(* Rows: what a commit can leave in the table.                              *)

\* Columns a session left as it loaded them keep their stored value.
LEMMA WrittenTyped ==
  ASSUME NEW stored \in Rows, NEW loaded \in Rows, NEW copy \in Rows
  PROVE  Written(stored, loaded, copy) \in Rows
  BY DEF Written, Dirty, Rows

LEMMA FullTyped == Full \in Nat /\ 0..Full \subseteq Int /\ Ceiling \in 0..Full
  BY ConstantsAssumption DEF Full

LEMMA NoRowTyped == NoRow \in Rows
  BY FullTyped, ConstantsAssumption DEF NoRow, Rows, Statuses, Errors, Full

\* The copies the code builds from a loaded row are rows again.
LEMMA CopiesTyped ==
  ASSUME NEW r \in Rows
  PROVE  /\ MarkProcessing(r) \in Rows
         /\ \A p \in 1..Ceiling : SetProgress(r, p) \in Rows
         /\ MarkCompleted(r) \in Rows
         /\ \A code \in Errors : MarkFailed(r, code) \in Rows
         /\ Cancelled(r) \in Rows
         /\ Requeued(r) \in Rows
         /\ Redacted(r) \in Rows
<1> USE DEF Rows, Statuses, Errors
<1>0. /\ Full \in Nat /\ Ceiling \in Nat
      /\ 0 \in 0..Full /\ Full \in 0..Full
  BY FullTyped, ConstantsAssumption DEF Full
<1>1. MarkProcessing(r) \in Rows
  BY <1>0 DEF MarkProcessing
<1>2. ASSUME NEW p \in 1..Ceiling
      PROVE  SetProgress(r, p) \in Rows
  <2>1. p \in 0..Full /\ Full \in 0..Full
    BY <1>0 DEF Full
  <2> QED
    BY <2>1 DEF SetProgress
<1>3. MarkCompleted(r) \in Rows
  BY <1>0 DEF MarkCompleted
<1>4. \A code \in Errors : MarkFailed(r, code) \in Rows
  BY DEF MarkFailed
<1>5. Cancelled(r) \in Rows
  BY DEF Cancelled
<1>6. Requeued(r) \in Rows
  BY <1>0 DEF Requeued
<1>7. Redacted(r) \in Rows
  BY DEF Redacted
<1> QED
  BY <1>1, <1>2, <1>3, <1>4, <1>5, <1>6, <1>7

-----------------------------------------------------------------------------
(* Typing is inductive.                                                     *)

LEMMA WorkerMoves ==
  ASSUME Typing, NEW w \in Workers, NEW s, WorkerOK(s),
         worker' = [worker EXCEPT ![w] = s]
  PROVE  /\ worker' \in [Workers -> WorkerStates]
         /\ \A v \in Workers : WorkerOK(worker'[v])
  BY DEF Typing, TypeOK, WorkerOK

LEMMA IdleOK == WorkerOK(Idle)
  BY ConstantsAssumption, FullTyped
  DEF WorkerOK, Idle, WorkerStates, WorkerPCs, NoRow, Rows, Statuses,
      Errors

LEMMA InitTyping == Init => Typing
  <1> SUFFICES ASSUME Init PROVE Typing
    OBVIOUS
  <1>2. TypeOK
    BY NoRowTyped, IdleOK, ConstantsAssumption
    DEF Init, TypeOK, WorkerOK, ApiStates, AdminStates, AdminIdle
  <1> QED
    BY <1>2, IdleOK DEF Init, Typing, AdminIdle

LEMMA UpsetsTyped ==
  ASSUME Typing, Calm \/ \E kind \in AllUpsets : Upset(kind)
  PROVE  upsets' \in 0..MaxUpsets
  BY ConstantsAssumption DEF Typing, TypeOK, Calm, Upset

LEMMA ApiTyping ==
  ASSUME Typing, NEW j \in Jobs,
         Create(j) \/ ApiStep(j) \/ DispatchRaises(j) \/ ApiCrash(j)
  PROVE  Typing'
<1>0. worker' = worker /\ admin' = admin
  BY DEF Create, ApiStep, Dispatch, Refresh, RejectDispatch,
     DispatchRaises, ApiCrash
<1> USE NoRowTyped DEF Typing, TypeOK, ApiStates, Calm, Upset
<1>1. CASE Create(j)
  <2>1. Created(j) \in Rows
    BY FullTyped, ConstantsAssumption
    DEF Created, Rows, Statuses, Errors, Full
  <2> QED
    BY <1>0, <1>1, <2>1 DEF Create
<1>2. CASE Dispatch(j)
  BY <1>0, <1>2 DEF Dispatch
<1>3. CASE Refresh(j)
  BY <1>0, <1>3 DEF Refresh
<1>4. CASE RejectDispatch(j)
  <2>1. api[j].view \in Rows /\ "unavailable" \in Errors
    BY DEF Errors
  <2>2. MarkFailed(api[j].view, "unavailable") \in Rows
    BY <2>1, FullTyped DEF MarkFailed, Rows, Statuses
  <2>3. Written(row[j], api[j].view, MarkFailed(api[j].view, "unavailable"))
          \in Rows
    BY <2>1, <2>2 DEF Written, Dirty, Rows
  <2> QED
    BY <1>0, <1>4, <2>3 DEF RejectDispatch
<1>5. CASE DispatchRaises(j)
  <2>1. upsets' \in 0..MaxUpsets
    BY <1>5, UpsetsTyped DEF DispatchRaises, AllUpsets
  <2> QED
    BY <1>0, <1>5, <2>1 DEF DispatchRaises
<1>6. CASE ApiCrash(j)
  BY <1>0, <1>6, ConstantsAssumption DEF ApiCrash
<1> QED
  BY <1>1, <1>2, <1>3, <1>4, <1>5, <1>6 DEF ApiStep

LEMMA EnvironmentTyping ==
  ASSUME Typing,
         \/ AdminCommit \/ CleanerStep
         \/ \E j \in Jobs : AdminRead(j) \/ Elapse(j) \/ InputsRemoved(j)
  PROVE  Typing'
<1>0. worker' = worker
  BY DEF AdminCommit, CleanerStep, CleanerSelect, CleanerCommit, AdminRead,
     Elapse, InputsRemoved
<1> USE NoRowTyped DEF Typing, TypeOK, AdminStates, Calm, Upset
<1>1. CASE AdminCommit
  <2>1. admin.view \in Rows /\ admin.job \in Jobs
    BY <1>1 DEF AdminCommit
  <2>2. Cancelled(admin.view) \in Rows /\ Requeued(admin.view) \in Rows
    <3>1. "none" \in Errors
      BY DEF Errors
    <3>2. 0 \in 0..Full
      BY FullTyped
    <3> QED
      BY <2>1, <3>1, <3>2 DEF Cancelled, Requeued, Rows, Statuses
  <2>3. /\ Written(row[admin.job], admin.view, Cancelled(admin.view)) \in Rows
        /\ Written(row[admin.job], admin.view, Requeued(admin.view)) \in Rows
    BY <2>1, <2>2 DEF Written, Dirty, Rows
  <2> QED
    BY <1>0, <1>1, <2>1, <2>3 DEF AdminCommit, AdminIdle
<1>2. CASE CleanerStep
  <2>1. \A j \in Jobs : [row[j] EXCEPT !.status = "expired"] \in Rows
    BY DEF Rows, Statuses
  <2> QED
    BY <1>0, <1>2, <2>1 DEF CleanerStep, CleanerSelect, CleanerCommit
<1>3. ASSUME NEW j \in Jobs, AdminRead(j) \/ Elapse(j) \/ InputsRemoved(j)
      PROVE  Typing'
  <2>1. upsets' \in 0..MaxUpsets
    BY <1>3, UpsetsTyped
    DEF AdminRead, Elapse, InputsRemoved, AllUpsets, Upset, Calm
  <2>2. CASE AdminRead(j)
    <3>1. /\ admin' \in AdminStates /\ admin'.job = j
      BY <2>2 DEF AdminRead
    <3> QED
      BY <1>0, <2>1, <2>2, <3>1 DEF AdminRead
  <2>3. CASE Elapse(j) \/ InputsRemoved(j)
    BY <1>0, <2>1, <2>3 DEF Elapse, InputsRemoved
  <2> QED
    BY <1>3, <2>2, <2>3
<1> QED
  BY <1>1, <1>2, <1>3

\* A worker step that leaves the tables alone: only its own state is at stake.
LEMMA LocalTyping ==
  ASSUME Typing, NEW w \in Workers, NEW s, WorkerOK(s),
         worker' = [worker EXCEPT ![w] = s],
         UNCHANGED <<row, outputs, runs, Others>>,
         queue' \in [Jobs -> Nat], upsets' \in 0..MaxUpsets
  PROVE  Typing'
  BY WorkerMoves DEF Typing, TypeOK, Others
\* A worker step that commits the row and perhaps OUTPUT links.
LEMMA CommitTyping ==
  ASSUME Typing, NEW w \in Workers, NEW s, WorkerOK(s), NEW j \in Jobs,
         NEW r \in Rows, NEW os \in SUBSET Output,
         worker' = [worker EXCEPT ![w] = s],
         row' = [row EXCEPT ![j] = r],
         outputs' = [outputs EXCEPT ![j] = os],
         runs' \in [Jobs -> Nat], UNCHANGED <<queue, Others>>, Calm
  PROVE  Typing'
  BY WorkerMoves DEF Typing, TypeOK, Others, Calm

LEMMA FlushedTyped ==
  ASSUME Typing, NEW w \in Workers
  PROVE  Flushed(w) \subseteq Output
<1>1. /\ worker[w].run \in Nat /\ worker[w].made \in 0..MaxOutputs
      /\ worker[w].staged \in 0..MaxOutputs
      /\ worker[w].staged <= worker[w].made
  BY DEF Typing, WorkerOK, WorkerStates
<1>2. \A p \in 1..worker[w].staged :
        p \in 1..MaxOutputs /\ worker[w].made \in 1..MaxOutputs
  BY <1>1, ConstantsAssumption
<1> QED
  BY <1>1, <1>2 DEF Flushed, Output

LEMMA WorkerTyping ==
  ASSUME Typing, NEW w \in Workers, WorkerStep(w)
  PROVE  Typing'
<1> DEFINE me == worker[w]
           j  == worker[w].job
<1>0. /\ WorkerOK(me) /\ upsets' \in 0..MaxUpsets
      /\ row \in [Jobs -> Rows] /\ outputs \in [Jobs -> SUBSET Output]
      /\ runs \in [Jobs -> Nat] /\ queue \in [Jobs -> Nat]
      /\ worker \in [Workers -> WorkerStates]
  BY UpsetsTyped
  DEF Typing, TypeOK, Calm, WorkerStep, Receive, Run, Load, Claim, Resolve,
      ReportProgress, Produce, ProcessorRaises, Register, RegisterRaises,
      Complete, Fail, Redact, Ack
<1>1. ASSUME NEW k \in Jobs, Receive(w, k)
      PROVE  Typing'
  <2> DEFINE s == [Idle EXCEPT !.pc = "received", !.job = k, !.unacked = TRUE]
  <2>1. WorkerOK(s)
    BY IdleOK DEF WorkerOK, WorkerStates, WorkerPCs, Idle
  <2>2. queue' \in [Jobs -> Nat]
    BY <1>0, <1>1 DEF Receive
  <2> QED
    BY <1>0, <1>1, <2>1, <2>2, LocalTyping DEF Receive
<1>2. CASE Load(w)
  <2> DEFINE s == [me EXCEPT !.pc = "loaded", !.view = row[j]]
  <2>1. WorkerOK(s)
    BY <1>0, <1>2 DEF Load, At, WorkerOK, WorkerStates, WorkerPCs
  <2> QED
    BY <1>0, <1>2, <2>1, IdleOK, LocalTyping DEF Load
<1>3. CASE Claim(w)
  <2> DEFINE copy == MarkProcessing(me.view)
             s == [me EXCEPT !.pc = "claimed", !.view = copy,
                             !.run = runs[j] + 1]
  <2>1. /\ me.view \in Rows /\ j \in Jobs
        /\ copy \in Rows /\ copy.status = "processing"
    BY <1>0, <1>3, CopiesTyped
    DEF Claim, At, WorkerOK, WorkerStates, MarkProcessing, Rows
  <2>2. /\ worker' = [worker EXCEPT ![w] = s]
        /\ row' = [row EXCEPT ![j] = Written(row[j], me.view, copy)]
        /\ outputs' = [outputs EXCEPT ![j] = outputs[j]]
        /\ runs' = [runs EXCEPT ![j] = runs[j] + 1]
        /\ UNCHANGED <<queue, Others>> /\ Calm
    BY <1>0, <1>3, <2>1 DEF Claim
  <2> HIDE DEF copy
  <2>3. WorkerOK(s)
    <3>1. runs[j] + 1 \in Nat /\ me \in WorkerStates
      BY <1>0, <2>1 DEF WorkerOK
    <3>2. s \in WorkerStates
      BY <2>1, <3>1 DEF WorkerStates, WorkerPCs
    <3>3. /\ s.pc = "claimed" /\ s.job = j /\ s.view = copy
          /\ s.staged = me.staged /\ s.made = me.made
      BY <3>1 DEF WorkerStates
    <3> QED
      BY <1>0, <1>3, <2>1, <3>2, <3>3 DEF WorkerOK, Claim, At
  <2>4. Written(row[j], me.view, copy) \in Rows
    BY <1>0, <2>1 DEF Written, Dirty, Rows
  <2>5. runs' \in [Jobs -> Nat] /\ outputs[j] \in SUBSET Output
    BY <1>0, <2>1, <2>2
  <2> HIDE DEF s
  <2> QED
    BY <2>1, <2>2, <2>3, <2>4, <2>5, CommitTyping
<1>4. CASE Resolve(w)
  <2> DEFINE s1 == [me EXCEPT !.pc = "running"]
             s2 == [me EXCEPT !.pc = "failing", !.code = "input_expired"]
  <2>1. WorkerOK(s1) /\ WorkerOK(s2)
    BY <1>0, <1>4 DEF Resolve, At, WorkerOK, WorkerStates, WorkerPCs, Errors
  <2>2. \/ worker' = [worker EXCEPT ![w] = s1]
        \/ worker' = [worker EXCEPT ![w] = s2]
    BY <1>0, <1>4 DEF Resolve
  <2> QED
    BY <1>0, <1>4, <2>1, <2>2, LocalTyping DEF Resolve
<1>5. ASSUME NEW p \in 1..Ceiling, ReportProgress(w, p)
      PROVE  Typing'
  <2> DEFINE copy == SetProgress(me.view, p)
             s == [me EXCEPT !.view = copy]
  <2>1. /\ me.view \in Rows /\ j \in Jobs /\ me.pc = "running"
        /\ copy \in Rows /\ copy.status = "processing"
    BY <1>0, <1>5, CopiesTyped
    DEF ReportProgress, At, WorkerOK, WorkerStates, SetProgress, Rows
  <2>2. /\ worker' = [worker EXCEPT ![w] = s]
        /\ row' = [row EXCEPT ![j] = Written(row[j], me.view, copy)]
        /\ outputs' = [outputs EXCEPT ![j] = outputs[j]]
        /\ UNCHANGED <<runs, queue, Others>> /\ Calm
    BY <1>0, <1>5, <2>1 DEF ReportProgress
  <2> HIDE DEF copy
  <2>3. WorkerOK(s)
    BY <1>0, <2>1 DEF WorkerOK, WorkerStates
  <2>4. Written(row[j], me.view, copy) \in Rows
    BY <1>0, <2>1 DEF Written, Dirty, Rows
  <2>5. runs' \in [Jobs -> Nat] /\ outputs[j] \in SUBSET Output
    BY <1>0, <2>1, <2>2
  <2> HIDE DEF s
  <2> QED
    BY <2>1, <2>2, <2>3, <2>4, <2>5, CommitTyping
<1>6. ASSUME NEW n \in 1..MaxOutputs, Produce(w, n)
      PROVE  Typing'
  <2> DEFINE s == [me EXCEPT !.pc = "registering", !.made = n]
  <2>1. n \in 0..MaxOutputs /\ 0 <= n
    BY ConstantsAssumption
  <2>2. WorkerOK(s)
    <3>1. s \in WorkerStates
      BY <1>0, <2>1 DEF WorkerOK, WorkerStates, WorkerPCs
    <3>2. /\ s.pc = "registering" /\ s.made = n
          /\ s.job = j /\ s.view = me.view /\ s.staged = 0
      BY <1>0, <1>6 DEF Produce, At, WorkerOK, WorkerStates
    <3> QED
      BY <1>0, <1>6, <2>1, <3>1, <3>2 DEF Produce, At, WorkerOK
  <2> QED
    BY <1>0, <1>6, <2>2, LocalTyping DEF Produce
<1>7. CASE ProcessorRaises(w)
  <2>1. PICK code \in {"processing", "internal"} :
          worker' = [worker EXCEPT ![w].pc = "failing", ![w].code = code]
    BY <1>7 DEF ProcessorRaises
  <2> DEFINE s == [me EXCEPT !.pc = "failing", !.code = code]
  <2>2. WorkerOK(s)
    BY <1>0, <1>7
    DEF ProcessorRaises, At, WorkerOK, WorkerStates, WorkerPCs, Errors
  <2>3. worker' = [worker EXCEPT ![w] = s]
    BY <1>0, <2>1
  <2> QED
    BY <1>0, <1>7, <2>2, <2>3, LocalTyping DEF ProcessorRaises
<1>8. CASE Register(w)
  <2> DEFINE s == [me EXCEPT !.staged = me.staged + 1]
  <2>1. me.staged + 1 \in 0..MaxOutputs /\ me.staged + 1 <= me.made
    BY <1>0, <1>8, ConstantsAssumption DEF Register, WorkerOK, WorkerStates
  <2>2. WorkerOK(s)
    <3>1. s \in WorkerStates
      BY <1>0, <2>1 DEF WorkerOK, WorkerStates
    <3>2. /\ s.pc = "registering" /\ s.staged = me.staged + 1
          /\ s.job = j /\ s.view = me.view /\ s.made = me.made
      BY <1>0, <1>8 DEF Register, At, WorkerOK, WorkerStates
    <3> QED
      BY <1>0, <1>8, <2>1, <3>1, <3>2 DEF Register, At, WorkerOK
  <2> QED
    BY <1>0, <1>8, <2>2, LocalTyping DEF Register
<1>9. CASE RegisterRaises(w)
  <2> DEFINE s == [me EXCEPT !.pc = "failing", !.code = "internal"]
  <2>1. WorkerOK(s)
    BY <1>0, <1>9
    DEF RegisterRaises, At, WorkerOK, WorkerStates, WorkerPCs, Errors
  <2> QED
    BY <1>0, <1>9, <2>1, LocalTyping DEF RegisterRaises
<1>10. CASE Complete(w)
  <2> DEFINE copy == MarkCompleted(me.view)
             s == [me EXCEPT !.pc = "finally", !.view = copy]
             os == outputs[j] \cup Flushed(w)
  <2>1. /\ me.view \in Rows /\ j \in Jobs
        /\ copy \in Rows
    BY <1>0, <1>10, CopiesTyped DEF Complete, At, WorkerOK, WorkerStates
  <2>2. /\ worker' = [worker EXCEPT ![w] = s]
        /\ row' = [row EXCEPT ![j] = Written(row[j], me.view, copy)]
        /\ outputs' = [outputs EXCEPT ![j] = os]
        /\ UNCHANGED <<runs, queue, Others>> /\ Calm
    BY <1>0, <1>10, <2>1 DEF Complete
  <2> HIDE DEF copy
  <2>3. WorkerOK(s)
    BY <1>0, <2>1 DEF WorkerOK, WorkerStates, WorkerPCs
  <2>4. Written(row[j], me.view, copy) \in Rows
    BY <1>0, <2>1 DEF Written, Dirty, Rows
  <2>5. runs' \in [Jobs -> Nat] /\ os \in SUBSET Output
    BY <1>0, <2>1, <2>2, FlushedTyped
  <2> HIDE DEF s, os
  <2> QED
    BY <2>1, <2>2, <2>3, <2>4, <2>5, CommitTyping
<1>11. CASE Fail(w)
  <2> DEFINE copy == MarkFailed(me.view, me.code)
             s == [me EXCEPT !.pc = "finally", !.view = copy]
             os == outputs[j] \cup Flushed(w)
  <2>1. me.view \in Rows /\ j \in Jobs /\ me.code \in Errors
    BY <1>0, <1>11 DEF Fail, At, WorkerOK, WorkerStates
  <2>2. /\ worker' = [worker EXCEPT ![w] = s]
        /\ row' = [row EXCEPT ![j] = Written(row[j], me.view, copy)]
        /\ outputs' = [outputs EXCEPT ![j] = os]
        /\ UNCHANGED <<runs, queue, Others>> /\ Calm
    BY <1>0, <1>11, <2>1 DEF Fail
  <2>3. copy \in Rows
    BY <2>1, CopiesTyped
  <2> HIDE DEF copy
  <2>4. WorkerOK(s)
    BY <1>0, <2>1, <2>3 DEF WorkerOK, WorkerStates, WorkerPCs
  <2>5. Written(row[j], me.view, copy) \in Rows
    BY <1>0, <2>1, <2>3, WrittenTyped
  <2>6. runs' \in [Jobs -> Nat] /\ os \in SUBSET Output
    BY <1>0, <2>1, <2>2, FlushedTyped
  <2> HIDE DEF s, os
  <2> QED
    BY <2>1, <2>2, <2>4, <2>5, <2>6, CommitTyping
<1>12. CASE Redact(w)
  <2> DEFINE copy == Redacted(me.view)
             s == [me EXCEPT !.pc = "published", !.view = copy]
  <2>1. me.view \in Rows /\ j \in Jobs
    BY <1>0, <1>12 DEF Redact, At, WorkerOK, WorkerStates
  <2>2. /\ worker' = [worker EXCEPT ![w] = s]
        /\ row' = [row EXCEPT ![j] = Written(row[j], me.view, copy)]
        /\ outputs' = [outputs EXCEPT ![j] = outputs[j]]
        /\ UNCHANGED <<runs, queue, Others>> /\ Calm
    BY <1>0, <1>12, <2>1 DEF Redact
  <2>3. copy \in Rows
    BY <2>1, CopiesTyped
  <2> HIDE DEF copy
  <2>4. WorkerOK(s)
    BY <1>0, <2>1, <2>3 DEF WorkerOK, WorkerStates, WorkerPCs
  <2>5. Written(row[j], me.view, copy) \in Rows
    BY <1>0, <2>1, <2>3, WrittenTyped
  <2>6. runs' \in [Jobs -> Nat] /\ outputs[j] \in SUBSET Output
    BY <1>0, <2>1, <2>2
  <2> HIDE DEF s
  <2> QED
    BY <2>1, <2>2, <2>4, <2>5, <2>6, CommitTyping
<1>13. CASE Ack(w)
  BY <1>0, <1>13, IdleOK, LocalTyping DEF Ack
<1> QED
  BY <1>1, <1>2, <1>3, <1>4, <1>5, <1>6, <1>7, <1>8, <1>9, <1>10, <1>11,
     <1>12, <1>13 DEF WorkerStep, Run

LEMMA UpsetTyping ==
  ASSUME Typing, NEW w \in Workers, WorkerUpset(w)
  PROVE  Typing'
<1> DEFINE me == worker[w]
<1>0. /\ WorkerOK(me) /\ upsets' \in 0..MaxUpsets
      /\ queue \in [Jobs -> Nat] /\ worker \in [Workers -> WorkerStates]
  BY UpsetsTyped
  DEF Typing, TypeOK, WorkerUpset, ClaimFails, FlushFails, CommitFails,
      RedactFails, NodeCrash, ChildKilled, Redeliver, AllUpsets
<1>1. CASE \/ ClaimFails(w) \/ FlushFails(w) \/ CommitFails(w) \/ RedactFails(w)
           \/ ChildKilled(w)
  BY <1>0, <1>1, IdleOK, LocalTyping
  DEF ClaimFails, FlushFails, CommitFails, RedactFails, ChildKilled
<1>2. CASE NodeCrash(w)
  <2>1. me.job \in Jobs /\ Restored(w) \in Nat
    BY <1>0, <1>2 DEF NodeCrash, At, WorkerOK, Restored
  <2>2. queue' \in [Jobs -> Nat]
    BY <1>0, <1>2, <2>1 DEF NodeCrash
  <2> QED
    BY <1>0, <1>2, <2>2, IdleOK, LocalTyping DEF NodeCrash
<1>3. CASE Redeliver(w)
  <2> DEFINE s == [me EXCEPT !.unacked = FALSE]
  <2>1. WorkerOK(s)
    BY <1>0 DEF WorkerOK, WorkerStates
  <2>2. queue' \in [Jobs -> Nat]
    BY <1>0, <1>3 DEF Redeliver, WorkerOK
  <2> QED
    BY <1>0, <1>3, <2>1, <2>2, LocalTyping DEF Redeliver
<1> QED
  BY <1>1, <1>2, <1>3 DEF WorkerUpset

LEMMA NextTyping == Typing /\ [Next]_vars => Typing'
<1> SUFFICES ASSUME Typing, [Next]_vars
             PROVE  Typing'
  OBVIOUS
<1>1. CASE UNCHANGED vars
  BY <1>1 DEF vars, Typing, TypeOK
<1>2. CASE Next
  BY <1>2, ApiTyping, WorkerTyping, UpsetTyping, EnvironmentTyping DEF Next
<1> QED
  BY <1>1, <1>2

\* Every variable keeps its type, in every instance of the system: whatever
\* columns the sessions write from whatever copies, the table holds rows.
THEOREM TypeCorrect == Spec => []TypeOK
<1>1. Typing => TypeOK
  BY DEF Typing
<1> QED
  BY <1>1, InitTyping, NextTyping, PTL DEF Spec

-----------------------------------------------------------------------------
(* What any step does to the row of a job.                                  *)

LEMMA WrittenStatus ==
  ASSUME NEW stored, NEW loaded, NEW copy
  PROVE  /\ Written(stored, loaded, copy).status \in {stored.status, copy.status}
         /\ copy.status = loaded.status
              => Written(stored, loaded, copy).status = stored.status
  BY DEF Written, Dirty

\* Rows do not vanish, links are only added, and no step but the completion
\* of a run turns a job into a completed one.
RowStep(j) ==
  /\ row[j].status # "none" => row'[j].status # "none"
  /\ outputs[j] \subseteq outputs'[j]
  /\ row'[j].status = "completed"
       => \/ row[j].status = "completed"
          \/ \E w \in Workers : Complete(w) /\ worker[w].job = j

LEMMA RowSteps ==
  ASSUME Typing, Next, NEW k \in Jobs
  PROVE  RowStep(k)
<1>0. row \in [Jobs -> Rows] /\ outputs \in [Jobs -> SUBSET Output]
  BY DEF Typing, TypeOK
<1>1. ASSUME NEW j \in Jobs, Create(j) PROVE RowStep(k)
  BY <1>0, <1>1 DEF Create, Created, RowStep
<1>2. ASSUME NEW j \in Jobs, RejectDispatch(j) PROVE RowStep(k)
  <2>1. MarkFailed(api[j].view, "unavailable").status = "failed"
    BY DEF MarkFailed, Typing, TypeOK, ApiStates, Rows
  <2> QED
    BY <1>0, <1>2, <2>1, WrittenStatus DEF RejectDispatch, RowStep
<1>3. ASSUME NEW j \in Jobs,
             \/ Dispatch(j) \/ Refresh(j) \/ DispatchRaises(j) \/ ApiCrash(j)
             \/ AdminRead(j) \/ Elapse(j) \/ InputsRemoved(j)
      PROVE  RowStep(k)
  BY <1>3 DEF Dispatch, Refresh, DispatchRaises, ApiCrash, AdminRead, Elapse,
              InputsRemoved, RowStep
<1>4. CASE AdminCommit
  <2>1. /\ Cancelled(admin.view).status = "cancelled"
        /\ Requeued(admin.view).status = "queued"
    BY DEF Cancelled, Requeued, Typing, TypeOK, AdminStates, Rows
  <2> QED
    BY <1>0, <1>4, <2>1, WrittenStatus DEF AdminCommit, RowStep
<1>5. CASE CleanerStep
  <2>1. [row[k] EXCEPT !.status = "expired"].status = "expired"
    BY <1>0 DEF Rows
  <2> QED
    BY <1>0, <1>5, <2>1
    DEF CleanerStep, CleanerSelect, CleanerCommit, RowStep
<1>6. ASSUME NEW w \in Workers, WorkerUpset(w) PROVE RowStep(k)
  BY <1>6 DEF WorkerUpset, ClaimFails, FlushFails, CommitFails, RedactFails,
     NodeCrash, ChildKilled, Redeliver, RowStep
<1>7. ASSUME NEW w \in Workers, WorkerStep(w) PROVE RowStep(k)
  <2>0. WorkerOK(worker[w]) /\ worker[w].view \in Rows
    BY DEF Typing, WorkerOK, WorkerStates
  <2>1. CASE Claim(w)
    <3>1. MarkProcessing(worker[w].view).status = "processing"
      BY <2>0 DEF MarkProcessing, Rows
    <3> QED
      BY <1>0, <2>1, <3>1, WrittenStatus DEF Claim, RowStep
  <2>2. ASSUME NEW p \in 1..Ceiling, ReportProgress(w, p) PROVE RowStep(k)
    <3>1. SetProgress(worker[w].view, p).status = worker[w].view.status
      BY <2>0 DEF SetProgress, Rows
    <3> QED
      BY <1>0, <2>2, <3>1, WrittenStatus DEF ReportProgress, RowStep
  <2>3. CASE Complete(w)
    <3>1. MarkCompleted(worker[w].view).status = "completed"
      BY <2>0 DEF MarkCompleted, Rows
    <3> DEFINE new == Written(row[worker[w].job], worker[w].view,
                              MarkCompleted(worker[w].view))
    <3>2. /\ row' = [row EXCEPT ![worker[w].job] = new]
          /\ outputs' = [outputs EXCEPT ![worker[w].job] = @ \cup Flushed(w)]
      BY <2>3 DEF Complete
    <3>3. new.status \in {row[worker[w].job].status, "completed"}
      BY <3>1, WrittenStatus
    <3> HIDE DEF new
    <3>4. CASE worker[w].job = k
      <4>1. row'[k].status # "none" \/ row[k].status = "none"
        BY <1>0, <3>2, <3>3, <3>4
      <4>2. outputs[k] \subseteq outputs'[k]
        BY <1>0, <3>2, <3>4
      <4> QED
        BY <2>3, <3>4, <4>1, <4>2 DEF RowStep
    <3>5. CASE worker[w].job # k
      BY <1>0, <3>2, <3>5 DEF RowStep
    <3> QED
      BY <3>4, <3>5
  <2>4. CASE Fail(w)
    <3>1. MarkFailed(worker[w].view, worker[w].code).status = "failed"
      BY <2>0 DEF MarkFailed, Rows
    <3> QED
      BY <1>0, <2>4, <3>1, WrittenStatus DEF Fail, RowStep
  <2>5. CASE Redact(w)
    <3> DEFINE me == worker[w]
               new == Written(row[me.job], me.view, Redacted(me.view))
    <3>1. Redacted(me.view).status = me.view.status
      BY <2>0 DEF Redacted, Rows
    <3>2. new.status = row[me.job].status
      BY <3>1, WrittenStatus
    <3>3. row' = [row EXCEPT ![me.job] = new] /\ outputs' = outputs
      BY <2>5 DEF Redact
    <3>4. me.job \in Jobs
      BY <2>0, <2>5 DEF Redact, At, WorkerOK
    <3> HIDE DEF new
    <3> QED
      BY <1>0, <3>2, <3>3, <3>4 DEF RowStep
  <2>6. CASE \/ \E j \in Jobs : Receive(w, j)
             \/ Load(w) \/ Resolve(w) \/ ProcessorRaises(w) \/ Register(w)
             \/ \E n \in 1..MaxOutputs : Produce(w, n)
             \/ RegisterRaises(w) \/ Ack(w)
    BY <2>6 DEF Receive, Load, Resolve, ProcessorRaises, Register, Produce,
       RegisterRaises, Ack, RowStep
  <2> QED
    BY <1>7, <2>1, <2>2, <2>3, <2>4, <2>5, <2>6 DEF WorkerStep, Run
<1> QED
  BY <1>1, <1>2, <1>3, <1>4, <1>5, <1>6, <1>7 DEF Next, ApiStep

-----------------------------------------------------------------------------
(* Completed jobs have all the files of a run.                              *)

\* The links of one run of k are complete in the set `links`.
Whole(links) == \E o \in links : \A p \in 1..o.of :
                  [run |-> o.run, position |-> p, of |-> o.of] \in links

LEMMA WholeGrows ==
  ASSUME NEW small, NEW large, small \subseteq large, Whole(small)
  PROVE  Whole(large)
  BY DEF Whole

\* The commit of a completion carries every link of the run it ends.
LEMMA CompletionIsWhole ==
  ASSUME Typing, NEW w \in Workers, Complete(w)
  PROVE  Whole(outputs'[worker[w].job])
<1> DEFINE me == worker[w]
           o == [run |-> me.run, position |-> 1, of |-> me.made]
<1>1. /\ me.job \in Jobs /\ me.made \in Nat /\ 1 <= me.made
      /\ me.staged = me.made
  BY DEF Typing, WorkerOK, Complete, At, AllRegistered
<1>2. Flushed(w) \subseteq outputs'[me.job]
  BY <1>1 DEF Complete, Typing, TypeOK
<1>3. \A p \in 1..me.made :
        [run |-> me.run, position |-> p, of |-> me.made] \in Flushed(w)
  BY <1>1 DEF Flushed
<1>4. o \in Flushed(w)
  BY <1>1, <1>3
<1>5. o.of = me.made /\ o.run = me.run
  OBVIOUS
<1> HIDE DEF o, me
<1> QED
  BY <1>2, <1>3, <1>4, <1>5 DEF Whole, me

LEMMA WholeStep ==
  ASSUME Typing, CompletedIsWhole, [Next]_vars
  PROVE  CompletedIsWhole'
<1>1. CASE UNCHANGED vars
  BY <1>1 DEF vars, CompletedIsWhole
<1>2. CASE Next
  <2> SUFFICES ASSUME NEW k \in Jobs, row'[k].status = "completed"
               PROVE  Whole(outputs'[k])
    BY DEF CompletedIsWhole, Whole
  <2>1. RowStep(k)
    BY <1>2, RowSteps
  <2>2. CASE row[k].status = "completed"
    <3>1. Whole(outputs[k])
      BY <2>2 DEF CompletedIsWhole, Whole
    <3> QED
      BY <2>1, <3>1, WholeGrows DEF RowStep
  <2>3. CASE \E w \in Workers : Complete(w) /\ worker[w].job = k
    BY <2>3, CompletionIsWhole
  <2> QED
    BY <2>1, <2>2, <2>3 DEF RowStep
<1> QED
  BY <1>1, <1>2

\* A completed job always has every file of one of its runs, in every
\* instance: _register_outputs flushes, and one commit makes the links and
\* the status visible, so no crash, lost worker or failed commit splits them.
THEOREM CompletedJobsAreWhole == Spec => []CompletedIsWhole
<1>1. Init => CompletedIsWhole
  BY DEF Init, CompletedIsWhole, NoRow
<1>2. Typing /\ CompletedIsWhole /\ [Next]_vars
        => Typing' /\ CompletedIsWhole'
  BY WholeStep, NextTyping
<1> QED
  BY <1>1, <1>2, InitTyping, PTL DEF Spec

-----------------------------------------------------------------------------
(* Whoever works on a job works on one that exists.                         *)

\* Something of the system refers to job j.
Referenced(j) ==
  \/ queue[j] > 0
  \/ \E w \in Workers : worker[w].job = j
  \/ api[j].pc # "idle"

\* MessageHasRow is not inductive: a message is made from what create_job
\* holds, or restored from what a worker holds, so those need a row as well.
ReferencedHasRow == \A j \in Jobs : Referenced(j) => row[j].status # "none"

LEMMA IdleHasNoJob == Idle.job \notin Jobs
  BY ConstantsAssumption DEF Idle

\* References are handed on: only create_job makes the first one.
LEMMA ReferencesComeFrom ==
  ASSUME Typing, Next, NEW k \in Jobs, Referenced(k)'
  PROVE  Referenced(k) \/ Create(k)
<1>0. /\ queue \in [Jobs -> Nat] /\ api \in [Jobs -> ApiStates]
      /\ worker \in [Workers -> WorkerStates]
      /\ \A w \in Workers : WorkerOK(worker[w])
  BY DEF Typing, TypeOK
<1>1. ASSUME NEW j \in Jobs, Create(j) PROVE Referenced(k) \/ Create(k)
  BY <1>0, <1>1 DEF Create, Referenced
<1>2. ASSUME NEW j \in Jobs, ApiStep(j) \/ DispatchRaises(j) \/ ApiCrash(j)
      PROVE  Referenced(k)
  BY <1>0, <1>2 DEF ApiStep, Dispatch, DispatchRaises, Dispatchable, Refresh,
     RejectDispatch, ApiCrash, Referenced
<1>3. ASSUME NEW j \in Jobs, AdminRead(j) \/ Elapse(j) \/ InputsRemoved(j)
      PROVE  Referenced(k)
  BY <1>3 DEF AdminRead, Elapse, InputsRemoved, Referenced
<1>4. CASE AdminCommit \/ CleanerStep
  BY <1>4 DEF AdminCommit, CleanerStep, CleanerSelect, CleanerCommit,
     Referenced
<1>5. ASSUME NEW w \in Workers, WorkerStep(w) PROVE Referenced(k)
  <2>1. ASSUME NEW j \in Jobs, Receive(w, j) PROVE Referenced(k)
    <3>1. [Idle EXCEPT !.pc = "received", !.job = j, !.unacked = TRUE].job = j
      BY DEF Idle
    <3> QED
      BY <1>0, <2>1, <3>1 DEF Receive, Others, Referenced
  <2>2. CASE Run(w)
    <3>1. queue' = queue /\ api' = api
      BY <2>2 DEF Run, Load, Claim, Resolve, ReportProgress, Produce,
         ProcessorRaises, Register, RegisterRaises, Complete, Fail, Redact,
         Ack, Others
    <3>2. \A u \in Workers : worker'[u].job \in {worker[u].job, Idle.job}
      <4>1. CASE Load(w)
        <5>1. PICK v : worker' = [worker EXCEPT ![w] = v]
                       /\ v \in {Idle, [worker[w] EXCEPT !.pc = "loaded",
                                          !.view = row[worker[w].job]]}
          BY <4>1 DEF Load
        <5>2. v.job \in {worker[w].job, Idle.job}
          BY <1>0, <5>1 DEF WorkerStates
        <5> QED
          BY <1>0, <5>1, <5>2
      <4>8. CASE Resolve(w) \/ Ack(w)
        BY <1>0, <4>8 DEF WorkerStates, Resolve, Ack
      <4>2. CASE Claim(w)
        BY <1>0, <4>2 DEF WorkerStates, Claim
      <4>3. ASSUME NEW p \in 1..Ceiling, ReportProgress(w, p)
            PROVE  worker' = [worker EXCEPT ![w].view =
                                SetProgress(worker[w].view, p)]
        BY <4>3 DEF ReportProgress
      <4>4. ASSUME NEW n \in 1..MaxOutputs, Produce(w, n)
            PROVE  worker' = [worker EXCEPT ![w].pc = "registering",
                                            ![w].made = n]
        BY <4>4 DEF Produce
      <4>5. CASE ProcessorRaises(w) \/ Register(w) \/ RegisterRaises(w)
        BY <1>0, <4>5 DEF WorkerStates, ProcessorRaises, Register,
           RegisterRaises
      <4>6. CASE Complete(w) \/ Fail(w)
        BY <1>0, <4>6 DEF WorkerStates, Complete, Fail
      <4>7. CASE Redact(w)
        BY <1>0, <4>7 DEF WorkerStates, Redact
      <4> QED
        BY <1>0, <2>2, <4>1, <4>2, <4>3, <4>4, <4>5, <4>6, <4>7,
           <4>8
        DEF WorkerStates, Run
    <3> QED
      BY <3>1, <3>2, IdleHasNoJob DEF Referenced
  <2> QED
    BY <1>5, <2>1, <2>2 DEF WorkerStep
<1>6. ASSUME NEW w \in Workers, WorkerUpset(w) PROVE Referenced(k)
  <2>1. api' = api
    BY <1>6 DEF WorkerUpset, ClaimFails, FlushFails, CommitFails,
       RedactFails, NodeCrash, ChildKilled, Redeliver, Others
  <2>2. queue' = queue \/ NodeCrash(w) \/ Redeliver(w)
    BY <1>6 DEF WorkerUpset, ClaimFails, FlushFails, CommitFails,
       RedactFails, ChildKilled
  <2>3. queue'[k] > 0 => queue[k] > 0 \/ worker[w].job = k
    BY <1>0, <2>2 DEF NodeCrash, Redeliver
  <2>4. \A u \in Workers : worker'[u].job \in {worker[u].job, Idle.job}
    BY <1>0, <1>6 DEF WorkerStates, WorkerUpset, ClaimFails, FlushFails,
       CommitFails, RedactFails, NodeCrash, ChildKilled,
       Redeliver
  <2> QED
    BY <2>1, <2>3, <2>4, IdleHasNoJob DEF Referenced
<1> QED
  BY <1>1, <1>2, <1>3, <1>4, <1>5, <1>6 DEF Next

LEMMA ReferencedStep ==
  ASSUME Typing, ReferencedHasRow, [Next]_vars
  PROVE  ReferencedHasRow'
<1>1. CASE UNCHANGED vars
  BY <1>1 DEF vars, ReferencedHasRow, Referenced
<1>2. CASE Next
  <2> SUFFICES ASSUME NEW k \in Jobs, Referenced(k)'
               PROVE  row'[k].status # "none"
    BY DEF ReferencedHasRow
  <2>1. CASE Referenced(k)
    BY <1>2, <2>1, RowSteps DEF ReferencedHasRow, RowStep
  <2>2. CASE Create(k)
    BY <2>2 DEF Create, Created, Typing, TypeOK
  <2> QED
    BY <1>2, <2>1, <2>2, ReferencesComeFrom
<1> QED
  BY <1>1, <1>2

\* A message never overtakes the row it names: the row is committed before
\* dispatch and never deleted, so "job_missing" is not an outcome of a run.
THEOREM MessagesHaveRows == Spec => []MessageHasRow
<1>1. Init => ReferencedHasRow
  BY IdleHasNoJob DEF Init, ReferencedHasRow, Referenced
<1>2. Typing /\ ReferencedHasRow /\ [Next]_vars
        => Typing' /\ ReferencedHasRow'
  BY ReferencedStep, NextTyping
<1>3. ReferencedHasRow => MessageHasRow
  BY DEF ReferencedHasRow, Referenced, MessageHasRow
<1> QED
  BY <1>1, <1>2, <1>3, InitTyping, PTL DEF Spec

-----------------------------------------------------------------------------
(***************************************************************************)
(* What a job promises to those who follow it: JobLifecycle implements      *)
(* JobContract, the results of a completed job are those of one run, and no *)
(* job is stranded.  Each is proved for the upsets under which it holds; all *)
(* rest on one fact, that without duplicate deliveries a job is in one pair *)
(* of hands.                                                                *)
(***************************************************************************)

\* The ways of a worker: it takes a message, drops its job, or goes on with it.
Takes(w) ==
  \E k \in Jobs :
    /\ worker[w].pc = "idle" /\ queue[k] > 0
    /\ queue' = [queue EXCEPT ![k] = @ - 1]
    /\ worker'[w].pc = "received" /\ worker'[w].job = k /\ worker'[w].unacked
    /\ UNCHANGED <<row, outputs>>

Drops(w) ==
  /\ worker[w].pc # "idle" /\ worker'[w] = Idle /\ UNCHANGED <<row, outputs>>
  /\ \/ /\ queue' = queue
        /\ \/ /\ worker[w].pc = "received"
              /\ row[worker[w].job].status \in Terminal \cup {"none"}
           \/ worker[w].pc = "published"
           \/ Upsets \cap {"db_commit", "db_flush", "child_killed"} # {}
     \/ queue' = [queue EXCEPT ![worker[w].job] = @ + Restored(w)]

\* What it goes on with: its places before and after, and the row it leaves.
Loads(w, r) ==
  /\ worker[w].pc = "received" /\ worker'[w].pc = "loaded"
  /\ r = row[worker[w].job] /\ r.status \notin Terminal \cup {"none"}
  /\ worker'[w].view.status = r.status

Claims(w, r) ==
  /\ worker[w].pc = "loaded" /\ worker'[w].pc = "claimed"
  /\ r.status = IF worker[w].view.status = "processing"
                THEN row[worker[w].job].status ELSE "processing"

Works(w, r) ==
  /\ r.status = row[worker[w].job].status
  /\ \/ worker[w].pc \in RunPCs /\ worker'[w].pc \in RunPCs
     \/ worker[w].pc = "finally" /\ worker'[w].pc = "published"
     \/ /\ worker[w].pc = "failing" /\ worker'[w].pc = "finally"
        /\ "db_commit" \in Upsets

Ends(w, r) ==
  /\ worker[w].pc \in RunPCs /\ worker'[w].pc = "finally"
  /\ \/ r.status = "failed"
     \/ r.status = "completed" /\ Flushed(w) # {}

Goes(w) ==
  /\ worker[w].pc # "idle" /\ worker'[w].pc # "idle"
  /\ worker'[w].job = worker[w].job /\ worker'[w].unacked = worker[w].unacked
  /\ queue' = queue
  /\ \E r \in Rows :
       /\ row' = [row EXCEPT ![worker[w].job] = r]
       /\ \/ /\ Loads(w, r) \/ Claims(w, r) \/ Works(w, r)
             /\ outputs' = outputs
          \/ /\ Ends(w, r)
             /\ outputs' = [outputs EXCEPT ![worker[w].job] = @ \cup Flushed(w)]

\* Until the outcome is set, a failing run's copy says "processing".
FailingViews ==
  \A w \in Workers :
    worker[w].pc = "failing" => worker[w].view.status = "processing"

-----------------------------------------------------------------------------
(* Every step of a worker is one of these.                                  *)

LEMMA SessionKeepsStatus ==
  ASSUME NEW stored \in Rows, NEW loaded, NEW copy, copy.status = loaded.status
  PROVE  Written(stored, loaded, copy).status = stored.status
  BY DEF Written, Dirty

LEMMA SessionSetsStatus ==
  ASSUME NEW stored, NEW loaded, NEW copy, copy.status # loaded.status
  PROVE  Written(stored, loaded, copy).status = copy.status
  BY DEF Written, Dirty

LEMMA Untouched ==
  ASSUME Typing, NEW j \in Jobs
  PROVE  row[j] \in Rows /\ row = [row EXCEPT ![j] = row[j]]
  BY DEF Typing, TypeOK

LEMMA TakingsAre ==
  ASSUME Typing, NEW w \in Workers, NEW k \in Jobs, Receive(w, k)
  PROVE  Takes(w)
  <1>1. worker'[w] = [Idle EXCEPT !.pc = "received", !.job = k, !.unacked = TRUE]
    BY DEF Receive, Typing, TypeOK
  <1>2. worker'[w].pc = "received" /\ worker'[w].job = k /\ worker'[w].unacked
    BY <1>1 DEF Idle
  <1> QED  BY <1>2 DEF Receive, At, Takes

LEMMA LoadsAre ==
  ASSUME Typing, NEW w \in Workers, Load(w)
  PROVE  Drops(w) \/ Goes(w)
  <1> DEFINE me == worker[w]
             r == row[me.job]
  <1>1. me \in WorkerStates /\ me.pc = "received" /\ me.job \in Jobs
    BY DEF Load, At, Typing, TypeOK, WorkerOK
  <1>2. r \in Rows /\ row' = [row EXCEPT ![me.job] = r] /\ UNCHANGED <<row, outputs, queue>>
    BY <1>1, Untouched DEF Load
  <1>3. CASE r.status \in Terminal \cup {"none"}
    <2>1. worker'[w] = Idle
      BY <1>3 DEF Load, Typing, TypeOK
    <2> QED  BY <1>1, <1>2, <1>3, <2>1 DEF Drops
  <1>4. CASE r.status \notin Terminal \cup {"none"}
    <2>1. worker'[w] = [me EXCEPT !.pc = "loaded", !.view = r]
      BY <1>4 DEF Load, Typing, TypeOK
    <2>2. /\ worker'[w].pc = "loaded" /\ worker'[w].view = r
          /\ worker'[w].job = me.job /\ worker'[w].unacked = me.unacked
      BY <1>1, <2>1 DEF WorkerStates
    <2>3. Loads(w, r)
      BY <1>1, <1>4, <2>2 DEF Loads
    <2> QED  BY <1>1, <1>2, <2>2, <2>3 DEF Goes
  <1> QED  BY <1>3, <1>4

LEMMA ClaimsAre ==
  ASSUME Typing, NEW w \in Workers, Claim(w)
  PROVE  Goes(w)
  <1> DEFINE me == worker[w]
             copy == MarkProcessing(me.view)
             r == Written(row[me.job], me.view, copy)
  <1>1. /\ me \in WorkerStates /\ me.pc = "loaded" /\ me.job \in Jobs /\ me.view \in Rows
        /\ row[me.job] \in Rows
    BY DEF Claim, At, Typing, TypeOK, WorkerOK, WorkerStates
  <1>2. copy.status = "processing" /\ copy \in Rows
    BY <1>1, CopiesTyped DEF MarkProcessing, Rows
  <1>3. worker'[w] = [me EXCEPT !.pc = "claimed", !.view = copy, !.run = runs[me.job] + 1]
    BY <1>1 DEF Claim, Typing, TypeOK, WorkerStates
  <1>4. row' = [row EXCEPT ![me.job] = r] /\ UNCHANGED <<outputs, queue>>
    BY <1>1 DEF Claim, Typing, TypeOK
  <1>5. r.status = IF me.view.status = "processing" THEN row[me.job].status ELSE "processing"
    BY <1>1, <1>2, SessionKeepsStatus, SessionSetsStatus
  <1>6. r \in Rows
    BY <1>1, <1>2 DEF Written, Dirty, Rows
  <1> HIDE DEF copy, r
  <1>7. /\ worker'[w].pc = "claimed"
        /\ worker'[w].job = me.job /\ worker'[w].unacked = me.unacked
    BY <1>1, <1>3 DEF WorkerStates
  <1>8. Claims(w, r)
    BY <1>1, <1>5, <1>7 DEF Claims
  <1> QED  BY <1>1, <1>4, <1>6, <1>7, <1>8 DEF Goes

\* Between the claim and the commit of the outcome nothing is shown.
LEMMA WorkIs ==
  ASSUME Typing, NEW w \in Workers,
         \/ Resolve(w) \/ ProcessorRaises(w) \/ Register(w) \/ RegisterRaises(w)
         \/ \E n \in 1..MaxOutputs : Produce(w, n)
  PROVE  Goes(w)
  <1> DEFINE me == worker[w]
             r == row[me.job]
  <1>1. /\ me \in WorkerStates /\ me.pc \in RunPCs /\ me.job \in Jobs
        /\ me.pc # "idle"
    BY DEF Resolve, ProcessorRaises, Register, RegisterRaises,
           Produce, At, Typing, TypeOK, WorkerOK, RunPCs
  <1>2. r \in Rows /\ row' = [row EXCEPT ![me.job] = r] /\ UNCHANGED <<outputs, queue>>
    BY <1>1, Untouched
    DEF Resolve, ProcessorRaises, Register, RegisterRaises, Produce
  <1>3. worker'[w].job = me.job /\ worker'[w].unacked = me.unacked
    BY <1>1 DEF Resolve, ProcessorRaises, Register, RegisterRaises,
           Produce, Typing, TypeOK, WorkerStates
  <1>4. worker'[w].pc \in RunPCs
    BY <1>1 DEF Resolve, ProcessorRaises, Register, RegisterRaises,
           Produce, Typing, TypeOK, WorkerStates, RunPCs, At
  <1>5. worker'[w].pc # "idle"
    BY <1>4 DEF RunPCs
  <1>6. Works(w, r)
    BY <1>1, <1>4 DEF Works
  <1> QED  BY <1>1, <1>2, <1>3, <1>5, <1>6 DEF Goes

LEMMA ReportsAre ==
  ASSUME Typing, NEW w \in Workers, NEW p \in 1..Ceiling, ReportProgress(w, p)
  PROVE  Goes(w)
  <1> DEFINE me == worker[w]
             copy == SetProgress(me.view, p)
             r == Written(row[me.job], me.view, copy)
  <1>1. /\ me \in WorkerStates /\ me.pc = "running" /\ me.job \in Jobs /\ me.view \in Rows
        /\ row[me.job] \in Rows
    BY DEF ReportProgress, At, Typing, TypeOK, WorkerOK, WorkerStates
  <1>2. copy.status = me.view.status /\ copy \in Rows
    BY <1>1, CopiesTyped DEF SetProgress, Rows
  <1>3. worker'[w] = [me EXCEPT !.view = copy]
    BY <1>1 DEF ReportProgress, Typing, TypeOK, WorkerStates
  <1>4. row' = [row EXCEPT ![me.job] = r] /\ UNCHANGED <<outputs, queue>>
    BY <1>1 DEF ReportProgress, Typing, TypeOK
  <1>5. r.status = row[me.job].status
    BY <1>1, <1>2, SessionKeepsStatus
  <1>6. r \in Rows
    BY <1>1, <1>2 DEF Written, Dirty, Rows
  <1> HIDE DEF copy, r
  <1>7. /\ worker'[w].pc = "running"
        /\ worker'[w].job = me.job /\ worker'[w].unacked = me.unacked
    BY <1>1, <1>3 DEF WorkerStates
  <1>8. Works(w, r)
    BY <1>1, <1>5, <1>7 DEF Works, RunPCs
  <1> QED  BY <1>1, <1>4, <1>6, <1>7, <1>8 DEF Goes

LEMMA EndsAre ==
  ASSUME Typing, FailingViews, NEW w \in Workers, Complete(w) \/ Fail(w)
  PROVE  Goes(w)
  <1> DEFINE me == worker[w]
             copy == IF Complete(w) THEN MarkCompleted(me.view)
                     ELSE MarkFailed(me.view, me.code)
             r == Written(row[me.job], me.view, copy)
  <1>1. /\ me \in WorkerStates /\ me.pc \in RunPCs /\ me.job \in Jobs
        /\ row[me.job] \in Rows /\ me.code \in Errors
    BY DEF Complete, Fail, At, Typing, TypeOK, WorkerOK, WorkerStates, RunPCs
  <1>2. me.view \in Rows /\ me.view.status = "processing"
    BY DEF Complete, Fail, At, Typing, WorkerOK, WorkerStates, FailingViews
  <1>3. copy.status = IF Complete(w) THEN "completed" ELSE "failed"
    BY <1>2 DEF MarkCompleted, MarkFailed, Rows
  <1>4. /\ worker'[w] = [me EXCEPT !.pc = "finally", !.view = copy]
        /\ row' = [row EXCEPT ![me.job] = r] /\ queue' = queue
        /\ outputs' = [outputs EXCEPT ![me.job] = @ \cup Flushed(w)]
    <2>1. CASE Complete(w)
      BY <1>1, <2>1 DEF Complete, Typing, TypeOK, WorkerStates
    <2>2. CASE ~Complete(w)
      BY <1>1, <2>2 DEF Fail, Typing, TypeOK, WorkerStates
    <2> QED  BY <2>1, <2>2
  <1>5. row'[me.job] \in Rows
    <2>1. Typing'
      BY NextTyping DEF Next, WorkerStep, Run
    <2> QED  BY <1>1, <2>1 DEF Typing, TypeOK
  <1>6. row'[me.job] = r
    BY <1>1, <1>4 DEF Typing, TypeOK
  <1>7. r.status = IF Complete(w) THEN "completed" ELSE "failed"
    BY <1>2, <1>3, SessionSetsStatus
  <1>8. Complete(w) => Flushed(w) # {}
    <2>1. Complete(w) => 1 \in 1..me.staged
      BY DEF Complete, At, AllRegistered, Typing, WorkerOK
    <2> QED  BY <2>1 DEF Flushed
  <1> HIDE DEF copy, r
  <1>9. /\ worker'[w].pc = "finally"
        /\ worker'[w].job = me.job /\ worker'[w].unacked = me.unacked
    BY <1>1, <1>4 DEF WorkerStates
  <1>10. Ends(w, r)
    BY <1>1, <1>7, <1>8, <1>9 DEF Ends
  <1>11. me.pc # "idle"
    BY <1>1 DEF RunPCs
  <1> QED  BY <1>4, <1>5, <1>6, <1>9, <1>10, <1>11 DEF Goes

LEMMA RedactionsAre ==
  ASSUME Typing, NEW w \in Workers, Redact(w)
  PROVE  Goes(w)
  <1> DEFINE me == worker[w]
             copy == Redacted(me.view)
             r == Written(row[me.job], me.view, copy)
  <1>1. /\ me \in WorkerStates /\ me.pc = "finally" /\ me.job \in Jobs
        /\ row[me.job] \in Rows /\ me.view \in Rows
    BY DEF Redact, At, Typing, TypeOK, WorkerOK, WorkerStates
  <1>2. copy \in Rows /\ copy.status = me.view.status
    BY <1>1, CopiesTyped DEF Redacted, Rows
  <1>3. worker'[w] = [me EXCEPT !.pc = "published", !.view = copy]
    BY <1>1 DEF Redact, Typing, TypeOK, WorkerStates
  <1>4. row' = [row EXCEPT ![me.job] = r] /\ UNCHANGED <<outputs, queue>>
    BY <1>1 DEF Redact, Typing, TypeOK
  <1>5. r.status = row[me.job].status
    BY <1>1, <1>2, SessionKeepsStatus
  <1>6. r \in Rows
    BY <1>1, <1>2, WrittenTyped
  <1> HIDE DEF copy, r
  <1>7. /\ worker'[w].pc = "published"
        /\ worker'[w].job = me.job /\ worker'[w].unacked = me.unacked
    BY <1>1, <1>3 DEF WorkerStates
  <1>8. Works(w, r)
    BY <1>1, <1>5, <1>7 DEF Works
  <1> QED  BY <1>1, <1>4, <1>6, <1>7, <1>8 DEF Goes

LEMMA DropsAre ==
  ASSUME Typing, NEW w \in Workers,
         Ack(w) \/ ClaimFails(w) \/ FlushFails(w) \/ CommitFails(w)
           \/ RedactFails(w) \/ NodeCrash(w) \/ ChildKilled(w)
  PROVE  Drops(w)
  <1>1. worker[w].pc # "idle" /\ UNCHANGED <<row, outputs>>
    BY DEF Ack, ClaimFails, FlushFails, CommitFails, RedactFails, NodeCrash, ChildKilled, At
  <1>2. worker'[w] = Idle
    BY DEF Ack, ClaimFails, FlushFails, CommitFails, RedactFails, NodeCrash, ChildKilled, Typing, TypeOK
  <1>3. CASE Ack(w)
    BY <1>1, <1>2, <1>3 DEF Drops, Ack, At
  <1>4. CASE \/ ClaimFails(w) \/ FlushFails(w) \/ CommitFails(w) \/ RedactFails(w)
             \/ ChildKilled(w)
    <2>1. queue' = queue /\ Upsets \cap {"db_commit", "db_flush", "child_killed"} # {}
      BY <1>4 DEF ClaimFails, FlushFails, CommitFails, RedactFails, ChildKilled, Upset
    <2> QED  BY <1>1, <1>2, <2>1 DEF Drops
  <1>5. CASE NodeCrash(w)
    BY <1>1, <1>2, <1>5 DEF Drops, NodeCrash
  <1> QED  BY <1>3, <1>4, <1>5

LEMMA WorkersMove ==
  ASSUME Typing, FailingViews, "redeliver" \notin Upsets,
         NEW w \in Workers, WorkerStep(w) \/ WorkerUpset(w)
  PROVE  /\ Takes(w) \/ Drops(w) \/ Goes(w)
         /\ \A v \in Workers : v # w => worker'[v] = worker[v]
         /\ UNCHANGED <<api, admin, cleaner>>
  <1>1. ~Redeliver(w)
    BY DEF Redeliver, Upset
  <1>2. Takes(w) \/ Drops(w) \/ Goes(w)
    BY <1>1, TakingsAre, LoadsAre, ClaimsAre, WorkIs, ReportsAre, EndsAre, RedactionsAre,
       DropsAre DEF WorkerStep, Run, WorkerUpset
  <1>3. (\A v \in Workers : v # w => worker'[v] = worker[v]) /\ UNCHANGED <<api, admin, cleaner>>
    <2>1. \A v \in Workers : v # w => worker'[v] = worker[v]
      BY <1>1 DEF WorkerStep, Run, WorkerUpset, Receive, Load, Claim, Resolve, ReportProgress,
         Produce, ProcessorRaises, Register, RegisterRaises, Complete, Fail, Redact, Ack,
         ClaimFails, FlushFails, CommitFails, RedactFails, NodeCrash,
         ChildKilled, Typing, TypeOK
    <2>2. UNCHANGED <<api, admin, cleaner>>
      BY <1>1 DEF WorkerStep, Run, WorkerUpset, Receive, Load, Claim, Resolve, ReportProgress,
         Produce, ProcessorRaises, Register, RegisterRaises, Complete, Fail, Redact, Ack,
         ClaimFails, FlushFails, CommitFails, RedactFails, NodeCrash,
         ChildKilled, Others
    <2> QED  BY <2>1, <2>2
  <1> QED  BY <1>2, <1>3

LEMMA FailingViewsStay ==
  ASSUME Typing, FailingViews, NEW w \in Workers, WorkerStep(w) \/ WorkerUpset(w)
  PROVE  FailingViews'
  <1>0. /\ \A v \in Workers : worker[v] \in WorkerStates /\ WorkerOK(worker[v])
        /\ worker \in [Workers -> WorkerStates]
    BY DEF Typing, TypeOK
  <1>1. CASE Resolve(w) \/ ProcessorRaises(w) \/ RegisterRaises(w)
    BY <1>0, <1>1 DEF Resolve, ProcessorRaises, RegisterRaises, At, WorkerOK, WorkerStates,
                      FailingViews
  <1>3. CASE \/ Claim(w) \/ Register(w) \/ Redeliver(w)
             \/ Complete(w) \/ Fail(w) \/ Redact(w)
             \/ \E n \in 1..MaxOutputs : Produce(w, n)
             \/ \E p \in 1..Ceiling : ReportProgress(w, p)
    <2>1. \A v \in Workers : v # w => worker'[v] = worker[v]
      BY <1>0, <1>3 DEF Claim, Register, Redeliver, Complete, Fail, Redact,
                        Produce, ReportProgress
    <2>2. CASE Redeliver(w)
      BY <1>0, <2>1, <2>2 DEF Redeliver, WorkerStates, FailingViews
    <2>3. CASE ~Redeliver(w)
      <3>1. worker'[w].pc # "failing"
        BY <1>0, <1>3, <2>3 DEF Claim, Register, Complete, Fail, Redact,
                          Produce, ReportProgress, At, WorkerStates
      <3> QED  BY <2>1, <3>1 DEF FailingViews
    <2> QED  BY <2>2, <2>3
  <1>4. CASE Load(w)
    <2>1. worker'[w].pc \in {"idle", "loaded"}
      BY <1>0, <1>4 DEF Load, Idle, WorkerStates
    <2>2. \A v \in Workers : v # w => worker'[v] = worker[v]
      BY <1>0, <1>4 DEF Load
    <2> QED  BY <1>0, <2>1, <2>2 DEF FailingViews
  <1>5. CASE \/ \E k \in Jobs : Receive(w, k)
             \/ Ack(w) \/ ClaimFails(w) \/ FlushFails(w) \/ CommitFails(w)
             \/ RedactFails(w) \/ NodeCrash(w) \/ ChildKilled(w)
    <2>1. \A v \in Workers : v # w => worker'[v] = worker[v]
      BY <1>0, <1>5 DEF Receive, Ack, ClaimFails, FlushFails, CommitFails, RedactFails, NodeCrash,
                        ChildKilled
    <2>2. CASE \E k \in Jobs : Receive(w, k)
      <3>1. worker'[w].pc = "received"
        BY <1>0, <2>2 DEF Receive, Idle
      <3> QED  BY <2>1, <3>1 DEF FailingViews
    <2>3. CASE \/ Ack(w) \/ ClaimFails(w) \/ FlushFails(w) \/ CommitFails(w)
               \/ RedactFails(w) \/ NodeCrash(w) \/ ChildKilled(w)
      <3>1. worker'[w] = Idle
        BY <1>0, <2>3 DEF Ack, ClaimFails, FlushFails, CommitFails, RedactFails, NodeCrash, ChildKilled
      <3> QED  BY <2>1, <3>1 DEF FailingViews, Idle
    <2> QED  BY <1>5, <2>2, <2>3
  <1> QED  BY <1>1, <1>3, <1>4, <1>5 DEF WorkerStep, Run, WorkerUpset

-----------------------------------------------------------------------------
(* Without duplicate deliveries and retries, a job is in one pair of hands.  *)

Single == "redeliver" \notin Upsets /\ "admin_retry" \notin Upsets

\* No worker has job j.
Free(j) == \A w \in Workers : worker[w].job # j

\* Either create_job has not dispatched it, or one message waits, or one worker
\* has it, or nobody.
Alone(j) ==
  /\ queue[j] <= 1
  /\ api[j].pc = "idle" <=> row[j].status = "none"
  /\ queue[j] > 0 => api[j].pc \notin {"idle", "committed"}
  /\ queue[j] > 0 \/ api[j].pc \in {"idle", "committed"} => Free(j)
  /\ \A v, w \in Workers : worker[v].job = j /\ worker[w].job = j => v = w

\* An admin at work cancels a job that was not over; the cleanup and the admin
\* have jobs that exist.
Outsiders ==
  /\ admin.pc # "idle" => /\ admin.pc = "cancel"
                          /\ admin.view.status \notin Terminal \cup {"none"}
                          /\ api[admin.job].pc # "idle"
  /\ \A j \in cleaner : api[j].pc # "idle"

Sole ==
  /\ Typing /\ FailingViews
  /\ \A w \in Workers : worker[w].pc = "idle" => worker[w].job = NoJob
  /\ \A j \in Jobs : Alone(j)
  /\ Outsiders

LEMMA StartIsSole == Init => Sole
  <1> SUFFICES ASSUME Init PROVE Sole
    OBVIOUS
  <1>1. Typing
    BY InitTyping
  <1>2. \A w \in Workers : worker[w].pc = "idle" /\ worker[w].job = NoJob
    BY DEF Init, Idle
  <1>3. \A j \in Jobs : Alone(j)
    BY <1>2, ConstantsAssumption DEF Init, Alone, Free, NoRow
  <1>4. FailingViews /\ Outsiders
    BY <1>2 DEF FailingViews, Outsiders, Init, AdminIdle
  <1> QED  BY <1>1, <1>2, <1>3, <1>4 DEF Sole

\* The three things a message or a worker can do to the hands a job is in.
LEMMA TakingIsSole ==
  ASSUME Sole, NEW w \in Workers, Takes(w),
         \A v \in Workers : v # w => worker'[v] = worker[v],
         UNCHANGED <<api, admin, cleaner>>
  PROVE  (\A j \in Jobs : Alone(j)') /\ Outsiders'
  <1>1. PICK k \in Jobs :
          /\ worker[w].pc = "idle" /\ queue[k] > 0
          /\ queue' = [queue EXCEPT ![k] = @ - 1]
          /\ worker'[w].pc = "received" /\ worker'[w].job = k /\ worker'[w].unacked
          /\ UNCHANGED <<row, outputs>>
    BY DEF Takes
  <1>2. queue \in [Jobs -> Nat] /\ queue[k] = 1
    <2>1. queue[k] <= 1 /\ queue \in [Jobs -> Nat]
      BY DEF Sole, Typing, TypeOK, Alone
    <2> QED  BY <1>1, <2>1
  <1>3. queue'[k] = 0 /\ \A j \in Jobs : j # k => queue'[j] = queue[j]
    BY <1>1, <1>2
  <1>4. Free(k) /\ api[k].pc \notin {"idle", "committed"}
    BY <1>1 DEF Sole, Alone
  <1>5. ASSUME NEW j \in Jobs
        PROVE  Alone(j)'
    <2>1. Alone(j)
      BY DEF Sole
    <2>2. CASE j = k
      <3>1. \A v, u \in Workers : worker'[v].job = j /\ worker'[u].job = j => v = u
        BY <1>4, <2>2 DEF Free
      <3> QED  BY <1>1, <1>3, <1>4, <2>1, <2>2, <3>1 DEF Alone
    <2>3. CASE j # k
      <3>1. \A v \in Workers : worker'[v].job = j => worker[v].job = j
        BY <1>1, <2>3
      <3>2. Free(j) => Free(j)'
        BY <3>1 DEF Free
      <3>3. \A v, u \in Workers : worker'[v].job = j /\ worker'[u].job = j => v = u
        BY <2>1, <3>1 DEF Alone
      <3> QED  BY <1>1, <1>3, <2>1, <2>3, <3>2, <3>3 DEF Alone
    <2> QED  BY <2>2, <2>3
  <1>6. Outsiders'
    BY DEF Sole, Outsiders
  <1> QED  BY <1>5, <1>6

LEMMA DroppingIsSole ==
  ASSUME Sole, NEW w \in Workers, Drops(w),
         \A v \in Workers : v # w => worker'[v] = worker[v],
         UNCHANGED <<api, admin, cleaner>>
  PROVE  (\A j \in Jobs : Alone(j)') /\ Outsiders'
  <1> DEFINE k == worker[w].job
  <1>1. /\ k \in Jobs /\ worker'[w].job = NoJob /\ NoJob \notin Jobs
        /\ UNCHANGED row /\ queue \in [Jobs -> Nat]
    BY ConstantsAssumption DEF Drops, Sole, Typing, TypeOK, WorkerOK, Idle
  <1>2. queue' = queue \/ queue' = [queue EXCEPT ![k] = @ + 1]
    <2>1. CASE queue' = [queue EXCEPT ![k] = @ + Restored(w)]
      <3>1. Restored(w) = 0 \/ Restored(w) = 1
        BY DEF Restored
      <3>2. CASE Restored(w) = 0
        BY <1>1, <2>1, <3>2
      <3>3. CASE Restored(w) = 1
        BY <1>1, <2>1, <3>3
      <3> QED  BY <3>1, <3>2, <3>3
    <2> QED  BY <2>1 DEF Drops
  <1>3. queue[k] = 0 /\ api[k].pc \notin {"idle", "committed"}
    <2>1. Alone(k) /\ ~Free(k) /\ queue[k] \in Nat
      BY <1>1 DEF Sole, Free
    <2> QED  BY <2>1 DEF Alone
  <1>4. \A v \in Workers : worker'[v].job # k
    <2>1. Alone(k)
      BY <1>1 DEF Sole
    <2>2. \A v \in Workers : v # w => worker[v].job # k
      BY <2>1 DEF Alone
    <2>3. worker'[w].job # k
      BY <1>1
    <2> QED  BY <2>2, <2>3
  <1>5. ASSUME NEW j \in Jobs
        PROVE  Alone(j)'
    <2>1. Alone(j)
      BY DEF Sole
    <2>2. CASE j = k
      <3>1. queue'[j] \in {0, 1}
        BY <1>1, <1>2, <1>3, <2>2
      <3> QED  BY <1>1, <1>3, <1>4, <2>1, <2>2, <3>1 DEF Alone, Free
    <2>3. CASE j # k
      <3>1. \A v \in Workers : worker'[v].job = j => worker[v].job = j
        BY <1>1
      <3>2. queue'[j] = queue[j]
        BY <1>1, <1>2, <2>3
      <3>3. Free(j) => Free(j)'
        BY <3>1 DEF Free
      <3>4. \A v, u \in Workers : worker'[v].job = j /\ worker'[u].job = j => v = u
        BY <2>1, <3>1 DEF Alone
      <3> QED  BY <1>1, <2>1, <3>2, <3>3, <3>4 DEF Alone
    <2> QED  BY <2>2, <2>3
  <1>6. Outsiders'
    BY DEF Sole, Outsiders
  <1> QED  BY <1>5, <1>6

\* The row of a job at work is never taken back to "none".
LEMMA GoingIsSole ==
  ASSUME Sole, NEW w \in Workers, Goes(w),
         \A v \in Workers : v # w => worker'[v] = worker[v],
         UNCHANGED <<api, admin, cleaner>>
  PROVE  (\A j \in Jobs : Alone(j)') /\ Outsiders'
  <1> DEFINE k == worker[w].job
  <1>1. k \in Jobs /\ row \in [Jobs -> Rows]
    BY DEF Goes, Sole, Typing, TypeOK, WorkerOK
  <1>2. api[k].pc # "idle" /\ row[k].status # "none"
    <2>1. Alone(k) /\ ~Free(k)
      BY <1>1 DEF Sole, Free
    <2> QED  BY <2>1 DEF Alone
  <1>3. PICK r \in Rows : /\ row' = [row EXCEPT ![k] = r]
                          /\ Loads(w, r) \/ Claims(w, r) \/ Works(w, r) \/ Ends(w, r)
    BY DEF Goes
  <1>4. r.status # "none"
    BY <1>2, <1>3 DEF Loads, Claims, Works, Ends
  <1>5. \A v \in Workers : worker'[v].job = worker[v].job
    BY DEF Goes
  <1>6. ASSUME NEW j \in Jobs
        PROVE  Alone(j)'
    <2>1. Alone(j)
      BY DEF Sole
    <2>2. row'[j].status = "none" <=> row[j].status = "none"
      BY <1>1, <1>2, <1>3, <1>4
    <2>3. Free(j)' <=> Free(j)
      BY <1>5 DEF Free
    <2>4. queue' = queue
      BY DEF Goes
    <2> QED  BY <1>5, <2>1, <2>2, <2>3, <2>4 DEF Alone
  <1>7. Outsiders'
    BY DEF Sole, Outsiders
  <1> QED  BY <1>6, <1>7

\* What create_job does to them.
LEMMA CreatingIsSole ==
  ASSUME Sole, Typing', NEW k \in Jobs,
         Create(k) \/ ApiStep(k) \/ DispatchRaises(k) \/ ApiCrash(k)
  PROVE  (\A j \in Jobs : Alone(j)') /\ Outsiders'
  <1>1. /\ UNCHANGED <<worker, admin, cleaner>>
        /\ \A j \in Jobs : j # k => queue'[j] = queue[j] /\ api'[j] = api[j] /\ row'[j] = row[j]
    BY DEF Create, ApiStep, Dispatch, Refresh, RejectDispatch, DispatchRaises, ApiCrash,
           Sole, Typing, TypeOK
  <1>2. queue \in [Jobs -> Nat] /\ api \in [Jobs -> ApiStates] /\ row \in [Jobs -> Rows]
    BY DEF Sole, Typing, TypeOK
  <1>3. Alone(k)
    BY DEF Sole
  <1>4. Alone(k)' /\ (api[k].pc # "idle" => api'[k].pc # "idle")
    <2>1. CASE Create(k)
      BY <1>1, <1>2, <1>3, <2>1 DEF Create, Created, Alone, Free, ApiStates
    <2>2. CASE Dispatch(k) \/ DispatchRaises(k)
      <3>1. /\ api[k].pc = "committed" /\ api'[k].pc \in {"done", "raised"} /\ row' = row
            /\ queue'[k] \in {queue[k], queue[k] + 1}
        BY <1>2, <2>2 DEF Dispatch, DispatchRaises, Dispatchable, ApiStates
      <3>2. queue[k] = 0 /\ queue[k] \in Nat /\ Free(k)
        BY <1>2, <1>3, <3>1 DEF Alone
      <3>3. queue'[k] \in {0, 1}
        BY <3>1, <3>2
      <3> QED  BY <1>1, <1>3, <3>1, <3>2, <3>3 DEF Alone, Free
    <2>3. CASE Refresh(k) \/ ApiCrash(k)
      <3>1. /\ api[k].pc \in {"committed", "raised", "refreshed"} /\ UNCHANGED <<row, queue>>
            /\ api'[k].pc \in {"refreshed", "done"}
        BY <1>2, <2>3 DEF Refresh, ApiCrash
      <3> QED  BY <1>1, <1>3, <3>1 DEF Alone, Free
    <2>4. CASE RejectDispatch(k)
      <3>1. api[k].pc = "refreshed" /\ api'[k].pc = "done" /\ UNCHANGED queue
        BY <1>2, <2>4 DEF RejectDispatch
      <3>2. row[k].status # "none" /\ row[k] \in Rows
        BY <1>2, <1>3, <3>1 DEF Alone
      <3>3. row'[k].status \in {"failed", row[k].status}
        BY <1>2, <2>4 DEF RejectDispatch, Written, Dirty, MarkFailed, ApiStates, Rows
      <3> QED  BY <1>1, <1>3, <3>1, <3>2, <3>3 DEF Alone, Free
    <2> QED  BY <2>1, <2>2, <2>3, <2>4 DEF ApiStep
  <1>5. ASSUME NEW j \in Jobs, j # k
        PROVE  Alone(j)'
    BY <1>1, <1>5 DEF Alone, Free, Sole
  <1>6. \A j \in Jobs : api[j].pc # "idle" => api'[j].pc # "idle"
    BY <1>1, <1>4
  <1>7. Outsiders'
    <2>1. admin.pc # "idle" => admin.job \in Jobs
      BY DEF Sole, Typing
    <2>2. cleaner \subseteq Jobs
      BY DEF Sole, Typing, TypeOK
    <2> QED  BY <1>1, <1>6, <2>1, <2>2 DEF Sole, Outsiders
  <1> QED  BY <1>4, <1>5, <1>7

\* What the others do: they write the status of jobs that exist.
LEMMA OthersAreSole ==
  ASSUME Sole, "admin_retry" \notin Upsets,
         \/ AdminCommit \/ CleanerStep
         \/ \E j \in Jobs : AdminRead(j) \/ Elapse(j) \/ InputsRemoved(j)
  PROVE  (\A j \in Jobs : Alone(j)') /\ Outsiders'
  <1>1. UNCHANGED <<worker, queue, api>>
    BY DEF AdminCommit, CleanerStep, CleanerSelect, CleanerCommit, AdminRead, Elapse,
           InputsRemoved
  <1>2. /\ row \in [Jobs -> Rows] /\ cleaner \subseteq Jobs
        /\ admin.pc # "idle" => admin.job \in Jobs
    BY DEF Sole, Typing, TypeOK
  <1>3. \A j \in Jobs : row'[j].status = "none" <=> row[j].status = "none"
    <2>1. CASE AdminCommit
      <3>1. /\ admin.pc = "cancel" /\ api[admin.job].pc # "idle" /\ admin.job \in Jobs
            /\ admin.view \in Rows /\ admin.view.status # "cancelled"
        BY <2>1, <1>2 DEF AdminCommit, Sole, Outsiders, Typing, TypeOK, AdminStates, Terminal
      <3>2. row[admin.job].status # "none"
        BY <3>1 DEF Sole, Alone
      <3>3. row'[admin.job].status = "cancelled"
        BY <1>2, <2>1, <3>1 DEF AdminCommit, Written, Dirty, Cancelled, Rows
      <3>4. \A j \in Jobs : j # admin.job => row'[j] = row[j]
        BY <1>2, <2>1 DEF AdminCommit
      <3> QED  BY <3>2, <3>3, <3>4
    <2>2. CASE CleanerCommit
      <3>1. \A j \in cleaner : row[j].status # "none"
        BY <1>2 DEF Sole, Outsiders, Alone
      <3>2. \A j \in Jobs : row'[j].status = IF j \in cleaner THEN "expired" ELSE row[j].status
        BY <1>2, <2>2 DEF CleanerCommit, Rows
      <3> QED  BY <3>1, <3>2
    <2>3. CASE row' = row
      BY <2>3
    <2> QED  BY <2>1, <2>2, <2>3
             DEF CleanerStep, CleanerSelect, AdminRead, Elapse, InputsRemoved
  <1>4. \A j \in Jobs : Alone(j)'
    BY <1>1, <1>3 DEF Sole, Alone, Free
  <1>5. Outsiders'
    <2>1. CASE AdminCommit
      BY <1>1, <2>1 DEF AdminCommit, AdminIdle, Sole, Outsiders
    <2>2. ASSUME NEW j \in Jobs, AdminRead(j)
          PROVE  Outsiders'
      <3>1. /\ admin'.pc = "cancel" /\ admin'.job = j /\ admin'.view = row[j]
            /\ row[j].status \notin Terminal \cup {"none"} /\ cleaner' = cleaner
        BY <2>2 DEF AdminRead, Upset
      <3>2. api[j].pc # "idle"
        BY <3>1 DEF Sole, Alone
      <3> QED  BY <1>1, <3>1, <3>2 DEF Sole, Outsiders
    <2>3. CASE CleanerSelect
      <3>1. \A j \in cleaner' : api[j].pc # "idle"
        BY <2>3 DEF CleanerSelect, Expirable, Sole, Alone
      <3> QED  BY <1>1, <2>3, <3>1 DEF CleanerSelect, Sole, Outsiders
    <2>4. CASE CleanerCommit
      BY <1>1, <2>4 DEF CleanerCommit, Sole, Outsiders
    <2>5. ASSUME NEW j \in Jobs, Elapse(j) \/ InputsRemoved(j)
          PROVE  Outsiders'
      BY <1>1, <2>5 DEF Elapse, InputsRemoved, Sole, Outsiders
    <2> QED  BY <2>1, <2>2, <2>3, <2>4, <2>5 DEF CleanerStep
  <1> QED  BY <1>4, <1>5

LEMMA SoleStep ==
  ASSUME Sole, Single, [Next]_vars
  PROVE  Sole'
  <1>1. Typing'
    BY NextTyping DEF Sole
  <1>2. CASE UNCHANGED vars
    BY <1>1, <1>2 DEF vars, Sole, FailingViews, Alone, Free, Outsiders
  <1>3. ASSUME NEW k \in Jobs, Create(k) \/ ApiStep(k) \/ DispatchRaises(k) \/ ApiCrash(k)
        PROVE  Sole'
    <2>1. worker' = worker
      BY <1>3 DEF Create, ApiStep, Dispatch, Refresh, RejectDispatch, DispatchRaises, ApiCrash
    <2> QED  BY <1>1, <1>3, <2>1, CreatingIsSole DEF Sole, FailingViews
  <1>4. CASE \/ AdminCommit \/ CleanerStep
             \/ \E j \in Jobs : AdminRead(j) \/ Elapse(j) \/ InputsRemoved(j)
    <2>1. worker' = worker
      BY <1>4 DEF AdminCommit, CleanerStep, CleanerSelect, CleanerCommit, AdminRead, Elapse,
                  InputsRemoved
    <2> QED  BY <1>1, <1>4, <2>1, OthersAreSole DEF Sole, FailingViews, Single
  <1>5. ASSUME NEW w \in Workers, WorkerStep(w) \/ WorkerUpset(w)
        PROVE  Sole'
    <2>1. /\ Takes(w) \/ Drops(w) \/ Goes(w)
          /\ \A v \in Workers : v # w => worker'[v] = worker[v]
          /\ UNCHANGED <<api, admin, cleaner>>
      BY <1>5, WorkersMove DEF Sole, Single
    <2>2. FailingViews'
      BY <1>5, FailingViewsStay DEF Sole
    <2>3. worker'[w].pc = "idle" => worker'[w].job = NoJob
      BY <2>1 DEF Takes, Drops, Goes, Idle
    <2>4. \A v \in Workers : worker'[v].pc = "idle" => worker'[v].job = NoJob
      BY <2>1, <2>3 DEF Sole
    <2>5. (\A j \in Jobs : Alone(j)') /\ Outsiders'
      BY <2>1, TakingIsSole, DroppingIsSole, GoingIsSole
    <2> QED  BY <1>1, <2>2, <2>4, <2>5 DEF Sole
  <1> QED  BY <1>2, <1>3, <1>4, <1>5 DEF Next

-----------------------------------------------------------------------------
(* JobLifecycle implements JobContract.                                     *)

\* The upsets under which it does, those of the run JobRefinement.
Followed == Upsets \cap {"publish_late", "redeliver", "admin_cancel", "admin_retry"} = {}

\* Whoever has a job knows its status: a request that has not ended has it
\* queued, a worker has it as it loaded or made it, and what the cleanup has is
\* over.
Mirrored ==
  /\ Sole
  /\ admin.pc = "idle"
  /\ \A j \in Jobs :
       /\ api[j].pc \in {"committed", "raised", "refreshed"}
            => row[j].status = "queued" /\ queue[j] = 0 /\ Free(j)
       /\ api[j].pc = "refreshed" => api[j].view.status = "queued"
       /\ j \in cleaner => row[j].status \in {"completed", "failed"}
       /\ row[j].status # "cancelled"
  /\ \A w \in Workers :
       /\ worker[w].pc = "loaded"
            => /\ worker[w].view.status = row[worker[w].job].status
               /\ row[worker[w].job].status \in {"queued", "processing"}
       /\ worker[w].pc \in RunPCs => row[worker[w].job].status = "processing"

\* The refinement mapping of JobLifecycle!Contract.
Status == [j \in Jobs |-> row[j].status]
Results == [j \in Jobs |-> IF row[j].status = "completed" THEN outputs[j] ELSE {}]
Shown == <<Status, Results>>

LEMMA NothingShows ==
  ASSUME \A j \in Jobs : /\ row'[j].status = row[j].status
                         /\ row[j].status = "completed" => outputs'[j] = outputs[j]
  PROVE  UNCHANGED Shown
  BY DEF Shown, Status, Results

\* One job moves on.
LEMMA OneMoves ==
  ASSUME NEW k \in Jobs,
         \A j \in Jobs : j # k => row'[j] = row[j] /\ outputs'[j] = outputs[j],
         \/ row[k].status = "none" /\ row'[k].status = "queued"
         \/ row[k].status = "queued" /\ row'[k].status = "processing"
         \/ row[k].status \in {"queued", "processing"} /\ row'[k].status = "failed"
         \/ /\ row[k].status = "processing" /\ row'[k].status = "completed"
            /\ outputs'[k] # {}
  PROVE  [Contract!Next]_Shown
  <1>1. Status' = [Status EXCEPT ![k] = row'[k].status]
    BY DEF Status
  <1>2. Results' = [Results EXCEPT ![k] = IF row'[k].status = "completed"
                                          THEN outputs'[k] ELSE {}]
    BY DEF Results
  <1>3. Status[k] = row[k].status /\ Results[k] \in {{}, outputs[k]}
    BY DEF Status, Results
  <1>4. row[k].status # "completed" => Results[k] = {}
    BY DEF Results
  <1>5. row'[k].status # "completed" => Results' = Results
    <2>1. CASE row'[k].status # "completed"
      <3>1. row[k].status # "completed"
        OBVIOUS
      <3>2. \A j \in Jobs : Results'[j] = Results[j]
        BY <2>1, <3>1 DEF Results
      <3>3. /\ Results' = [j \in Jobs |-> Results'[j]]
            /\ Results = [j \in Jobs |-> Results[j]]
        BY DEF Results
      <3> QED  BY <3>2, <3>3
    <2> QED  BY <2>1
  <1>6. CASE row[k].status = "none" /\ row'[k].status = "queued"
    BY <1>1, <1>3, <1>5, <1>6
    DEF Contract!Next, Contract!Submit, Contract!Move, Status, Results
  <1>7. CASE row[k].status = "queued" /\ row'[k].status = "processing"
    BY <1>1, <1>3, <1>5, <1>7
    DEF Contract!Next, Contract!Start, Contract!Move, Status, Results
  <1>8. CASE row[k].status \in {"queued", "processing"} /\ row'[k].status = "failed"
    BY <1>1, <1>3, <1>5, <1>8
    DEF Contract!Next, Contract!Abort, Contract!Move, Status, Results
  <1>9. CASE /\ row[k].status = "processing" /\ row'[k].status = "completed"
             /\ outputs'[k] # {}
    <2>1. Results'[k] = outputs'[k]
      BY <1>9 DEF Results
    <2>2. Contract!Finish(k)
      BY <1>1, <1>2, <1>3, <1>9, <2>1
      DEF Contract!Finish, Contract!Move, Status, Results
    <2> QED  BY <2>2 DEF Contract!Next
  <1> QED  BY <1>6, <1>7, <1>8, <1>9

\* The cleanup expires what is over.
LEMMA ExpiryShows ==
  ASSUME Mirrored, CleanerCommit
  PROVE  [Contract!Next]_Shown
  <1>0. PICK S \in SUBSET Jobs : S = cleaner
    BY DEF Mirrored, Sole, Typing, TypeOK
  <1>1. /\ \A j \in S : Status[j] \in {"completed", "failed"}
        /\ row \in [Jobs -> Rows]
    BY <1>0 DEF Mirrored, Sole, Typing, TypeOK, Status
  <1>2. Status' = [j \in Jobs |-> IF j \in S THEN "expired" ELSE Status[j]]
    BY <1>0, <1>1 DEF Status, CleanerCommit, Rows
  <1>3. Results' = [j \in Jobs |-> IF j \in S THEN {} ELSE Results[j]]
    <2>1. \A j \in Jobs : Results'[j] = IF j \in S THEN {} ELSE Results[j]
      BY <1>0, <1>1 DEF Results, CleanerCommit, Rows
    <2>2. Results' = [j \in Jobs |-> Results'[j]]
      BY DEF Results
    <2> QED  BY <2>1, <2>2
  <1>4. Contract!Expire(S)
    BY <1>1, <1>2, <1>3 DEF Contract!Expire, Status, Results
  <1> QED  BY <1>4 DEF Contract!Next

\* A worker shows only the claim and the outcome of its job.
LEMMA WorkerShows ==
  ASSUME Mirrored, Sole', NEW w \in Workers, Takes(w) \/ Drops(w) \/ Goes(w),
         \A v \in Workers : v # w => worker'[v] = worker[v],
         UNCHANGED <<api, admin, cleaner>>
  PROVE  Mirrored' /\ [Contract!Next]_Shown
  <1> DEFINE k == worker[w].job
  <1>0. row \in [Jobs -> Rows] /\ outputs \in [Jobs -> SUBSET Output]
    BY DEF Mirrored, Sole, Typing, TypeOK
  <1>1. CASE Takes(w)
    <2>1. PICK m \in Jobs :
            /\ queue[m] > 0 /\ queue' = [queue EXCEPT ![m] = @ - 1]
            /\ worker'[w].pc = "received" /\ worker'[w].job = m
            /\ UNCHANGED <<row, outputs>>
      BY <1>1 DEF Takes
    <2>2. api[m].pc \notin {"committed", "raised", "refreshed"}
      BY <2>1 DEF Mirrored
    <2>3. \A j \in Jobs : j # m => queue'[j] = queue[j] /\ (Free(j) => Free(j)')
      BY <2>1 DEF Free, Mirrored, Sole, Typing, TypeOK
    <2>4. Mirrored'
      BY <2>1, <2>2, <2>3 DEF Mirrored, RunPCs
    <2> QED  BY <2>1, <2>4, NothingShows
  <1>2. CASE Drops(w)
    <2>1. /\ k \in Jobs /\ worker'[w].pc = "idle" /\ worker'[w].job = NoJob
          /\ UNCHANGED <<row, outputs>>
      BY <1>2 DEF Drops, Idle, Mirrored, Sole, Typing, WorkerOK
    <2>2. api[k].pc \notin {"committed", "raised", "refreshed"}
      BY <2>1 DEF Mirrored, Free
    <2>3. \A j \in Jobs : j # k => queue'[j] = queue[j] /\ (Free(j) => Free(j)')
      BY <1>2, <2>1, ConstantsAssumption DEF Free, Drops, Mirrored, Sole, Typing, TypeOK
    <2>4. Mirrored'
      BY <2>1, <2>2, <2>3 DEF Mirrored, RunPCs
    <2> QED  BY <2>1, <2>4, NothingShows
  <1>3. CASE Goes(w)
    <2>1. PICK r \in Rows :
            /\ row' = [row EXCEPT ![k] = r]
            /\ \/ /\ Loads(w, r) \/ Claims(w, r) \/ Works(w, r)
                  /\ outputs' = outputs
               \/ /\ Ends(w, r)
                  /\ outputs' = [outputs EXCEPT ![k] = @ \cup Flushed(w)]
      BY <1>3 DEF Goes
    <2>2. /\ k \in Jobs /\ worker'[w].job = k /\ queue' = queue
          /\ \A v \in Workers : worker'[v].job = worker[v].job
      BY <1>3 DEF Goes, Mirrored, Sole, Typing, WorkerOK
    <2>3. /\ row'[k] = r
          /\ \A j \in Jobs : j # k => row'[j] = row[j] /\ outputs'[j] = outputs[j]
      BY <1>0, <2>1, <2>2
    <2>4. /\ api[k].pc \notin {"committed", "raised", "refreshed"}
          /\ \A v \in Workers : v # w => worker[v].job # k
      <3>1. Alone(k)
        BY <2>2 DEF Mirrored, Sole
      <3> QED  BY <2>2, <3>1 DEF Mirrored, Free, Alone
    <2>5. \A j \in Jobs : Free(j) => Free(j)'
      BY <2>2 DEF Free
    <2>6. ASSUME /\ k \in cleaner => r.status = row[k].status
                 /\ r.status # "cancelled"
                 /\ worker'[w].pc = "loaded"
                      => /\ worker'[w].view.status = r.status
                         /\ r.status \in {"queued", "processing"}
                 /\ worker'[w].pc \in RunPCs => r.status = "processing"
          PROVE  Mirrored'
      <3>1. ASSUME NEW j \in Jobs
            PROVE  /\ api'[j].pc \in {"committed", "raised", "refreshed"}
                        => row'[j].status = "queued" /\ queue'[j] = 0 /\ Free(j)'
                   /\ api'[j].pc = "refreshed" => api'[j].view.status = "queued"
                   /\ j \in cleaner' => row'[j].status \in {"completed", "failed"}
                   /\ row'[j].status # "cancelled"
        BY <2>2, <2>3, <2>4, <2>5, <2>6 DEF Mirrored
      <3>2. ASSUME NEW v \in Workers
            PROVE  /\ worker'[v].pc = "loaded"
                        => /\ worker'[v].view.status = row'[worker'[v].job].status
                           /\ row'[worker'[v].job].status \in {"queued", "processing"}
                   /\ worker'[v].pc \in RunPCs => row'[worker'[v].job].status = "processing"
        <4>1. CASE v = w
          BY <2>2, <2>3, <2>6, <4>1
        <4>2. CASE v # w
          <5>1. worker'[v] = worker[v] /\ worker[v].job # k
            BY <2>4, <4>2
          <5>2. worker[v].pc # "idle" => worker[v].job \in Jobs
            BY DEF Mirrored, Sole, Typing, WorkerOK
          <5> QED  BY <2>3, <5>1, <5>2 DEF Mirrored, RunPCs
        <4> QED  BY <4>1, <4>2
      <3> QED  BY <3>1, <3>2 DEF Mirrored
    <2>7. CASE Loads(w, r) /\ outputs' = outputs
      <3>1. r.status \in {"queued", "processing"}
        <4>1. row[k].status \in Statuses /\ row[k].status # "cancelled"
          BY <1>0, <2>2 DEF Mirrored, Rows
        <4> QED  BY <2>7, <4>1 DEF Loads, Terminal, Statuses
      <3>2. r.status = row[k].status
        BY <2>7 DEF Loads
      <3>3. Mirrored'
        BY <2>6, <2>7, <3>1, <3>2 DEF Loads, RunPCs
      <3> QED  BY <2>3, <2>7, <3>2, <3>3, NothingShows
    <2>8. CASE Claims(w, r) /\ outputs' = outputs
      <3>1. row[k].status \in {"queued", "processing"} /\ worker[w].view.status = row[k].status
        BY <2>8 DEF Claims, Mirrored
      <3>2. r.status = "processing"
        BY <2>8, <3>1 DEF Claims
      <3>3. k \notin cleaner
        BY <2>2, <3>1 DEF Mirrored
      <3>4. Mirrored'
        BY <2>6, <2>8, <3>2, <3>3 DEF Claims, RunPCs
      <3>5. CASE row[k].status = "processing"
        BY <2>3, <2>8, <3>2, <3>4, <3>5, NothingShows
      <3>6. CASE row[k].status = "queued"
        BY <2>2, <2>3, <3>2, <3>4, <3>6, OneMoves
      <3> QED  BY <3>1, <3>5, <3>6
    <2>9. CASE Works(w, r) /\ outputs' = outputs
      <3>1. r.status = row[k].status
        BY <2>9 DEF Works
      <3>2. row[k].status # "cancelled"
        BY <2>2 DEF Mirrored
      <3>3. worker'[w].pc \in RunPCs => worker[w].pc \in RunPCs
        BY <2>9 DEF Works, RunPCs
      <3>4. worker'[w].pc # "loaded"
        BY <2>9 DEF Works, RunPCs
      <3>5. Mirrored'
        BY <2>6, <3>1, <3>2, <3>3, <3>4 DEF Mirrored
      <3> QED  BY <2>3, <2>9, <3>1, <3>5, NothingShows
    <2>10. CASE Ends(w, r) /\ outputs' = [outputs EXCEPT ![k] = @ \cup Flushed(w)]
      <3>1. row[k].status = "processing"
        BY <2>10 DEF Ends, Mirrored
      <3>2. k \notin cleaner
        BY <2>2, <3>1 DEF Mirrored
      <3>3. Mirrored'
        BY <2>6, <2>10, <3>2 DEF Ends, RunPCs
      <3>4. r.status = "failed" \/ (r.status = "completed" /\ outputs'[k] # {})
        BY <1>0, <2>2, <2>10 DEF Ends
      <3> QED  BY <2>2, <2>3, <3>1, <3>3, <3>4, OneMoves
    <2> QED  BY <2>1, <2>7, <2>8, <2>9, <2>10
  <1> QED  BY <1>1, <1>2, <1>3

\* create_job shows the row it creates, and its failure to dispatch.
LEMMA RequestShows ==
  ASSUME Mirrored, Followed, Sole', NEW k \in Jobs,
         Create(k) \/ ApiStep(k) \/ DispatchRaises(k) \/ ApiCrash(k)
  PROVE  Mirrored' /\ [Contract!Next]_Shown
  <1>1. /\ UNCHANGED <<worker, outputs, admin, cleaner>>
        /\ \A j \in Jobs : j # k => queue'[j] = queue[j] /\ api'[j] = api[j] /\ row'[j] = row[j]
    BY DEF Create, ApiStep, Dispatch, Refresh, RejectDispatch, DispatchRaises, ApiCrash,
           Mirrored, Sole, Typing, TypeOK
  <1>2. /\ queue \in [Jobs -> Nat] /\ api \in [Jobs -> ApiStates] /\ row \in [Jobs -> Rows]
        /\ Alone(k)
    BY DEF Mirrored, Sole, Typing, TypeOK
  <1>3. ASSUME api'[k].pc \in {"committed", "raised", "refreshed"}
                 => row'[k].status = "queued" /\ queue'[k] = 0 /\ Free(k),
               api'[k].pc = "refreshed" => api'[k].view.status = "queued",
               k \in cleaner => row'[k].status = row[k].status,
               row'[k].status # "cancelled",
               Free(k) \/ row'[k].status = row[k].status
        PROVE  Mirrored'
    <2>1. \A j \in Jobs : Free(j)' <=> Free(j)
      BY <1>1 DEF Free
    <2>2. ASSUME NEW j \in Jobs
          PROVE  /\ api'[j].pc \in {"committed", "raised", "refreshed"}
                      => row'[j].status = "queued" /\ queue'[j] = 0 /\ Free(j)'
                 /\ api'[j].pc = "refreshed" => api'[j].view.status = "queued"
                 /\ j \in cleaner' => row'[j].status \in {"completed", "failed"}
                 /\ row'[j].status # "cancelled"
      BY <1>1, <1>3, <2>1 DEF Mirrored
    <2>3. ASSUME NEW w \in Workers, worker[w].pc # "idle"
          PROVE  row'[worker[w].job].status = row[worker[w].job].status
      <3>1. worker[w].job \in Jobs
        BY <2>3 DEF Mirrored, Sole, Typing, WorkerOK
      <3> QED  BY <1>1, <1>3, <3>1 DEF Free
    <2>4. ASSUME NEW w \in Workers
          PROVE  /\ worker'[w].pc = "loaded"
                      => /\ worker'[w].view.status = row'[worker'[w].job].status
                         /\ row'[worker'[w].job].status \in {"queued", "processing"}
                 /\ worker'[w].pc \in RunPCs => row'[worker'[w].job].status = "processing"
      BY <1>1, <2>3 DEF Mirrored, RunPCs
    <2> QED  BY <1>1, <2>2, <2>4 DEF Mirrored
  <1>4. CASE Create(k)
    <2>1. /\ row[k].status = "none" /\ row'[k].status = "queued" /\ api'[k].pc = "committed"
          /\ queue' = queue
      BY <1>2, <1>4 DEF Create, Created, ApiStates
    <2>2. queue[k] = 0 /\ Free(k) /\ k \notin cleaner
      BY <1>2, <2>1 DEF Alone, Mirrored, Sole, Outsiders
    <2> QED  BY <1>1, <1>3, <2>1, <2>2, OneMoves
  <1>5. CASE Dispatch(k) \/ ApiCrash(k)
    <2>1. row' = row /\ api'[k].pc = "done"
      BY <1>2, <1>5 DEF Dispatch, ApiCrash, ApiStates
    <2> QED  BY <1>1, <1>3, <2>1, NothingShows DEF Mirrored
  <1>6. CASE DispatchRaises(k)
    <2>1. UNCHANGED <<row, queue>> /\ api'[k].pc = "raised" /\ api[k].pc = "committed"
      BY <1>2, <1>6 DEF DispatchRaises, Dispatchable, Upset, Followed
    <2> QED  BY <1>1, <1>3, <2>1, NothingShows DEF Mirrored
  <1>7. CASE Refresh(k)
    <2>1. /\ UNCHANGED <<row, queue>> /\ api'[k].pc = "refreshed" /\ api[k].pc = "raised"
          /\ api'[k].view = row[k]
      BY <1>2, <1>7 DEF Refresh
    <2> QED  BY <1>1, <1>3, <2>1, NothingShows DEF Mirrored
  <1>8. CASE RejectDispatch(k)
    <2>1. /\ queue' = queue /\ api'[k].pc = "done" /\ api[k].pc = "refreshed"
          /\ api[k].view \in Rows
      BY <1>2, <1>8 DEF RejectDispatch, ApiStates
    <2>2. api[k].view.status = "queued" /\ row[k].status = "queued" /\ Free(k)
      BY <2>1 DEF Mirrored
    <2>3. row'[k].status = "failed"
      BY <1>2, <1>8, <2>1, <2>2 DEF RejectDispatch, Written, Dirty, MarkFailed, Rows
    <2>4. k \notin cleaner
      BY <2>2 DEF Mirrored
    <2> QED  BY <1>1, <1>3, <2>1, <2>2, <2>3, <2>4, OneMoves
  <1> QED  BY <1>4, <1>5, <1>6, <1>7, <1>8 DEF ApiStep

LEMMA OthersShow ==
  ASSUME Mirrored, Followed, Sole',
         \/ AdminCommit \/ CleanerStep
         \/ \E j \in Jobs : AdminRead(j) \/ Elapse(j) \/ InputsRemoved(j)
  PROVE  Mirrored' /\ [Contract!Next]_Shown
  <1>1. ~AdminCommit /\ \A j \in Jobs : ~AdminRead(j)
    BY DEF AdminCommit, AdminRead, Mirrored, Followed, Upset
  <1>2. UNCHANGED <<worker, queue, api, outputs, admin>> /\ \A j \in Jobs : Free(j)' <=> Free(j)
    BY <1>1 DEF CleanerStep, CleanerSelect, CleanerCommit, Elapse, InputsRemoved, Free
  <1>3. CASE CleanerCommit
    <2>1. \A j \in Jobs : row'[j].status = IF j \in cleaner THEN "expired" ELSE row[j].status
      BY <1>3 DEF CleanerCommit, Mirrored, Sole, Typing, TypeOK, Rows
    <2>2. \A w \in Workers : worker[w].pc # "idle" => worker[w].job \in Jobs
      BY DEF Mirrored, Sole, Typing, WorkerOK
    <2>3. Mirrored'
      <3>1. cleaner' = {}
        BY <1>3 DEF CleanerCommit
      <3>2. ASSUME NEW w \in Workers
            PROVE  /\ worker'[w].pc = "loaded"
                        => /\ worker'[w].view.status = row'[worker'[w].job].status
                           /\ row'[worker'[w].job].status \in {"queued", "processing"}
                   /\ worker'[w].pc \in RunPCs => row'[worker'[w].job].status = "processing"
        BY <1>2, <2>1, <2>2 DEF Mirrored, RunPCs
      <3>3. ASSUME NEW j \in Jobs
            PROVE  /\ api'[j].pc \in {"committed", "raised", "refreshed"}
                        => row'[j].status = "queued" /\ queue'[j] = 0 /\ Free(j)'
                   /\ api'[j].pc = "refreshed" => api'[j].view.status = "queued"
                   /\ row'[j].status # "cancelled"
        BY <1>2, <2>1 DEF Mirrored
      <3> QED  BY <1>2, <3>1, <3>2, <3>3 DEF Mirrored
    <2> QED  BY <1>3, <2>3, ExpiryShows
  <1>4. CASE \/ CleanerSelect
             \/ \E j \in Jobs : Elapse(j) \/ InputsRemoved(j)
    <2>1. row' = row
      BY <1>4 DEF CleanerSelect, Elapse, InputsRemoved
    <2>2. \A j \in cleaner' : j \in cleaner \/ row[j].status \in Expirable
      BY <1>4 DEF CleanerSelect, Elapse, InputsRemoved
    <2>3. Mirrored'
      BY <1>2, <2>1, <2>2 DEF Mirrored, Expirable
    <2> QED  BY <1>2, <2>1, <2>3, NothingShows
  <1> QED  BY <1>1, <1>3, <1>4 DEF CleanerStep

LEMMA StepShows ==
  ASSUME Mirrored, Followed, [Next]_vars
  PROVE  Mirrored' /\ [Contract!Next]_Shown
  <1>0. Single
    BY DEF Followed, Single
  <1>1. Sole'
    BY <1>0, SoleStep DEF Mirrored
  <1>2. CASE UNCHANGED vars
    BY <1>1, <1>2, NothingShows DEF vars, Mirrored, Free
  <1>3. ASSUME NEW w \in Workers, WorkerStep(w) \/ WorkerUpset(w)
        PROVE  Mirrored' /\ [Contract!Next]_Shown
    <2>1. /\ Takes(w) \/ Drops(w) \/ Goes(w)
          /\ \A v \in Workers : v # w => worker'[v] = worker[v]
          /\ UNCHANGED <<api, admin, cleaner>>
      BY <1>0, <1>3, WorkersMove DEF Mirrored, Sole, Single
    <2> QED  BY <1>1, <2>1, WorkerShows
  <1> QED  BY <1>1, <1>2, <1>3, RequestShows, OthersShow DEF Next

\* JobLifecycle keeps the promise of JobContract, for any number of jobs and
\* workers, under lost dispatches, crashes of every process and failed commits:
\* statuses go forward and results appear once, with "completed".
THEOREM JobsKeepTheContract ==
  ASSUME Followed
  PROVE  Spec => ImplementsContract
  <1>1. Init => Mirrored /\ Contract!Init
    <2> SUFFICES ASSUME Init PROVE Mirrored /\ Contract!Init
      OBVIOUS
    <2>1. Mirrored
      BY StartIsSole DEF Init, Mirrored, NoRow, AdminIdle, Idle, RunPCs
    <2>2. Contract!Init
      BY DEF Init, Contract!Init, NoRow
    <2> QED  BY <2>1, <2>2
  <1>2. Mirrored /\ [Next]_vars => Mirrored' /\ [Contract!Next]_Shown
    BY StepShows
  <1> QED  BY <1>1, <1>2, PTL DEF Spec, ImplementsContract, Contract!Spec, Contract!vars,
                                  Shown, Status, Results

-----------------------------------------------------------------------------
(* What is over stays over, and the results of a job are those of one run.  *)

\* No worker that has job j will write another status.
Quiet(j) == \A w \in Workers : worker[w].job = j =>
              worker[w].pc \in {"received", "finally", "published"}

Over(j) == row[j].status \in Terminal /\ Quiet(j)

\* Requests, admins and the cleanup leave the workers, the links and what is
\* over alone: they only make jobs fail, be cancelled or expire.
LEMMA OthersLeave ==
  ASSUME Sole, Single,
         \/ AdminCommit \/ CleanerStep
         \/ \E k \in Jobs : \/ Create(k) \/ ApiStep(k) \/ DispatchRaises(k) \/ ApiCrash(k)
                            \/ AdminRead(k) \/ Elapse(k) \/ InputsRemoved(k)
  PROVE  /\ UNCHANGED <<worker, outputs>>
         /\ \A j \in Jobs :
              \/ row'[j].status = row[j].status
              \/ row[j].status = "none" /\ row'[j].status = "queued" /\ api'[j].pc = "committed"
              \/ row'[j].status \in {"cancelled", "expired"}
              \/ row'[j].status = "failed" /\ api'[j].pc = "done"
  <1>1. UNCHANGED <<worker, outputs>>
    BY DEF AdminCommit, CleanerStep, CleanerSelect, CleanerCommit, Create, ApiStep, Dispatch,
           Refresh, RejectDispatch, DispatchRaises, ApiCrash, AdminRead, Elapse, InputsRemoved
  <1>2. row \in [Jobs -> Rows] /\ api \in [Jobs -> ApiStates]
    BY DEF Sole, Typing, TypeOK
  <1>3. CASE AdminCommit
    <2>1. /\ admin.pc = "cancel" /\ admin.job \in Jobs
          /\ admin.view \in Rows /\ admin.view.status # "cancelled"
      BY <1>3 DEF AdminCommit, Sole, Outsiders, Typing, TypeOK, AdminStates, Terminal
    <2>2. row'[admin.job].status = "cancelled"
      BY <1>2, <1>3, <2>1 DEF AdminCommit, Written, Dirty, Cancelled, Rows
    <2>3. \A j \in Jobs : j # admin.job => row'[j] = row[j]
      BY <1>2, <1>3 DEF AdminCommit
    <2> QED  BY <1>1, <2>2, <2>3 DEF Terminal
  <1>4. CASE CleanerCommit
    <2>1. \A j \in Jobs : row'[j].status = IF j \in cleaner THEN "expired" ELSE row[j].status
      BY <1>2, <1>4 DEF CleanerCommit, Rows
    <2> QED  BY <1>1, <2>1 DEF Terminal
  <1>5. ASSUME NEW k \in Jobs, RejectDispatch(k)
        PROVE  \A j \in Jobs : \/ row'[j].status = row[j].status
                               \/ row'[j].status = "failed" /\ api'[j].pc = "done"
    BY <1>2, <1>5 DEF RejectDispatch, Written, Dirty, MarkFailed, ApiStates, Rows
  <1>6. ASSUME NEW k \in Jobs, Create(k)
        PROVE  \A j \in Jobs :
                 \/ row'[j].status = row[j].status
                 \/ row[j].status = "none" /\ row'[j].status = "queued" /\ api'[j].pc = "committed"
    BY <1>2, <1>6 DEF Create, Created, ApiStates
  <1>7. CASE row' = row
    BY <1>1, <1>7
  <1> QED  BY <1>1, <1>3, <1>4, <1>5, <1>6, <1>7
           DEF CleanerStep, CleanerSelect, ApiStep, Dispatch, Refresh, DispatchRaises, ApiCrash,
               AdminRead, Elapse, InputsRemoved, Terminal

LEMMA OverStays ==
  ASSUME Sole, Single, [Next]_vars, NEW j \in Jobs, Over(j)
  PROVE  Over(j)'
  <1>1. CASE UNCHANGED vars
    BY <1>1 DEF vars, Over, Quiet
  <1>2. CASE \/ AdminCommit \/ CleanerStep
             \/ \E k \in Jobs : \/ Create(k) \/ ApiStep(k) \/ DispatchRaises(k) \/ ApiCrash(k)
                                \/ AdminRead(k) \/ Elapse(k) \/ InputsRemoved(k)
    <2>1. row[j].status # "none"
      BY DEF Over, Terminal
    <2> QED  BY <1>2, <2>1, OthersLeave DEF Over, Quiet, Terminal
  <1>3. ASSUME NEW w \in Workers, WorkerStep(w) \/ WorkerUpset(w)
        PROVE  Over(j)'
    <2>1. /\ Takes(w) \/ Drops(w) \/ Goes(w)
          /\ \A v \in Workers : v # w => worker'[v] = worker[v]
      BY <1>3, WorkersMove DEF Sole, Single
    <2>2. CASE Takes(w)
      BY <2>1, <2>2 DEF Takes, Over, Quiet
    <2>3. CASE Drops(w)
      <3>1. worker'[w].job = NoJob /\ row' = row
        BY <2>3 DEF Drops, Idle
      <3> QED  BY <2>1, <3>1, ConstantsAssumption DEF Over, Quiet
    <2>4. CASE Goes(w)
      <3> DEFINE k == worker[w].job
      <3>1. PICK r \in Rows : /\ row' = [row EXCEPT ![k] = r]
                              /\ Loads(w, r) \/ Claims(w, r) \/ Works(w, r) \/ Ends(w, r)
        BY <2>4 DEF Goes
      <3>2. worker'[w].job = k /\ row \in [Jobs -> Rows]
        BY <2>4 DEF Goes, Sole, Typing, TypeOK
      <3>3. CASE k = j
        <4>1. worker[w].pc \in {"received", "finally", "published"}
          BY <3>3 DEF Over, Quiet
        <4>2. Works(w, r) /\ worker[w].pc = "finally"
          BY <3>1, <3>3, <4>1 DEF Loads, Claims, Works, Ends, RunPCs, Over
        <4>3. worker'[w].pc = "published" /\ r.status = row[j].status
          BY <3>3, <4>2 DEF Works, RunPCs
        <4> QED  BY <2>1, <3>1, <3>2, <3>3, <4>3 DEF Over, Quiet
      <3>4. CASE k # j
        BY <2>1, <3>1, <3>2, <3>4 DEF Over, Quiet
      <3> QED  BY <3>3, <3>4
    <2> QED  BY <2>1, <2>2, <2>3, <2>4
  <1> QED  BY <1>1, <1>2, <1>3 DEF Next

\* Links appear when the job is over, from the one run that ended it.
FromOneRun ==
  /\ Sole
  /\ \A j \in Jobs : outputs[j] # {} =>
       /\ Over(j)
       /\ \A o1, o2 \in outputs[j] : o1.run = o2.run

LEMMA FromOneRunStep ==
  ASSUME FromOneRun, Single, [Next]_vars
  PROVE  FromOneRun'
  <1>1. Sole'
    BY SoleStep DEF FromOneRun
  <1>2. \A j \in Jobs : Over(j) => Over(j)'
    BY OverStays DEF FromOneRun
  <1>3. CASE outputs' = outputs
    BY <1>1, <1>2, <1>3 DEF FromOneRun
  <1>4. ASSUME NEW w \in Workers, Goes(w), outputs' # outputs,
               \A v \in Workers : v # w => worker'[v] = worker[v]
        PROVE  FromOneRun'
    <2>0. PICK k \in Jobs : k = worker[w].job
      BY <1>4 DEF Goes, FromOneRun, Sole, Typing, TypeOK, WorkerOK
    <2>1. PICK r \in Rows : /\ row' = [row EXCEPT ![k] = r] /\ Ends(w, r)
                            /\ outputs' = [outputs EXCEPT ![k] = @ \cup Flushed(w)]
      BY <1>4, <2>0 DEF Goes
    <2>2. worker[w].pc \in RunPCs /\ row \in [Jobs -> Rows]
          /\ outputs \in [Jobs -> SUBSET Output]
      BY <1>4, <2>1 DEF Ends, FromOneRun, Sole, Typing, TypeOK
    <2>3. outputs[k] = {}
      <3>1. ~Quiet(k)
        BY <2>0, <2>2 DEF Quiet, RunPCs
      <3> QED  BY <2>2, <3>1 DEF FromOneRun, Over
    <2>4. /\ outputs'[k] = Flushed(w)
          /\ \A j \in Jobs : j # k => outputs'[j] = outputs[j]
      BY <2>1, <2>2, <2>3
    <2>5. \A o1, o2 \in Flushed(w) : o1.run = o2.run
      BY DEF Flushed
    <2>6. Over(k)'
      <3>1. row'[k].status \in Terminal
        BY <2>1, <2>2 DEF Ends, Terminal
      <3>2. \A v \in Workers : v # w => worker[v].job # k
        BY <2>0 DEF FromOneRun, Sole, Alone
      <3>3. worker'[w].pc = "finally"
        BY <2>1 DEF Ends
      <3>4. \A v \in Workers : worker'[v].job = k => worker'[v].pc = "finally"
        BY <1>4, <3>2, <3>3
      <3> QED  BY <3>1, <3>4 DEF Over, Quiet
    <2>7. ASSUME NEW j \in Jobs, outputs'[j] # {}
          PROVE  Over(j)' /\ \A o1, o2 \in outputs'[j] : o1.run = o2.run
      <3>1. CASE j = k
        BY <2>4, <2>5, <2>6, <3>1
      <3>2. CASE j # k
        BY <1>2, <2>4, <2>7, <3>2 DEF FromOneRun
      <3> QED  BY <3>1, <3>2
    <2> QED  BY <1>1, <2>7 DEF FromOneRun
  <1>5. CASE UNCHANGED vars
    BY <1>3, <1>5 DEF vars
  <1>6. ASSUME NEW w \in Workers, WorkerStep(w) \/ WorkerUpset(w)
        PROVE  FromOneRun'
    <2>1. /\ Takes(w) \/ Drops(w) \/ Goes(w)
          /\ \A v \in Workers : v # w => worker'[v] = worker[v]
      BY <1>6, WorkersMove DEF FromOneRun, Sole, Single
    <2>2. CASE Takes(w) \/ Drops(w)
      BY <1>3, <2>2 DEF Takes, Drops
    <2> QED  BY <1>3, <1>4, <2>1, <2>2
  <1> QED  BY <1>3, <1>5, <1>6, OthersLeave DEF Next, FromOneRun

\* The results of a completed job come from a single run, whatever crashes or
\* fails, as long as no message is delivered twice and no admin "retries" it.
THEOREM ResultsOfOneRun ==
  ASSUME Single
  PROVE  Spec => []CompletedFromOneRun
  <1>1. Init => FromOneRun
    BY StartIsSole DEF Init, FromOneRun
  <1>2. FromOneRun /\ [Next]_vars => FromOneRun'
    BY FromOneRunStep
  <1>3. FromOneRun => CompletedFromOneRun
    BY DEF FromOneRun, CompletedFromOneRun
  <1> QED  BY <1>1, <1>2, <1>3, PTL DEF Spec

-----------------------------------------------------------------------------
(* No job is stranded.                                                      *)

\* The upsets of the run JobRecovery.
Recoverable == Upsets \subseteq {"publish_lost", "publish_late", "node_crash", "admin_cancel"}

\* Every worker owes the broker its acknowledgement and ends only what is over;
\* a request that still has to report an unavailable queue has not seen a
\* failure that anybody could take back.
Served ==
  /\ Sole /\ NoStrandedJob
  /\ \A w \in Workers :
       /\ worker[w].pc # "idle" => worker[w].unacked
       /\ worker[w].pc \in {"finally", "published"}
            => row[worker[w].job].status \in Terminal
  /\ \A j \in Jobs :
       /\ api[j].pc \in {"committed", "raised"} /\ row[j].status = "failed" => Over(j)
       /\ api[j].pc = "refreshed" /\ api[j].view.status = "failed" => Over(j)

\* A worker that has job k changes nothing for the others.
LEMMA ElsewhereServed ==
  ASSUME Served, Sole', NEW w \in Workers, NEW k \in Jobs,
         \A v \in Workers : v # w => worker'[v] = worker[v], UNCHANGED <<api, admin, cleaner>>,
         \A j \in Jobs : Over(j) => Over(j)',
         worker[w].job = k \/ worker[w].pc = "idle", worker'[w].job = k \/ worker'[w].pc = "idle",
         \A j \in Jobs : j # k => row'[j] = row[j] /\ queue'[j] = queue[j],
         worker'[w].pc # "idle" => worker'[w].unacked,
         worker'[w].pc \in {"finally", "published"} => row'[k].status \in Terminal,
         row'[k].status = "failed" => row[k].status = "failed" \/ Over(k)',
         row'[k].status \in {"queued", "processing"} =>
           queue'[k] > 0 \/ worker'[w].pc \in {"received", "loaded"} \cup RunPCs
  PROVE  Served'
  <1>0. worker[w].job \in {k, NoJob} /\ NoJob \notin Jobs
        /\ \A v \in Workers : worker[v].pc # "idle" => worker[v].job \in Jobs
    BY ConstantsAssumption DEF Served, Sole, Typing, WorkerOK
  <1>1. \A v \in Workers : worker'[v].pc # "idle" => worker'[v].unacked
    BY DEF Served
  <1>2. ASSUME NEW v \in Workers, worker'[v].pc \in {"finally", "published"}
        PROVE  row'[worker'[v].job].status \in Terminal
    <2>1. CASE v = w
      BY <1>2, <2>1
    <2>2. CASE v # w
      <3>1. worker'[v] = worker[v] /\ row[worker[v].job].status \in Terminal
            /\ worker[v].job \in Jobs
        BY <1>0, <1>2, <2>2 DEF Served
      <3>2. Over(worker[v].job) \/ worker[v].job # k \/ row'[k].status \in Terminal
        <4>1. CASE worker[v].job = k
          <5>1. \A u \in Workers : worker[u].job = k => u = v
            BY <4>1 DEF Served, Sole, Alone
          <5>2. worker[v].pc \in {"finally", "published"}
            BY <1>2, <3>1
          <5> QED  BY <3>1, <5>1, <5>2 DEF Over, Quiet
        <4> QED  BY <4>1
      <3> QED  BY <3>1, <3>2 DEF Over
    <2> QED  BY <2>1, <2>2
  <1>3. ASSUME NEW j \in Jobs, row'[j].status \in {"queued", "processing"}
        PROVE  Backed(j)'
    <2>1. CASE j = k
      BY <1>3, <2>1 DEF Backed, RunPCs
    <2>2. CASE j # k
      <3>1. Backed(j)
        BY <1>3, <2>2 DEF Served, NoStrandedJob
      <3>2. \A v \in Workers : worker[v].job = j => worker'[v] = worker[v]
        BY <1>0, <2>2
      <3> QED  BY <2>2, <3>1, <3>2 DEF Backed
    <2> QED  BY <2>1, <2>2
  <1>4. ASSUME NEW j \in Jobs
        PROVE  /\ api'[j].pc \in {"committed", "raised"} /\ row'[j].status = "failed" => Over(j)'
               /\ api'[j].pc = "refreshed" /\ api'[j].view.status = "failed" => Over(j)'
    <2>1. CASE j = k
      BY <2>1 DEF Served
    <2>2. CASE j # k
      BY <2>2 DEF Served
    <2> QED  BY <2>1, <2>2
  <1>5. NoStrandedJob'
    BY <1>3 DEF NoStrandedJob
  <1> QED  BY <1>1, <1>2, <1>4, <1>5 DEF Served

LEMMA ServedByWorkers ==
  ASSUME Served, Recoverable, Sole', NEW w \in Workers, Takes(w) \/ Drops(w) \/ Goes(w),
         \A v \in Workers : v # w => worker'[v] = worker[v], UNCHANGED <<api, admin, cleaner>>,
         \A j \in Jobs : Over(j) => Over(j)'
  PROVE  Served'
  <1>1. row \in [Jobs -> Rows] /\ queue \in [Jobs -> Nat]
    BY DEF Served, Sole, Typing, TypeOK
  <1>2. CASE Takes(w)
    <2>1. PICK k \in Jobs : /\ worker[w].pc = "idle" /\ queue' = [queue EXCEPT ![k] = @ - 1]
                            /\ worker'[w].pc = "received" /\ worker'[w].job = k
                            /\ worker'[w].unacked /\ row' = row
      BY <1>2 DEF Takes
    <2>2. \A j \in Jobs : j # k => queue'[j] = queue[j]
      BY <1>1, <2>1
    <2> QED  BY <2>1, <2>2, ElsewhereServed
  <1>3. ASSUME Drops(w) \/ Goes(w)
        PROVE  Served'
    <2>0. PICK k \in Jobs : k = worker[w].job
      BY <1>3 DEF Drops, Goes, Served, Sole, Typing, WorkerOK
    <2>1. worker[w].pc # "idle" /\ worker[w].unacked
      BY <1>3 DEF Drops, Goes, Served
    <2>2. CASE Drops(w)
      <3>1. worker'[w].pc = "idle" /\ row' = row
        BY <2>2 DEF Drops, Idle
      <3>2. \/ row[k].status \in Terminal \cup {"none"} /\ queue' = queue
            \/ queue' = [queue EXCEPT ![k] = @ + 1]
        BY <2>0, <2>1, <2>2 DEF Drops, Restored, Served, Recoverable
      <3>3. /\ \A j \in Jobs : j # k => queue'[j] = queue[j]
            /\ row[k].status \in {"queued", "processing"} => queue'[k] > 0
        BY <1>1, <3>2 DEF Terminal
      <3> QED  BY <2>0, <3>1, <3>3, ElsewhereServed
    <2>3. CASE Goes(w)
      <3>1. PICK r \in Rows :
              /\ row' = [row EXCEPT ![k] = r]
              /\ Loads(w, r) \/ Claims(w, r) \/ Works(w, r) \/ Ends(w, r)
        BY <2>0, <2>3 DEF Goes
      <3>2. /\ worker'[w].job = k /\ worker'[w].unacked /\ queue' = queue /\ row'[k] = r
            /\ \A j \in Jobs : j # k => row'[j] = row[j]
        BY <1>1, <2>0, <2>1, <2>3, <3>1 DEF Goes
      <3>3. CASE Loads(w, r)
        <4>1. worker'[w].pc = "loaded" /\ r.status # "failed"
          BY <3>3 DEF Loads, Terminal
        <4> QED  BY <2>0, <3>2, <4>1, ElsewhereServed
      <3>4. CASE Claims(w, r)
        <4>1. worker'[w].pc = "claimed" /\ r.status \in {row[k].status, "processing"}
          BY <2>0, <3>4 DEF Claims
        <4> QED  BY <2>0, <3>2, <4>1, ElsewhereServed DEF RunPCs
      <3>5. CASE Works(w, r)
        <4>1. /\ r.status = row[k].status
              /\ \/ worker'[w].pc \in RunPCs
                 \/ worker'[w].pc = "published" /\ row[k].status \in Terminal
          BY <2>0, <3>5 DEF Works, Served, Recoverable
        <4>2. "published" \notin RunPCs /\ "finally" \notin RunPCs
          BY DEF RunPCs
        <4> QED  BY <2>0, <3>2, <4>1, <4>2, ElsewhereServed DEF Terminal
      <3>6. CASE Ends(w, r)
        <4>1. worker'[w].pc = "finally" /\ r.status \in {"completed", "failed"}
          BY <3>6 DEF Ends
        <4>2. \A v \in Workers : v # w => worker[v].job # k
          BY <2>0 DEF Served, Sole, Alone
        <4>3. Over(k)'
          BY <3>2, <4>1, <4>2 DEF Over, Quiet, Terminal
        <4> QED  BY <2>0, <3>2, <4>1, <4>3, ElsewhereServed DEF Terminal
      <3> QED  BY <3>1, <3>3, <3>4, <3>5, <3>6
    <2> QED  BY <1>3, <2>2, <2>3
  <1> QED  BY <1>2, <1>3

LEMMA ServedByOthers ==
  ASSUME Served, Recoverable, Sole',
         \A j \in Jobs : Over(j) => Over(j)',
         \/ AdminCommit \/ CleanerStep
         \/ \E k \in Jobs : \/ Create(k) \/ ApiStep(k) \/ DispatchRaises(k) \/ ApiCrash(k)
                            \/ AdminRead(k) \/ Elapse(k) \/ InputsRemoved(k)
  PROVE  Served'
  <1>0. /\ row \in [Jobs -> Rows] /\ queue \in [Jobs -> Nat] /\ api \in [Jobs -> ApiStates]
        /\ \A w \in Workers : worker[w].pc # "idle" => worker[w].job \in Jobs
        /\ Sole /\ Single
    BY DEF Served, Sole, Typing, TypeOK, WorkerOK, Recoverable, Single
  <1>1. /\ UNCHANGED <<worker, outputs>>
        /\ \A j \in Jobs :
             \/ row'[j].status = row[j].status
             \/ row[j].status = "none" /\ row'[j].status = "queued" /\ api'[j].pc = "committed"
             \/ row'[j].status \in {"cancelled", "expired"}
             \/ row'[j].status = "failed" /\ api'[j].pc = "done"
    BY <1>0, OthersLeave
  <1>2. \A w \in Workers : /\ worker'[w].pc # "idle" => worker'[w].unacked
                           /\ worker'[w].pc \in {"finally", "published"}
                                => row'[worker'[w].job].status \in Terminal
    BY <1>0, <1>1 DEF Served, Terminal
  <1>3. ASSUME NEW j \in Jobs
        PROVE  \/ api'[j] = api[j] /\ queue'[j] = queue[j]
               \/ Create(j) \/ Dispatch(j) \/ DispatchRaises(j) \/ Refresh(j) \/ RejectDispatch(j)
    <2>1. ~ApiCrash(j)
      BY DEF ApiCrash, Upset, Recoverable
    <2> QED  BY <1>0, <2>1 DEF AdminCommit, CleanerStep, CleanerSelect, CleanerCommit, Create,
                     ApiStep, Dispatch, Refresh, RejectDispatch, DispatchRaises, ApiCrash,
                     AdminRead, Elapse, InputsRemoved
  <1>4. ASSUME NEW j \in Jobs
        PROVE  /\ row'[j].status \in {"queued", "processing"} => Backed(j)'
               /\ api'[j].pc \in {"committed", "raised"} /\ row'[j].status = "failed" => Over(j)'
               /\ api'[j].pc = "refreshed" /\ api'[j].view.status = "failed" => Over(j)'
    <2>1. CASE api'[j] = api[j] /\ queue'[j] = queue[j]
      <3>1. row'[j].status \in {"queued", "processing"} => Backed(j)'
        BY <1>1, <2>1 DEF Served, NoStrandedJob, Backed
      <3>2. row'[j].status = "failed" => row[j].status = "failed" \/ api'[j].pc = "done"
        BY <1>1
      <3> QED  BY <2>1, <3>1, <3>2 DEF Served
    <2>2. CASE Create(j)
      <3>1. row'[j].status = "queued" /\ api'[j].pc = "committed"
        BY <1>0, <2>2 DEF Create, Created, ApiStates
      <3> QED  BY <3>1 DEF Backed
    <2>3. CASE Dispatch(j)
      <3>1. queue'[j] > 0 /\ api'[j].pc = "done"
        BY <1>0, <2>3 DEF Dispatch, ApiStates
      <3> QED  BY <3>1 DEF Backed
    <2>4. CASE DispatchRaises(j)
      <3>1. api[j].pc = "committed" /\ api'[j].pc = "raised" /\ row' = row
        BY <1>0, <2>4 DEF DispatchRaises, Dispatchable, ApiStates
      <3> QED  BY <3>1 DEF Backed, Served
    <2>5. CASE Refresh(j)
      <3>1. api[j].pc = "raised" /\ api'[j].pc = "refreshed" /\ api'[j].view = row[j]
        BY <1>0, <2>5 DEF Refresh
      <3> QED  BY <3>1 DEF Backed, Served
    <2>6. CASE RejectDispatch(j)
      <3>1. /\ api[j].pc = "refreshed" /\ api'[j].pc = "done"
            /\ api[j].view \in Rows
            /\ api[j].view.status # "failed" => row'[j].status = "failed"
        BY <1>0, <2>6 DEF RejectDispatch, Written, Dirty, MarkFailed, ApiStates, Rows
      <3>2. row'[j].status \in Terminal
        <4>1. CASE api[j].view.status = "failed"
          BY <3>1, <4>1 DEF Served, Over
        <4>2. CASE api[j].view.status # "failed"
          BY <3>1, <4>2 DEF Terminal
        <4> QED  BY <4>1, <4>2
      <3> QED  BY <3>1, <3>2 DEF Terminal
    <2> QED  BY <1>3, <2>1, <2>2, <2>3, <2>4, <2>5, <2>6
  <1> QED  BY <1>2, <1>4 DEF Served, NoStrandedJob

\* No job that is queued or processing is forgotten, however many nodes die and
\* dispatches raise, whether or not the broker had accepted the message.
THEOREM NoJobIsStranded ==
  ASSUME Recoverable
  PROVE  Spec => []NoStrandedJob
  <1>0. Single
    BY DEF Recoverable, Single
  <1>1. Init => Served
    BY StartIsSole DEF Init, Served, NoStrandedJob, NoRow, Idle
  <1>2. Served /\ [Next]_vars => Served'
    <2> SUFFICES ASSUME Served, [Next]_vars PROVE Served'
      OBVIOUS
    <2>1. Sole' /\ \A j \in Jobs : Over(j) => Over(j)'
      BY <1>0, SoleStep, OverStays DEF Served
    <2>2. CASE UNCHANGED vars
      BY <2>1, <2>2 DEF vars, Served, NoStrandedJob, Backed
    <2>3. ASSUME NEW w \in Workers, WorkerStep(w) \/ WorkerUpset(w)
          PROVE  Served'
      BY <1>0, <2>1, <2>3, WorkersMove, ServedByWorkers DEF Served, Sole, Single
    <2> QED  BY <2>1, <2>2, <2>3, ServedByOthers DEF Next
  <1>3. Served => NoStrandedJob
    BY DEF Served
  <1> QED  BY <1>1, <1>2, <1>3, PTL DEF Spec

=============================================================================
