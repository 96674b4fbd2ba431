-------------------------- MODULE OfficePoolProofs --------------------------
(***************************************************************************)
(* Theorems about OfficePool, for any number of threads, slots, launchers,  *)
(* conversions and upsets of every kind.                                    *)
(***************************************************************************)
EXTENDS OfficePool, FiniteSetTheorems, TLAPS

\* The places where a thread looks at the process it leased or is starting,
\* where it owns that process, and where it has not yet put it in the table.
Serving == {"probe", "spawn", "send", "wait", "judge"}
Owning == {"probe", "spawn", "send", "wait"}
Fresh == {"probe", "spawn"}

\* What is known of a thread at each place, n processes having been started.
ThreadOK(c, n) ==
  /\ c \in Thread
  /\ c.pc \in SlotHeld \cup {"acquire"} => c.slot \in Slots
  /\ c.pc \in Serving => c.server \in 1..n
  /\ c.pc = "probe" => c.cand \in 1..Candidates

Typing ==
  /\ TypeOK
  /\ table \in [Slots -> 0..Len(proc)]
  /\ \A t \in Threads : ThreadOK(conv[t], Len(proc))

\* Each lock is held by the thread that stands where it is held.
Locks ==
  /\ \A t \in Threads : conv[t].pc \in SlotHeld => conv[t].slot \in locked
  /\ \A t, u \in Threads :
       /\ conv[t].pc \in SlotHeld
       /\ conv[u].pc \in SlotHeld
       /\ conv[t].slot = conv[u].slot
       => t = u
  /\ \A t \in Threads : conv[t].pc \in PoolHeld => poolLocked
  /\ \A t, u \in Threads :
       conv[t].pc \in PoolHeld /\ conv[u].pc \in PoolHeld => t = u

\* A process has one owner, and one place in the table at most: its owner's.
Servers ==
  /\ \A t, u \in Threads :
       /\ conv[t].pc \in Owning
       /\ conv[u].pc \in Owning
       /\ conv[t].server = conv[u].server
       => t = u
  /\ \A t \in Threads, s \in Slots :
       conv[t].pc \in Fresh => table[s] # conv[t].server
  /\ \A t \in Threads, s \in Slots :
       Busy(t) /\ table[s] = conv[t].server => s = conv[t].slot
  /\ \A r, s \in Slots : table[r] = table[s] /\ table[r] > 0 => r = s

\* A document a client waits for is inside its server, while that runs.
Occupied ==
  \A t \in Threads : At(t, "wait") /\ State(conv[t].server) = "up"
    => proc[conv[t].server].inside > 0

\* The score, and what a thread has read of it, is covered by the crashes
\* recorded; a pool is activated only while none was and none is disabled.
Cause ==
  /\ strikes <= StrikeCost * crashes
  /\ \A t \in Threads : conv[t].pc \in {"score", "repaid"}
       => conv[t].read <= StrikeCost * crashes
  /\ \A t \in Threads : At(t, "probe") => ~pool /\ ~disabled
  /\ DisabledForCause

Inductive == Typing /\ Locks /\ Servers /\ Occupied /\ Cause

-----------------------------------------------------------------------------
(* The processes.                                                           *)

LEMMA BootingTyped == Booting \in Process
  BY DEF Booting, Process

LEMMA Replaced ==
  ASSUME NEW s \in Seq(Process), NEW i \in 1..Len(s), NEW r \in Process
  PROVE  /\ [s EXCEPT ![i] = r] \in Seq(Process)
         /\ Len([s EXCEPT ![i] = r]) = Len(s)
  OBVIOUS

LEMMA Started ==
  ASSUME NEW s \in Seq(Process)
  PROVE  /\ Append(s, Booting) \in Seq(Process)
         /\ Len(Append(s, Booting)) = Len(s) + 1
  BY BootingTyped

LEMMA StateTyped ==
  ASSUME NEW r \in Process, NEW st \in {"booting", "up", "dying", "dead"}
  PROVE  [r EXCEPT !.state = st] \in Process
  BY DEF Process

\* What a thread's step may do to the processes.
LEMMA ThreadProcesses ==
  ASSUME Typing, Occupied, NEW t \in Threads,
         Begin(t) \/ BeginWarm(t) \/ Convert(t)
  PROVE  proc' \in Seq(Process) /\ Len(proc') \in {Len(proc), Len(proc) + 1}
<1> DEFINE me == conv[t]
<1>0. /\ proc \in Seq(Process) /\ Len(proc) \in Nat
      /\ ThreadOK(me, Len(proc))
  BY DEF Typing, TypeOK
<1>1. ASSUME NEW st \in {"booting", "up", "dying", "dead"}, me.pc \in Serving
      PROVE  LET s == [proc EXCEPT ![me.server].state = st]
             IN s \in Seq(Process) /\ Len(s) = Len(proc)
  <2>1. me.server \in 1..Len(proc)
    BY <1>0, <1>1 DEF ThreadOK
  <2>2. proc[me.server] \in Process
    BY <1>0, <2>1
  <2>3. [proc[me.server] EXCEPT !.state = st] \in Process
    BY <2>2, StateTyped
  <2> QED
    BY <1>0, <2>1, <2>3, Replaced
<1>2. CASE ProbeUp(t)
  BY <1>0, <1>1, <1>2 DEF ProbeUp, At, Serving
<1>3. CASE ProbeFails(t)
  BY <1>0, <1>1, <1>3, Started DEF ProbeFails, At, Serving
<1>4. CASE SpawnUp(t)
  BY <1>0, <1>1, <1>4 DEF SpawnUp, At, Serving
<1>5. CASE SpawnFails(t)
  BY <1>0, <1>1, <1>5 DEF SpawnFails, At, Serving
<1>6. CASE Activate(t)
  BY <1>0, <1>6, Started DEF Activate
<1>7. CASE Spawn(t)
  BY <1>0, <1>7, Started DEF Spawn
<1>8. CASE Send(t)
  <2>1. me.server \in 1..Len(proc)
    BY <1>0, <1>8 DEF ThreadOK, Send, At, Serving
  <2>2. proc[me.server] \in Process
    BY <1>0, <2>1
  <2>3. [proc[me.server] EXCEPT !.inside = @ + 1] \in Process
    BY <2>2 DEF Process
  <2>4. CASE State(me.server) = "up"
    <3>1. proc' = [proc EXCEPT ![me.server] =
                     [proc[me.server] EXCEPT !.inside = @ + 1]]
      BY <1>0, <1>8, <2>1, <2>2, <2>4 DEF Send, Process
    <3> QED
      BY <1>0, <2>1, <2>3, <3>1, Replaced
  <2>5. CASE State(me.server) # "up"
    BY <1>0, <1>8, <2>5 DEF Send
  <2> QED
    BY <2>4, <2>5
<1>9. CASE Answer(t)
  <2>1. me.server \in 1..Len(proc)
    BY <1>0, <1>9 DEF ThreadOK, Answer, At, Serving
  <2>2. proc[me.server] \in Process
    BY <1>0, <2>1
  <2>3. proc[me.server].inside > 0
    BY <1>9 DEF Answer, Occupied
  <2>4. [proc[me.server] EXCEPT !.inside = @ - 1] \in Process
    BY <2>2, <2>3 DEF Process
  <2>5. proc' = [proc EXCEPT ![me.server] =
                   [proc[me.server] EXCEPT !.inside = @ - 1]]
    BY <1>0, <1>9, <2>1, <2>2 DEF Answer, Process
  <2> QED
    BY <1>0, <2>1, <2>4, <2>5, Replaced
<1>10. CASE Shutdown(t)
  <2> DEFINE stop(p) == IF (\E s \in Slots : table[s] = p) /\ Alive(p)
                        THEN [proc[p] EXCEPT !.state = "dead"] ELSE proc[p]
  <2>1. ASSUME NEW p \in 1..Len(proc)
        PROVE  stop(p) \in Process
    <3>1. proc[p] \in Process
      BY <1>0
    <3>2. [proc[p] EXCEPT !.state = "dead"] \in Process
      BY <3>1, StateTyped
    <3> QED
      BY <3>1, <3>2
  <2>2. proc' = [p \in 1..Len(proc) |-> stop(p)]
    BY <1>0, <1>10 DEF Shutdown
  <2> HIDE DEF stop
  <2>3. [p \in 1..Len(proc) |-> stop(p)] \in Seq(Process)
    BY <1>0, <2>1
  <2>4. Len([p \in 1..Len(proc) |-> stop(p)]) = Len(proc)
    BY <1>0
  <2> QED
    BY <2>2, <2>3, <2>4
<1>11. CASE UNCHANGED proc
  BY <1>0, <1>11
<1> QED
  BY <1>2, <1>3, <1>4, <1>5, <1>6, <1>7, <1>8, <1>9, <1>10, <1>11
  DEF Convert, Begin, BeginWarm, Choose, Fallback, Soffice, Pick, Acquire,
      Reuse, SpawnError, ConnectionLost, Timeout, Judge, Strike, Score, Limit,
      Clear, Repay, Repaid

\* What LibreOffice and unoserver do on their own.
LEMMA ServerProcesses ==
  ASSUME Typing, NEW p \in DOMAIN proc, Server(p)
  PROVE  proc' \in Seq(Process) /\ Len(proc') = Len(proc)
<1>0. /\ proc \in Seq(Process) /\ p \in 1..Len(proc)
      /\ proc[p] \in Process
  BY DEF Typing, TypeOK
<1>1. CASE Crash(p)
  <2>1. [state |-> "dying", inside |-> 0] \in Process
    BY DEF Process
  <2> QED
    BY <1>0, <1>1, <2>1, Replaced DEF Crash
<1>2. CASE Exit(p)
  BY <1>0, <1>2, StateTyped, Replaced DEF Exit
<1>3. CASE LateAnswer(p)
  <2>1. Waiting(p) \subseteq Threads
    BY DEF Waiting
  <2>2. Cardinality(Waiting(p)) \in Nat
    <3>1. IsFiniteSet(Threads)
      BY ConstantsAssumption
    <3> QED
      BY <2>1, <3>1, FS_Subset, FS_CardinalityType
  <2> DEFINE c == Cardinality(Waiting(p))
  <2>3. c \in Nat /\ proc[p].inside > c
    BY <1>3, <2>2 DEF LateAnswer
  <2> HIDE DEF c
  <2>4. [proc[p] EXCEPT !.inside = @ - 1] \in Process
    BY <1>0, <2>3 DEF Process
  <2>5. proc' = [proc EXCEPT ![p] = [proc[p] EXCEPT !.inside = @ - 1]]
    BY <1>0, <1>3 DEF LateAnswer, Process
  <2> QED
    BY <1>0, <2>4, <2>5, Replaced
<1> QED
  BY <1>1, <1>2, <1>3 DEF Server
-----------------------------------------------------------------------------
(* The steps of a thread, by what they do to the locks and to the table.    *)

SlotMove(t, c) ==
  \/ /\ locked' = locked
     /\ c.pc \in SlotHeld => conv[t].pc \in SlotHeld /\ c.slot = conv[t].slot
  \/ /\ conv[t].slot \notin locked
     /\ conv[t].slot \in Slots
     /\ locked' = locked \cup {conv[t].slot}
     /\ c.slot = conv[t].slot
  \/ /\ conv[t].pc \in SlotHeld
     /\ locked' = locked \ {conv[t].slot}
     /\ c.pc \notin SlotHeld

PoolMove(t, c) ==
  \/ /\ poolLocked' = poolLocked
     /\ c.pc \in PoolHeld => conv[t].pc \in PoolHeld
  \/ /\ ~poolLocked
     /\ poolLocked' = TRUE
  \/ /\ conv[t].pc \in PoolHeld
     /\ poolLocked' = FALSE
     /\ c.pc \notin PoolHeld

ServerMove(t, c) ==
  \/ /\ table' = table
     /\ \/ c.pc \notin Owning
        \/ /\ c.pc \in Fresh
           /\ c.server = Spawned
        \/ /\ conv[t].pc = "ensure"
           /\ c.pc = "send"
           /\ c.slot = conv[t].slot
           /\ c.server = table[conv[t].slot]
           /\ c.server > 0
        \/ /\ conv[t].pc \in {"send", "wait"}
           /\ c.pc \in {"send", "wait"}
           /\ c.slot = conv[t].slot
           /\ c.server = conv[t].server
  \/ /\ conv[t].pc = "probe"
     /\ table' = [s \in Slots |-> IF s = 1 THEN conv[t].server ELSE 0]
     /\ c.pc \notin Owning
  \/ /\ conv[t].pc = "spawn"
     /\ table' = [table EXCEPT ![conv[t].slot] = conv[t].server]
     /\ \/ c.pc \notin Owning
        \/ /\ c.pc = "send"
           /\ c.slot = conv[t].slot
           /\ c.server = conv[t].server
  \/ /\ table' = [s \in Slots |-> 0]
     /\ c.pc \notin Owning

Moves(t, c) ==
  /\ conv' = [conv EXCEPT ![t] = c]
  /\ ThreadOK(c, Len(proc'))
  /\ SlotMove(t, c)
  /\ PoolMove(t, c)
  /\ ServerMove(t, c)

LEMMA MovesTyping ==
  ASSUME Typing, NEW t \in Threads, NEW c, Moves(t, c),
         proc' \in Seq(Process), Len(proc') \in {Len(proc), Len(proc) + 1}
  PROVE  /\ conv' \in [Threads -> Thread]
         /\ locked' \in SUBSET Slots
         /\ poolLocked' \in BOOLEAN
         /\ table' \in [Slots -> 0..Len(proc')]
         /\ table' \in [Slots -> Nat]
         /\ \A u \in Threads : ThreadOK(conv'[u], Len(proc'))
<1>1. /\ Len(proc) \in Nat /\ Len(proc') \in Nat
      /\ conv \in [Threads -> Thread] /\ locked \subseteq Slots
      /\ poolLocked \in BOOLEAN
      /\ table \in [Slots -> 0..Len(proc)]
  BY DEF Typing, TypeOK
<1>2. \A u \in Threads : ThreadOK(conv[u], Len(proc'))
  BY <1>1 DEF Typing, ThreadOK
<1>3. conv' = [conv EXCEPT ![t] = c] /\ ThreadOK(c, Len(proc'))
  BY DEF Moves
<1>4. conv' \in [Threads -> Thread]
  BY <1>1, <1>3 DEF ThreadOK
<1>5. \A u \in Threads : ThreadOK(conv'[u], Len(proc'))
  BY <1>1, <1>2, <1>3
<1>6. locked' \in SUBSET Slots
  BY <1>1 DEF Moves, SlotMove
<1>7. poolLocked' \in BOOLEAN
  BY <1>1 DEF Moves, PoolMove
<1>8. table' \in [Slots -> 0..Len(proc')]
  <2>1. CASE table' = table
    BY <1>1, <2>1
  <2>2. CASE conv[t].pc \in Fresh
    <3>1. conv[t].server \in 0..Len(proc')
      BY <1>1, <1>2, <2>2 DEF ThreadOK, Fresh, Serving
    <3> QED
      BY <1>1, <2>2, <3>1 DEF Moves, ServerMove, Fresh
  <2>3. CASE table' = [s \in Slots |-> 0]
    BY <1>1, <2>3
  <2> QED
    BY <2>1, <2>2, <2>3 DEF Moves, ServerMove, Fresh
<1>9. table' \in [Slots -> Nat]
  BY <1>1, <1>8
<1> QED
  BY <1>4, <1>5, <1>6, <1>7, <1>8, <1>9

LEMMA MovesLocks ==
  ASSUME Typing, Locks, NEW t \in Threads, NEW c, Moves(t, c)
  PROVE  Locks'
<1>1. /\ conv \in [Threads -> Thread]
      /\ conv' = [conv EXCEPT ![t] = c]
  BY DEF Typing, TypeOK, Moves
<1>2. /\ conv'[t] = c
      /\ \A u \in Threads : u # t => conv'[u] = conv[u]
  BY <1>1
<1>3. ASSUME NEW u \in Threads, conv'[u].pc \in SlotHeld
      PROVE  conv'[u].slot \in locked'
  BY <1>2, <1>3 DEF Moves, SlotMove, Locks
<1>4. ASSUME NEW u \in Threads, NEW v \in Threads,
             conv'[u].pc \in SlotHeld, conv'[v].pc \in SlotHeld,
             conv'[u].slot = conv'[v].slot
      PROVE  u = v
  BY <1>2, <1>4 DEF Moves, SlotMove, Locks
<1>5. ASSUME NEW u \in Threads, conv'[u].pc \in PoolHeld
      PROVE  poolLocked'
  BY <1>2, <1>5 DEF Moves, PoolMove, Locks
<1>6. ASSUME NEW u \in Threads, NEW v \in Threads,
             conv'[u].pc \in PoolHeld, conv'[v].pc \in PoolHeld
      PROVE  u = v
  BY <1>2, <1>6 DEF Moves, PoolMove, Locks
<1> QED
  BY <1>3, <1>4, <1>5, <1>6 DEF Locks

LEMMA MovesServers ==
  ASSUME Typing, Locks, Servers, NEW t \in Threads, NEW c, Moves(t, c)
  PROVE  Servers'
<1>1. /\ conv \in [Threads -> Thread]
      /\ conv' = [conv EXCEPT ![t] = c]
      /\ Len(proc) \in Nat
      /\ table \in [Slots -> 0..Len(proc)]
      /\ \A u \in Threads : ThreadOK(conv[u], Len(proc))
  BY DEF Typing, TypeOK, Moves
<1>2. /\ conv'[t] = c
      /\ \A u \in Threads : u # t => conv'[u] = conv[u]
  BY <1>1
<1>3. \A u \in Threads : conv[u].pc \in Owning => conv[u].server \in 1..Len(proc)
  BY <1>1 DEF ThreadOK, Owning, Serving
<1>4. \A u \in Threads : conv[u].pc \in SlotHeld => conv[u].slot \in Slots
  BY <1>1 DEF ThreadOK
<1>5. \A s \in Slots : table[s] \in 0..Len(proc)
  BY <1>1
<1>6. ASSUME NEW u \in Threads, u # t, c.pc \in Owning, conv[u].pc \in Owning
      PROVE  c.server # conv[u].server
  <2>1. CASE c.server = Spawned
    BY <1>1, <1>3, <1>6, <2>1 DEF Spawned
  <2>2. CASE conv[t].pc = "ensure" /\ c.server = table[conv[t].slot]
    <3>1. conv[t].pc \in SlotHeld /\ conv[t].slot \in Slots
      BY <1>4, <2>2 DEF SlotHeld
    <3>2. CASE conv[u].pc \in Fresh
      BY <2>2, <3>1, <3>2 DEF Servers
    <3>3. CASE Busy(u)
      <4>1. conv[u].pc \in SlotHeld /\ conv[u].slot # conv[t].slot
        BY <1>6, <3>1, <3>3 DEF Locks, Busy, SlotHeld
      <4> QED
        BY <2>2, <3>1, <3>3, <4>1 DEF Servers
    <3> QED
      BY <1>6, <3>2, <3>3 DEF Owning, Fresh, Busy
  <2>3. CASE conv[t].pc \in Owning /\ c.server = conv[t].server
    BY <1>6, <2>3 DEF Servers
  <2> QED
    BY <1>6, <2>1, <2>2, <2>3 DEF Moves, ServerMove, Owning
<1>7. ASSUME NEW u \in Threads, NEW v \in Threads,
             conv'[u].pc \in Owning, conv'[v].pc \in Owning,
             conv'[u].server = conv'[v].server
      PROVE  u = v
  BY <1>2, <1>6, <1>7 DEF Servers
<1>8. ASSUME NEW u \in Threads, NEW s \in Slots, conv'[u].pc \in Fresh
      PROVE  table'[s] # conv'[u].server
  <2>1. CASE table' = table
    BY <1>1, <1>2, <1>5, <1>8, <2>1
    DEF Servers, Moves, ServerMove, Fresh, Owning, Spawned
  <2>2. CASE u # t /\ conv[t].pc \in Fresh
    <3>1. conv[u].server # conv[t].server /\ conv[u].server > 0
      BY <1>1, <1>2, <1>3, <1>8, <2>2 DEF Servers, Fresh, Owning
    <3> QED
      BY <1>1, <1>2, <1>8, <2>2, <3>1 DEF Servers, Moves, ServerMove, Fresh
  <2>3. CASE table' = [r \in Slots |-> 0]
    <3>1. conv'[u].server > 0
      BY <1>1, <1>2, <1>8 DEF Moves, ThreadOK, Serving, Fresh
    <3> QED
      BY <2>3, <3>1
  <2> QED
    BY <1>2, <1>8, <2>1, <2>2, <2>3 DEF Moves, ServerMove, Fresh, Owning
<1>9. ASSUME NEW u \in Threads, NEW s \in Slots,
             conv'[u].pc \in {"send", "wait"}, table'[s] = conv'[u].server
      PROVE  s = conv'[u].slot
  <2>0. conv'[u].server > 0
    BY <1>1, <1>2, <1>3, <1>5, <1>9
    DEF Moves, ServerMove, Owning, Fresh, Spawned
  <2>1. CASE u = t
    BY <1>1, <1>2, <1>4, <1>5, <1>9, <2>0, <2>1
    DEF Servers, Moves, ServerMove, Fresh, Owning, Spawned, Busy, SlotHeld
  <2>2. CASE u # t /\ table' = table
    BY <1>2, <1>9, <2>2 DEF Servers, Busy
  <2>3. CASE u # t /\ conv[t].pc \in Fresh
    <3>1. conv[u].server # conv[t].server
      BY <1>2, <1>9, <2>3 DEF Servers, Fresh, Owning
    <3> QED
      BY <1>1, <1>2, <1>9, <2>0, <2>3, <3>1
      DEF Servers, Moves, ServerMove, Fresh, Busy
  <2>4. CASE table' = [q \in Slots |-> 0]
    BY <1>9, <2>0, <2>4
  <2> QED
    BY <2>1, <2>2, <2>3, <2>4 DEF Moves, ServerMove, Fresh
<1>10. ASSUME NEW r \in Slots, NEW s \in Slots,
              table'[r] = table'[s], table'[r] > 0
       PROVE  r = s
  <2>1. CASE table' = table
    BY <1>10, <2>1 DEF Servers
  <2>2. CASE /\ conv[t].pc = "probe"
             /\ table' = [q \in Slots |-> IF q = 1 THEN conv[t].server ELSE 0]
    BY <1>10, <2>2
  <2>3. CASE /\ conv[t].pc = "spawn"
             /\ table' = [table EXCEPT ![conv[t].slot] = conv[t].server]
    BY <1>1, <1>10, <2>3 DEF Servers, Fresh
  <2>4. CASE table' = [q \in Slots |-> 0]
    BY <1>10, <2>4
  <2> QED
    BY <2>1, <2>2, <2>3, <2>4 DEF Moves, ServerMove
<1> QED
  BY <1>7, <1>8, <1>9, <1>10 DEF Servers, Busy
-----------------------------------------------------------------------------
(* Every step of a thread is such a move.                                   *)

LEMMA IdleMoves ==
  ASSUME NEW out \in {"none", "ok", "document", "timeout", "engine"},
         NEW n \in Nat
  PROVE  ThreadOK(Idle(out), n) /\ Idle(out).pc = "idle"
  BY ConstantsAssumption
  DEF ThreadOK, Idle, Thread, Places, SlotHeld, PoolHeld, Serving

\* A thread of which only the place changes.
LEMMA GotoMoves ==
  ASSUME NEW c \in Thread, NEW pc \in Places
  PROVE  LET d == [c EXCEPT !.pc = pc]
         IN /\ d \in Thread
            /\ d.pc = pc
            /\ d.slot = c.slot
            /\ d.server = c.server
            /\ d.cand = c.cand
            /\ d.read = c.read
  BY DEF Thread

\* A thread that leaves its slot, and the pool, for the fallback.
Left(c) == [c EXCEPT !.pc = "fallback", !.slot = 0, !.server = 0, !.read = 0]
LEMMA LeaveMoves ==
  ASSUME NEW c \in Thread, NEW n \in Nat
  PROVE  ThreadOK(Left(c), n) /\ Left(c).pc = "fallback"
<1>1. 0 \in 0..PoolSize /\ "fallback" \in Places
  BY ConstantsAssumption DEF Places
<1>2. Left(c) \in Thread /\ Left(c).pc = "fallback"
  BY <1>1 DEF Left, Thread
<1> QED
  BY <1>2 DEF ThreadOK, SlotHeld, Serving

LEMMA ThreadMoves ==
  ASSUME Typing, NEW t \in Threads, Begin(t) \/ BeginWarm(t) \/ Convert(t),
         proc' \in Seq(Process), Len(proc') \in {Len(proc), Len(proc) + 1}
  PROVE  \E c : Moves(t, c)
<1> DEFINE me == conv[t]
           n == Len(proc')
<1>0. /\ conv \in [Threads -> Thread] /\ me \in Thread
      /\ ThreadOK(me, Len(proc)) /\ ThreadOK(me, n)
      /\ Len(proc) \in Nat /\ n \in Nat
      /\ table \in [Slots -> 0..Len(proc)]
  <2>1. Len(proc) \in Nat /\ n \in Nat
    BY DEF Typing, TypeOK
  <2>2. /\ conv \in [Threads -> Thread] /\ me \in Thread
        /\ ThreadOK(me, Len(proc))
        /\ table \in [Slots -> 0..Len(proc)]
    BY DEF Typing, TypeOK
  <2> QED
    BY <2>1, <2>2 DEF ThreadOK
\* A step to another place that is no server's, locks aside.
<1>1. ASSUME NEW pc \in Places, pc \notin Owning, pc # "acquire",
             pc = "judge" => me.server \in 1..n,
             pc \in SlotHeld => me.slot \in Slots,
             conv' = [conv EXCEPT ![t] = [me EXCEPT !.pc = pc]],
             table' = table,
             SlotMove(t, [me EXCEPT !.pc = pc]),
             PoolMove(t, [me EXCEPT !.pc = pc])
      PROVE  \E c : Moves(t, c)
  <2> DEFINE c == [me EXCEPT !.pc = pc]
  <2>1. c \in Thread /\ c.pc = pc /\ c.slot = me.slot /\ c.server = me.server
    BY <1>0, GotoMoves
  <2> HIDE DEF c
  <2>2. ThreadOK(c, n)
    BY <1>1, <2>1 DEF ThreadOK, Owning, Serving
  <2>3. ServerMove(t, c)
    BY <1>1, <2>1 DEF ServerMove
  <2>4. conv' = [conv EXCEPT ![t] = c] /\ SlotMove(t, c) /\ PoolMove(t, c)
    BY <1>1 DEF c
  <2> QED
    BY <2>2, <2>3, <2>4 DEF Moves
<1>2. ASSUME NEW out \in {"none", "ok", "document", "timeout", "engine"},
             Finish(t, out), table' = table, poolLocked' = poolLocked,
             \/ locked' = locked
             \/ me.pc \in SlotHeld /\ Release(t)
      PROVE  \E c : Moves(t, c)
  <2>1. ThreadOK(Idle(out), n) /\ Idle(out).pc = "idle"
    BY <1>0, IdleMoves
  <2>2. Moves(t, Idle(out))
    BY <1>2, <2>1
    DEF Moves, SlotMove, PoolMove, ServerMove, Finish, Release, SlotHeld,
        PoolHeld, Owning
  <2> QED
    BY <2>2
<1>3. ASSUME Leave(t), table' = table \/ table' = [s \in Slots |-> 0],
             \/ poolLocked' = poolLocked
             \/ me.pc \in PoolHeld /\ poolLocked' = FALSE,
             \/ locked' = locked
             \/ me.pc \in SlotHeld /\ Release(t)
      PROVE  \E c : Moves(t, c)
  <2>1. ThreadOK(Left(me), n) /\ Left(me).pc = "fallback"
    BY <1>0, LeaveMoves
  <2>2. conv' = [conv EXCEPT ![t] = Left(me)]
    BY <1>0, <1>3 DEF Leave, Left, Thread
  <2>3. Moves(t, Left(me))
    BY <1>3, <2>1, <2>2
    DEF Moves, SlotMove, PoolMove, ServerMove, Release, SlotHeld, PoolHeld,
        Owning
  <2> QED
    BY <2>3
\* The conversion, or the prewarming, begins.
<1>4. CASE Begin(t) \/ BeginWarm(t)
  <2> DEFINE new(task, bad) ==
               [pc |-> "choose", task |-> task, bad |-> bad, slot |-> 0,
                server |-> 0, cand |-> 0, read |-> 0, out |-> "none"]
  <2>1. \/ conv' = [conv EXCEPT ![t] = new("convert", FALSE)]
        \/ conv' = [conv EXCEPT ![t] = new("convert", TRUE)]
        \/ conv' = [conv EXCEPT ![t] = new("warm", FALSE)]
    BY <1>4 DEF Begin, BeginWarm, Idle
  <2>2. 0 \in 0..PoolSize /\ 0 \in 0..Candidates /\ 0 \in Nat
    BY ConstantsAssumption
  <2>3. ASSUME NEW task \in {"convert", "warm"}, NEW bad \in BOOLEAN
        PROVE  new(task, bad) \in Thread /\ new(task, bad).pc = "choose"
    BY <2>2 DEF Thread, Places
  <2> HIDE DEF new
  <2>4. PICK c \in Thread : conv' = [conv EXCEPT ![t] = c] /\ c.pc = "choose"
    BY <2>1, <2>3
  <2>5. ThreadOK(c, n)
    BY <2>4 DEF ThreadOK, SlotHeld, Serving
  <2>6. table' = table /\ locked' = locked /\ poolLocked' = poolLocked
    BY <1>4 DEF Begin, BeginWarm
  <2>7. Moves(t, c)
    BY <2>4, <2>5, <2>6
    DEF Moves, SlotMove, PoolMove, ServerMove, SlotHeld, PoolHeld, Owning
  <2> QED
    BY <2>7
\* Steps to another place.
<1>5. CASE Choose(t)
  <2>1. PICK pc \in {"activate", "soffice"} : Goto(t, pc)
    BY <1>5 DEF Choose
  <2>2. [me EXCEPT !.pc = pc].pc = pc
    BY <1>0, GotoMoves DEF Places
  <2> QED
    BY <1>1, <1>5, <2>1, <2>2
    DEF Choose, Goto, SlotMove, PoolMove, SlotHeld, PoolHeld, Places, Owning
<1>6. CASE Fallback(t) /\ Goto(t, "soffice")
  <2>1. [me EXCEPT !.pc = "soffice"].pc = "soffice"
    BY <1>0, GotoMoves DEF Places
  <2> QED
    BY <1>1, <1>6, <2>1
    DEF Fallback, Goto, SlotMove, PoolMove, SlotHeld, PoolHeld, Places, Owning
<1>7. CASE Acquire(t)
  <2>1. me.slot \in Slots
    BY <1>0, <1>7 DEF ThreadOK, Acquire, At
  <2>2. /\ [me EXCEPT !.pc = "ensure"].pc = "ensure"
        /\ [me EXCEPT !.pc = "ensure"].slot = me.slot
    BY <1>0, GotoMoves DEF Places, SlotHeld
  <2> QED
    BY <1>1, <1>7, <2>1, <2>2
    DEF Acquire, Goto, SlotMove, PoolMove, SlotHeld, PoolHeld, Places, Owning
\* Steps inside the slot that keep all locks.
<1>8. ASSUME NEW pc \in {"judge", "repay", "strike", "limit", "shutdown",
                         "clear"},
             Goto(t, pc), me.pc \in SlotHeld, table' = table,
             locked' = locked, poolLocked' = poolLocked,
             pc \in PoolHeld => me.pc \in PoolHeld,
             pc = "judge" => me.pc \in {"send", "wait"}
      PROVE  \E c : Moves(t, c)
  <2>1. me.slot \in Slots
    BY <1>0, <1>8 DEF ThreadOK
  <2>2. pc \in Places /\ pc \notin Owning /\ pc # "acquire"
    BY <1>8 DEF Places, SlotHeld, Owning
  <2>3. /\ [me EXCEPT !.pc = pc].pc = pc
        /\ [me EXCEPT !.pc = pc].slot = me.slot
    BY <1>0, <2>2, GotoMoves
  <2>4. SlotMove(t, [me EXCEPT !.pc = pc]) /\ PoolMove(t, [me EXCEPT !.pc = pc])
    BY <1>8, <2>3 DEF SlotMove, PoolMove
  <2>5. pc = "judge" => me.server \in 1..n
    BY <1>0, <1>8 DEF ThreadOK, Serving
  <2>6. conv' = [conv EXCEPT ![t] = [me EXCEPT !.pc = pc]]
    BY <1>0, <1>8 DEF Goto
  <2> QED
    BY <1>1, <1>8, <2>1, <2>2, <2>4, <2>5, <2>6
\* Steps that change more of the thread than its place.
<1>9. ASSUME NEW c \in Thread, conv' = [conv EXCEPT ![t] = c],
             c.pc \notin SlotHeld, c.pc \notin Owning, c.pc # "judge",
             c.pc = "acquire" => c.slot \in Slots,
             \/ table' = table
             \/ /\ me.pc = "probe"
                /\ table' = [s \in Slots |-> IF s = 1 THEN me.server ELSE 0]
             \/ /\ me.pc = "spawn"
                /\ table' = [table EXCEPT ![me.slot] = me.server],
             locked' = locked \/ (me.pc \in SlotHeld /\ Release(t)),
             \/ poolLocked' = poolLocked
             \/ me.pc \in PoolHeld /\ poolLocked' = FALSE
      PROVE  \E d : Moves(t, d)
  <2>1. ThreadOK(c, n)
    BY <1>9 DEF ThreadOK, Serving, Owning
  <2>2. c.pc \notin PoolHeld
    BY <1>9 DEF SlotHeld, PoolHeld, Owning
  <2>3. SlotMove(t, c) /\ PoolMove(t, c) /\ ServerMove(t, c)
    BY <1>9, <2>2 DEF SlotMove, PoolMove, ServerMove, Release
  <2> QED
    BY <1>9, <2>1, <2>3 DEF Moves
<1>10. /\ "pick" \in Places /\ "acquire" \in Places /\ "fallback" \in Places
       /\ 1 \in 0..PoolSize /\ 0 \in 0..PoolSize /\ 1 \in Slots
  BY ConstantsAssumption DEF Places, Slots
<1>11. CASE Activate(t)
  <2>1. CASE pool
    <3>1. \/ conv' = [conv EXCEPT ![t] = [me EXCEPT !.pc = "pick"]]
          \/ conv' = [conv EXCEPT ![t] =
                        [me EXCEPT !.pc = "acquire", !.slot = 1]]
      BY <1>0, <1>11, <2>1 DEF Activate
    <3>2. /\ [me EXCEPT !.pc = "pick"] \in Thread
          /\ [me EXCEPT !.pc = "pick"].pc = "pick"
          /\ [me EXCEPT !.pc = "acquire", !.slot = 1] \in Thread
          /\ [me EXCEPT !.pc = "acquire", !.slot = 1].pc = "acquire"
          /\ [me EXCEPT !.pc = "acquire", !.slot = 1].slot = 1
      BY <1>0, <1>10 DEF Thread
    <3>3. table' = table /\ locked' = locked /\ poolLocked' = poolLocked
      BY <1>11, <2>1 DEF Activate
    <3> QED
      BY <1>9, <1>10, <3>1, <3>2, <3>3 DEF SlotHeld, Owning
  <2>2. CASE Goto(t, "fallback") /\ poolLocked' = poolLocked
    <3>1. conv' = [conv EXCEPT ![t] = [me EXCEPT !.pc = "fallback"]]
      BY <1>0, <2>2 DEF Goto
    <3>2. /\ [me EXCEPT !.pc = "fallback"] \in Thread
          /\ [me EXCEPT !.pc = "fallback"].pc = "fallback"
      BY <1>0, <1>10 DEF Thread
    <3>3. table' = table /\ locked' = locked
      BY <1>11 DEF Activate
    <3> QED
      BY <1>9, <2>2, <3>1, <3>2, <3>3 DEF SlotHeld, Owning
  <2>3. CASE /\ Candidates > 0 /\ ~poolLocked /\ poolLocked' = TRUE
             /\ proc' = Append(proc, Booting)
             /\ conv' = [conv EXCEPT ![t].pc = "probe", ![t].cand = 1,
                                     ![t].server = Spawned]
    <3> DEFINE c == [me EXCEPT !.pc = "probe", !.cand = 1, !.server = Spawned]
    <3>1. conv' = [conv EXCEPT ![t] = c]
      BY <1>0, <2>3
    <3>2. Spawned \in Nat /\ 1 \in 1..Candidates /\ 1 \in 0..Candidates
      BY <1>0, <2>3, ConstantsAssumption DEF Spawned
    <3>3. /\ c \in Thread /\ c.pc = "probe" /\ c.cand = 1
          /\ c.server = Spawned
      BY <1>0, <3>2 DEF Thread, Places, PoolHeld
    <3> HIDE DEF c
    <3>4. Spawned \in 1..n
      BY <1>0, <2>3, Started DEF Spawned, Typing, TypeOK
    <3>5. ThreadOK(c, n)
      BY <3>2, <3>3, <3>4 DEF ThreadOK, SlotHeld
    <3>6. table' = table /\ locked' = locked
      BY <1>11 DEF Activate
    <3>7. Moves(t, c)
      BY <2>3, <3>1, <3>3, <3>5, <3>6
      DEF Moves, SlotMove, PoolMove, ServerMove, SlotHeld, Fresh
    <3> QED
      BY <3>7
  <2> QED
    BY <1>11, <2>1, <2>2, <2>3 DEF Activate
<1>12. CASE ProbeUp(t)
  <2> DEFINE c == [me EXCEPT !.pc = "pick", !.server = 0]
             d == [me EXCEPT !.pc = "acquire", !.slot = 1, !.server = 0]
  <2>1. conv' = [conv EXCEPT ![t] = c] \/ conv' = [conv EXCEPT ![t] = d]
    BY <1>0, <1>12 DEF ProbeUp
  <2>2. c \in Thread /\ c.pc = "pick"
    BY <1>0, <1>10 DEF Thread
  <2>3. d \in Thread /\ d.pc = "acquire" /\ d.slot = 1
    BY <1>0, <1>10 DEF Thread
  <2> HIDE DEF c, d
  <2>4. /\ table' = [s \in Slots |-> IF s = 1 THEN me.server ELSE 0]
        /\ locked' = locked /\ poolLocked' = FALSE
        /\ me.pc = "probe" /\ me.pc \in PoolHeld
    BY <1>12 DEF ProbeUp, At, PoolHeld
  <2> QED
    BY <1>9, <1>10, <2>1, <2>2, <2>3, <2>4 DEF SlotHeld, Owning
<1>13. CASE ProbeFails(t)
  <2>1. me.pc = "probe" /\ me.pc \in PoolHeld /\ me.cand \in 1..Candidates
    BY <1>0, <1>13 DEF ProbeFails, At, PoolHeld, ThreadOK
  <2>2. table' = table /\ locked' = locked
    BY <1>13 DEF ProbeFails
  <2>3. CASE Leave(t) /\ poolLocked' = FALSE
    BY <1>3, <2>1, <2>2, <2>3
  <2>4. CASE /\ me.cand < Candidates
             /\ proc' = Append([proc EXCEPT ![me.server].state = "dead"],
                               Booting)
             /\ conv' = [conv EXCEPT ![t].cand = @ + 1, ![t].server = Spawned]
             /\ poolLocked' = poolLocked
    <3> DEFINE c == [me EXCEPT !.cand = @ + 1, !.server = Spawned]
    <3>1. conv' = [conv EXCEPT ![t] = c]
      BY <1>0, <2>4
    <3>2. me.cand + 1 \in 1..Candidates /\ me.cand + 1 \in 0..Candidates
      <4>1. \A k \in 1..Candidates : k < Candidates =>
              k + 1 \in 1..Candidates /\ k + 1 \in 0..Candidates
        BY ConstantsAssumption
      <4>2. me.cand \in 1..Candidates /\ me.cand < Candidates
        BY <2>1, <2>4
      <4> QED  BY <4>1, <4>2
    <3>3. Spawned \in 1..n /\ Spawned \in Nat
      <4>1. me.server \in 1..Len(proc) /\ proc \in Seq(Process)
        BY <1>0, <2>1 DEF ThreadOK, Serving, Typing, TypeOK
      <4>2. [proc[me.server] EXCEPT !.state = "dead"] \in Process
        <5>1. proc[me.server] \in Process
          BY <4>1
        <5> QED
          BY <5>1, StateTyped
      <4> DEFINE failed == [proc EXCEPT ![me.server] =
                              [proc[me.server] EXCEPT !.state = "dead"]]
      <4>3. failed \in Seq(Process) /\ Len(failed) = Len(proc)
        BY <4>1, <4>2, Replaced
      <4>4. proc' = Append(failed, Booting)
        BY <2>4
      <4> HIDE DEF failed
      <4>5. n = Len(proc) + 1
        BY <4>3, <4>4, Started
      <4> QED
        BY <1>0, <4>5 DEF Spawned
    <3>4. /\ c \in Thread /\ c.pc = "probe" /\ c.cand = me.cand + 1
          /\ c.server = Spawned
      BY <1>0, <2>1, <3>2, <3>3 DEF Thread
    <3> HIDE DEF c
    <3>5. ThreadOK(c, n)
      BY <3>2, <3>3, <3>4 DEF ThreadOK, SlotHeld
    <3>6. Moves(t, c)
      BY <2>1, <2>2, <2>4, <3>1, <3>4, <3>5
      DEF Moves, SlotMove, PoolMove, ServerMove, SlotHeld, Fresh
    <3> QED
      BY <3>6
  <2> QED
    BY <1>13, <2>3, <2>4 DEF ProbeFails
<1>14. CASE Pick(t)
  <2>1. PICK s \in Slots : conv' = [conv EXCEPT ![t].pc = "acquire",
                                                ![t].slot = s]
    BY <1>14 DEF Pick
  <2> DEFINE c == [me EXCEPT !.pc = "acquire", !.slot = s]
  <2>2. conv' = [conv EXCEPT ![t] = c]
    BY <1>0, <2>1
  <2>3. s \in 0..PoolSize
    BY ConstantsAssumption DEF Slots
  <2>4. c \in Thread /\ c.pc = "acquire" /\ c.slot = s
    BY <1>0, <1>10, <2>3 DEF Thread
  <2> HIDE DEF c
  <2> QED
    BY <1>9, <1>14, <2>2, <2>4 DEF Pick, SlotHeld, Owning
\* The slot's server runs: a conversion takes it, the prewarming goes on.
<1>15. ASSUME NEW server \in 1..n, Leased(t, server), me.pc \in SlotHeld,
              poolLocked' = poolLocked,
              \/ /\ me.pc = "ensure"
                 /\ server = table[me.slot]
                 /\ table' = table
              \/ /\ me.pc = "spawn"
                 /\ server = me.server
                 /\ table' = [table EXCEPT ![me.slot] = me.server]
       PROVE  \E c : Moves(t, c)
  <2>1. me.slot \in Slots
    BY <1>0, <1>15 DEF ThreadOK
  <2>2. CASE /\ conv' = [conv EXCEPT ![t].pc = "send", ![t].server = server]
             /\ locked' = locked
    <3> DEFINE c == [me EXCEPT !.pc = "send", !.server = server]
    <3>1. conv' = [conv EXCEPT ![t] = c]
      BY <1>0, <2>2
    <3>2. /\ c \in Thread /\ c.pc = "send" /\ c.server = server
          /\ c.slot = me.slot
      <4>1. "send" \in Places /\ server \in Nat
        BY <1>0 DEF Places, SlotHeld
      <4> QED
        BY <1>0, <4>1 DEF Thread
    <3> HIDE DEF c
    <3>3. ThreadOK(c, n)
      BY <2>1, <3>2 DEF ThreadOK
    <3>4. SlotMove(t, c) /\ PoolMove(t, c)
      BY <1>15, <2>2, <3>2 DEF SlotMove, PoolMove, PoolHeld
    <3>5. ServerMove(t, c)
      BY <1>15, <3>2 DEF ServerMove
    <3> QED
      BY <3>1, <3>3, <3>4, <3>5 DEF Moves
  <2>3. CASE Release(t) /\ me.slot < PoolSize /\
             conv' = [conv EXCEPT ![t].pc = "acquire", ![t].slot = @ + 1,
                                  ![t].server = 0]
    <3> DEFINE c == [me EXCEPT !.pc = "acquire", !.slot = @ + 1, !.server = 0]
    <3>1. conv' = [conv EXCEPT ![t] = c]
      BY <1>0, <2>3
    <3>2. me.slot + 1 \in Slots /\ me.slot + 1 \in 0..PoolSize
      BY <2>1, <2>3, ConstantsAssumption DEF Slots
    <3>3. c \in Thread /\ c.pc = "acquire" /\ c.slot = me.slot + 1
      BY <1>0, <1>10, <3>2 DEF Thread
    <3> HIDE DEF c
    <3> QED
      BY <1>9, <1>15, <2>3, <3>1, <3>2, <3>3 DEF SlotHeld, Owning
  <2>4. CASE Release(t) /\
             conv' = [conv EXCEPT ![t].pc = "fallback", ![t].slot = 0,
                                  ![t].server = 0]
    <3> DEFINE c == [me EXCEPT !.pc = "fallback", !.slot = 0, !.server = 0]
    <3>1. conv' = [conv EXCEPT ![t] = c]
      BY <1>0, <2>4
    <3>2. c \in Thread /\ c.pc = "fallback"
      BY <1>0, <1>10 DEF Thread
    <3> HIDE DEF c
    <3> QED
      BY <1>9, <1>15, <2>4, <3>1, <3>2 DEF SlotHeld, Owning
  <2> QED
    BY <1>15, <2>2, <2>3, <2>4 DEF Leased
<1>16. CASE Reuse(t)
  <2>1. me.pc = "ensure" /\ me.slot \in Slots
    BY <1>0, <1>16 DEF ThreadOK, Reuse, At, SlotHeld
  <2>2. table[me.slot] \in 1..n
    BY <1>0, <1>16, <2>1 DEF Reuse, Alive
  <2> QED
    BY <1>15, <1>16, <2>1, <2>2 DEF Reuse, SlotHeld
<1>17. CASE SpawnUp(t)
  <2>1. me.pc = "spawn" /\ me.server \in 1..n
    BY <1>0, <1>17 DEF ThreadOK, SpawnUp, At, Serving
  <2> QED
    BY <1>15, <1>17, <2>1 DEF SpawnUp, SlotHeld
<1>18. CASE Spawn(t)
  <2> DEFINE c == [me EXCEPT !.pc = "spawn", !.server = Spawned]
  <2>1. conv' = [conv EXCEPT ![t] = c]
    BY <1>0, <1>18 DEF Spawn
  <2>2. Spawned \in 1..n /\ Spawned \in Nat
    BY <1>0, <1>18, Started DEF Spawn, Spawned, Typing, TypeOK
  <2>3. /\ c \in Thread /\ c.pc = "spawn" /\ c.server = Spawned
        /\ c.slot = me.slot
    BY <1>0, <2>2 DEF Thread, Places, SlotHeld
  <2> HIDE DEF c
  <2>4. me.pc = "ensure" /\ me.slot \in Slots
    BY <1>0, <1>18 DEF ThreadOK, Spawn, At, SlotHeld
  <2>5. ThreadOK(c, n)
    BY <2>2, <2>3, <2>4 DEF ThreadOK
  <2>6. Moves(t, c)
    BY <1>18, <2>1, <2>3, <2>4, <2>5
    DEF Spawn, Moves, SlotMove, PoolMove, ServerMove, SlotHeld, PoolHeld, Fresh
  <2> QED
    BY <2>6
<1>19. CASE Send(t) /\ Goto(t, "wait")
  <2> DEFINE c == [me EXCEPT !.pc = "wait"]
  <2>1. conv' = [conv EXCEPT ![t] = c]
    BY <1>0, <1>19 DEF Goto
  <2>2. /\ c \in Thread /\ c.pc = "wait" /\ c.server = me.server
        /\ c.slot = me.slot
    BY <1>0, GotoMoves DEF Places, SlotHeld
  <2> HIDE DEF c
  <2>3. me.pc = "send" /\ me.slot \in Slots /\ me.server \in 1..n
    BY <1>0, <1>19 DEF ThreadOK, Send, At, SlotHeld, Serving
  <2>4. ThreadOK(c, n)
    BY <2>2, <2>3 DEF ThreadOK
  <2>5. Moves(t, c)
    BY <1>19, <2>1, <2>2, <2>3, <2>4
    DEF Send, Moves, SlotMove, PoolMove, ServerMove, SlotHeld, PoolHeld
  <2> QED
    BY <2>5
\* Reading the score, inside the slot.
<1>20. ASSUME NEW pc \in {"score", "repaid"}, table' = table,
              locked' = locked, me.pc \in SlotHeld,
              conv' = [conv EXCEPT ![t].pc = pc, ![t].read = strikes],
              \/ poolLocked' = poolLocked /\ pc = "repaid"
              \/ ~poolLocked /\ poolLocked' = TRUE
       PROVE  \E c : Moves(t, c)
  <2> DEFINE c == [me EXCEPT !.pc = pc, !.read = strikes]
  <2>1. conv' = [conv EXCEPT ![t] = c]
    BY <1>0, <1>20
  <2>2. strikes \in Nat
    BY DEF Typing, TypeOK
  <2>3. c \in Thread /\ c.pc = pc /\ c.slot = me.slot
    BY <1>0, <2>2 DEF Thread, Places, SlotHeld
  <2> HIDE DEF c
  <2>4. ThreadOK(c, n)
    BY <1>0, <1>20, <2>3 DEF ThreadOK, Serving
  <2>5. Moves(t, c)
    BY <1>20, <2>1, <2>3, <2>4
    DEF Moves, SlotMove, PoolMove, ServerMove, SlotHeld, PoolHeld, Owning
  <2> QED
    BY <2>5
<1>21. Activate(t) \/ ProbeUp(t) \/ ProbeFails(t) \/ Pick(t) \/ Acquire(t)
       \/ Choose(t) \/ Fallback(t) \/ Soffice(t)
       => \E c : Moves(t, c)
  <2>1. ASSUME Fallback(t), NEW out \in {"engine", "none"}, Finish(t, out)
        PROVE  \E c : Moves(t, c)
    BY <1>2, <2>1 DEF Fallback
  <2>2. CASE Soffice(t)
    BY <1>2, <2>2 DEF Soffice
  <2> QED
    BY <1>5, <1>6, <1>7, <1>11, <1>12, <1>13, <1>14, <2>1, <2>2 DEF Fallback
<1>22. SpawnError(t) \/ SpawnFails(t) \/ Timeout(t) \/ Repaid(t) \/ Clear(t)
       => \E c : Moves(t, c)
  <2>1. CASE SpawnError(t)
    BY <1>2, <2>1 DEF SpawnError, At, SlotHeld
  <2>2. CASE SpawnFails(t)
    BY <1>3, <2>2 DEF SpawnFails, At, SlotHeld
  <2>3. CASE Timeout(t)
    BY <1>2, <2>3 DEF Timeout, At, SlotHeld
  <2>4. CASE Repaid(t)
    BY <1>2, <2>4 DEF Repaid, At, SlotHeld
  <2>5. CASE Clear(t)
    BY <1>3, <2>5 DEF Clear, At, SlotHeld, PoolHeld
  <2> QED
    BY <2>1, <2>2, <2>3, <2>4, <2>5
<1>23. Send(t) \/ Answer(t) \/ ConnectionLost(t) \/ Judge(t)
       => \E c : Moves(t, c)
  <2>1. CASE Send(t)
    BY <1>8, <1>19, <2>1 DEF Send, At, SlotHeld, PoolHeld
  <2>2. CASE Answer(t)
    BY <1>8, <2>2 DEF Answer, At, SlotHeld, PoolHeld
  <2>3. CASE ConnectionLost(t)
    BY <1>8, <2>3 DEF ConnectionLost, At, SlotHeld, PoolHeld
  <2>4. CASE Judge(t)
    BY <1>2, <1>8, <2>4 DEF Judge, At, SlotHeld, PoolHeld
  <2> QED
    BY <2>1, <2>2, <2>3, <2>4
<1>24. Strike(t) \/ Score(t) \/ Limit(t) \/ Shutdown(t) \/ Repay(t)
       => \E c : Moves(t, c)
  <2>1. CASE Strike(t)
    BY <1>20, <2>1 DEF Strike, At, SlotHeld
  <2>2. CASE Score(t)
    BY <1>8, <2>2 DEF Score, At, SlotHeld, PoolHeld
  <2>3. CASE Limit(t)
    BY <1>3, <1>8, <2>3 DEF Limit, At, SlotHeld, PoolHeld
  <2>4. CASE Shutdown(t)
    BY <1>8, <2>4 DEF Shutdown, At, SlotHeld, PoolHeld
  <2>5. CASE Repay(t)
    BY <1>20, <2>5 DEF Repay, At, SlotHeld
  <2> QED
    BY <2>1, <2>2, <2>3, <2>4, <2>5
<1> QED
  BY <1>4, <1>16, <1>17, <1>18, <1>21, <1>22, <1>23, <1>24 DEF Convert
-----------------------------------------------------------------------------
(* The documents inside the servers.                                        *)

\* A thread's step leaves the servers that stay up as they are, except the
\* one the thread owns.
LEMMA OthersKept ==
  ASSUME Typing, NEW t \in Threads, Begin(t) \/ BeginWarm(t) \/ Convert(t),
         NEW i \in 1..Len(proc), proc'[i].state = "up",
         conv[t].pc \notin Owning \/ conv[t].server # i
  PROVE  proc'[i] = proc[i]
<1> DEFINE me == conv[t]
<1>1. /\ proc \in Seq(Process) /\ Len(proc) \in Nat
      /\ ThreadOK(me, Len(proc))
  BY DEF Typing, TypeOK
<1>2. CASE ProbeUp(t) \/ SpawnUp(t) \/ SpawnFails(t) \/ Answer(t)
  <2>1. me.pc \in Owning
    BY <1>2 DEF ProbeUp, SpawnUp, SpawnFails, Answer, At, Owning
  <2> QED
    BY <1>1, <1>2, <2>1 DEF ProbeUp, SpawnUp, SpawnFails, Answer
<1>3. CASE Send(t)
  BY <1>1, <1>3 DEF Send, At, Owning
<1>4. CASE ProbeFails(t)
  <2>1. me.pc \in Owning
    BY <1>4 DEF ProbeFails, At, Owning
  <2> DEFINE failed == [proc EXCEPT ![me.server].state = "dead"]
  <2>2. failed[i] = proc[i] /\ Len(failed) = Len(proc)
    BY <1>1, <2>1
  <2>3. failed \in Seq(Process)
    <3>1. me.server \in 1..Len(proc)
      BY <1>1, <2>1 DEF ThreadOK, Owning, Serving
    <3>2. proc[me.server] \in Process
      BY <1>1, <3>1
    <3> QED
      BY <1>1, <3>1, <3>2, StateTyped, Replaced
  <2>4. proc' = failed \/ proc' = Append(failed, Booting)
    BY <1>4 DEF ProbeFails
  <2> HIDE DEF failed
  <2> QED
    BY <1>1, <2>2, <2>3, <2>4
<1>5. CASE Activate(t) \/ Spawn(t)
  <2>1. proc' = proc \/ proc' = Append(proc, Booting)
    BY <1>5 DEF Activate, Spawn
  <2> QED
    BY <1>1, <2>1
<1>6. CASE Shutdown(t)
  <2>1. proc[i] \in Process
    BY <1>1
  <2> DEFINE stop(p) == IF (\E s \in Slots : table[s] = p) /\ Alive(p)
                        THEN [proc[p] EXCEPT !.state = "dead"] ELSE proc[p]
  <2>2. proc'[i] = stop(i)
    BY <1>1, <1>6 DEF Shutdown
  <2>3. [proc[i] EXCEPT !.state = "dead"].state = "dead"
    BY <2>1 DEF Process
  <2> QED
    BY <2>2, <2>3
<1>7. CASE UNCHANGED proc
  BY <1>7
<1> QED
  BY <1>2, <1>3, <1>4, <1>5, <1>6, <1>7
  DEF Convert, Begin, BeginWarm, Choose, Fallback, Soffice, Pick, Acquire,
      Reuse, SpawnError, ConnectionLost, Timeout, Judge, Strike, Score, Limit,
      Clear, Repay, Repaid

\* A thread comes to wait by sending its document to a server that is up.
LEMMA WaitsBySending ==
  ASSUME Typing, NEW t \in Threads, Begin(t) \/ BeginWarm(t) \/ Convert(t),
         conv'[t].pc = "wait"
  PROVE  /\ Send(t)
         /\ State(conv[t].server) = "up"
<1>1. conv \in [Threads -> Thread] /\ conv[t] \in Thread
  BY DEF Typing, TypeOK
<1>2. CASE Choose(t) \/ Activate(t)
  BY <1>1, <1>2 DEF Choose, Activate, Goto, Thread
<1>7. CASE Fallback(t) \/ Soffice(t) \/ Pick(t) \/ Acquire(t)
  BY <1>1, <1>7
  DEF Fallback, Soffice, Pick, Acquire, Goto, Finish, Idle, Thread
<1>8. CASE Begin(t) \/ BeginWarm(t)
  BY <1>1, <1>8 DEF Begin, BeginWarm, Idle
<1>3. CASE ProbeUp(t) \/ ProbeFails(t) \/ Reuse(t) \/ Spawn(t) \/ SpawnError(t)
           \/ SpawnUp(t) \/ SpawnFails(t)
  BY <1>1, <1>3
  DEF ProbeUp, ProbeFails, Reuse, Spawn, SpawnError, SpawnUp, SpawnFails,
      Leased, Leave, Finish, Idle, Thread, At
<1>4. CASE Send(t)
  BY <1>1, <1>4 DEF Send, Goto, Thread
<1>5. CASE Answer(t) \/ ConnectionLost(t) \/ Timeout(t) \/ Judge(t)
  BY <1>1, <1>5
  DEF Answer, ConnectionLost, Timeout, Judge, Goto, Finish, Idle, Thread
<1>6. CASE Strike(t) \/ Score(t) \/ Limit(t) \/ Shutdown(t) \/ Clear(t)
           \/ Repay(t) \/ Repaid(t)
  BY <1>1, <1>6
  DEF Strike, Score, Limit, Shutdown, Clear, Repay, Repaid, Goto, Leave,
      Finish, Idle, Thread
<1> QED
  BY <1>2, <1>3, <1>4, <1>5, <1>6, <1>7, <1>8 DEF Convert

LEMMA ThreadOccupied ==
  ASSUME Typing, Servers, Occupied, NEW t \in Threads,
         Begin(t) \/ BeginWarm(t) \/ Convert(t), NEW c, Moves(t, c)
  PROVE  Occupied'
<1> DEFINE me == conv[t]
<1>1. /\ conv \in [Threads -> Thread] /\ proc \in Seq(Process)
      /\ \A u \in Threads : ThreadOK(conv[u], Len(proc))
      /\ conv' = [conv EXCEPT ![t] = c]
  BY DEF Typing, TypeOK, Moves
<1> SUFFICES ASSUME NEW u \in Threads, conv'[u].pc = "wait",
                    proc'[conv'[u].server].state = "up"
             PROVE  proc'[conv'[u].server].inside > 0
  BY DEF Occupied, At, State
<1>2. CASE u = t
  <2>1. Send(t) /\ State(me.server) = "up"
    BY <1>2, WaitsBySending
  <2>2. me.server \in 1..Len(proc)
    BY <1>1, <2>1 DEF ThreadOK, Serving, Send, At
  <2>3. proc[me.server] \in Process
    BY <1>1, <2>2
  <2>4. proc'[me.server].inside = proc[me.server].inside + 1
    BY <1>1, <2>1, <2>2, <2>3 DEF Send, Process
  <2>5. conv'[t].server = me.server
    BY <1>1, <2>1 DEF Send, Goto, Thread
  <2> QED
    BY <1>2, <2>3, <2>4, <2>5 DEF Process
<1>3. CASE u # t
  <2>1. conv'[u] = conv[u]
    BY <1>1, <1>3
  <2>2. conv[u].server \in 1..Len(proc)
    BY <1>1, <2>1 DEF ThreadOK, Serving
  <2>3. me.pc \notin Owning \/ me.server # conv[u].server
    BY <1>3, <2>1 DEF Servers, Owning
  <2>4. proc'[conv[u].server] = proc[conv[u].server]
    BY <2>1, <2>2, <2>3, OthersKept
  <2> QED
    BY <2>1, <2>4 DEF Occupied, At, State
<1> QED
  BY <1>2, <1>3

LEMMA ServerOccupied ==
  ASSUME Typing, Occupied, NEW p \in DOMAIN proc, Server(p)
  PROVE  Occupied'
<1>1. /\ proc \in Seq(Process) /\ p \in 1..Len(proc) /\ conv' = conv
      /\ proc[p] \in Process
  BY DEF Typing, TypeOK, Server, Crash, Exit, LateAnswer
<1> SUFFICES ASSUME NEW u \in Threads, conv[u].pc = "wait",
                    proc'[conv[u].server].state = "up"
             PROVE  proc'[conv[u].server].inside > 0
  BY <1>1 DEF Occupied, At, State
<1>2. CASE conv[u].server # p
  <2>1. conv[u].server \in 1..Len(proc)
    BY <1>1 DEF Typing, ThreadOK, Serving
  <2>2. \E r : proc' = [proc EXCEPT ![p] = r]
    BY DEF Server, Crash, Exit, LateAnswer
  <2>3. proc'[conv[u].server] = proc[conv[u].server]
    BY <1>1, <1>2, <2>1, <2>2
  <2> QED
    BY <2>3 DEF Occupied, At, State
<1>3. CASE conv[u].server = p
  <2>1. LateAnswer(p)
    BY <1>1, <1>3 DEF Server, Crash, Exit, Process
  <2>2. Waiting(p) \subseteq Threads /\ u \in Waiting(p)
    BY <1>3 DEF Waiting, At
  <2>3. IsFiniteSet(Waiting(p))
    BY <2>2, ConstantsAssumption, FS_Subset
  <2> DEFINE k == Cardinality(Waiting(p))
  <2>4. k \in Nat /\ k # 0
    BY <2>2, <2>3, FS_CardinalityType, FS_EmptySet
  <2>5. proc[p].inside > k
    BY <2>1 DEF LateAnswer
  <2> HIDE DEF k
  <2>6. proc'[p].inside = proc[p].inside - 1
    BY <1>1, <2>1 DEF LateAnswer, Process
  <2> QED
    BY <1>1, <1>3, <2>4, <2>5, <2>6 DEF Process
<1> QED
  BY <1>2, <1>3
-----------------------------------------------------------------------------
(* The score.                                                               *)

Other(t) ==
  \/ Begin(t) \/ BeginWarm(t) \/ Choose(t) \/ Pick(t) \/ Acquire(t)
  \/ Reuse(t) \/ Spawn(t) \/ SpawnError(t) \/ SpawnUp(t) \/ SpawnFails(t)
  \/ Send(t) \/ Answer(t) \/ ConnectionLost(t) \/ Timeout(t) \/ Judge(t)
  \/ Shutdown(t) \/ Fallback(t) \/ Soffice(t)

LEMMA ByStep ==
  ASSUME NEW t, Begin(t) \/ BeginWarm(t) \/ Convert(t)
  PROVE  \/ Activate(t) \/ ProbeUp(t) \/ ProbeFails(t) \/ Strike(t) \/ Score(t)
         \/ Limit(t) \/ Clear(t) \/ Repay(t) \/ Repaid(t) \/ Other(t)
  BY DEF Convert, Other

\* The other steps touch neither the engine nor the score, nor come to a
\* place where these matter.
LEMMA OtherKeeps ==
  ASSUME Typing, NEW t \in Threads, Other(t)
  PROVE  /\ UNCHANGED <<pool, disabled, strikes, crashes, successes>>
         /\ conv'[t].pc \notin {"probe", "score", "repaid"}
<1>1. conv \in [Threads -> Thread] /\ conv[t] \in Thread
  BY DEF Typing, TypeOK
<1>2. CASE Begin(t) \/ BeginWarm(t)
  BY <1>1, <1>2 DEF Begin, BeginWarm, Idle, engine, score
<1>3. CASE Choose(t) \/ Pick(t) \/ Acquire(t) \/ Fallback(t) \/ Soffice(t)
  BY <1>1, <1>3
  DEF Choose, Pick, Acquire, Fallback, Soffice, Goto, Finish, Idle, Thread,
      engine, score
<1>4. CASE Reuse(t) \/ Spawn(t) \/ SpawnError(t) \/ SpawnUp(t) \/ SpawnFails(t)
  BY <1>1, <1>4
  DEF Reuse, Spawn, SpawnError, SpawnUp, SpawnFails, Leased, Leave, Finish,
      Idle, Thread, engine, score
<1>5. CASE Send(t) \/ Answer(t) \/ ConnectionLost(t) \/ Timeout(t)
           \/ Judge(t) \/ Shutdown(t)
  BY <1>1, <1>5
  DEF Send, Answer, ConnectionLost, Timeout, Judge, Shutdown, Goto, Finish,
      Idle, Thread, engine, score
<1> QED
  BY <1>2, <1>3, <1>4, <1>5 DEF Other

\* The engine and the score keep their types.
LEMMA BooksTyped ==
  ASSUME Typing, NEW t \in Threads, Begin(t) \/ BeginWarm(t) \/ Convert(t)
  PROVE  /\ pool' \in BOOLEAN /\ disabled' \in BOOLEAN
         /\ strikes' \in Nat /\ crashes' \in Nat /\ successes' \in Nat
<1>1. /\ pool \in BOOLEAN /\ disabled \in BOOLEAN /\ strikes \in Nat
      /\ crashes \in Nat /\ successes \in Nat /\ conv[t] \in Thread
  BY DEF Typing, TypeOK
<1>2. conv[t].read \in Nat
  BY <1>1 DEF Thread
<1>3. CASE Activate(t) \/ ProbeUp(t) \/ ProbeFails(t)
  BY <1>1, <1>3 DEF Activate, ProbeUp, ProbeFails, score
<1>4. CASE Score(t) \/ Repaid(t)
  BY <1>1, <1>2, <1>4, ConstantsAssumption DEF Score, Repaid, engine
<1>5. CASE Strike(t) \/ Repay(t) \/ Limit(t) \/ Clear(t)
  BY <1>1, <1>5 DEF Strike, Repay, Limit, Clear, score, engine
<1>6. CASE Other(t)
  BY <1>1, <1>6, OtherKeeps
<1> QED
  BY <1>3, <1>4, <1>5, <1>6, ByStep

LEMMA BudgetTyped ==
  ASSUME Typing, Next
  PROVE  /\ warmed' \in BOOLEAN
         /\ begun' \in 0..MaxConversions
         /\ upsets' \in 0..MaxUpsets
<1>1. /\ warmed \in BOOLEAN /\ begun \in 0..MaxConversions
      /\ upsets \in 0..MaxUpsets
  BY DEF Typing, TypeOK
<1>2. MaxUpsets \in Nat /\ MaxConversions \in Nat
  BY ConstantsAssumption
<1>3. UNCHANGED upsets \/ (upsets < MaxUpsets /\ upsets' = upsets + 1)
      => upsets' \in 0..MaxUpsets
  BY <1>1, <1>2
<1>4. begun < MaxConversions /\ begun' = begun + 1
      => begun' \in 0..MaxConversions
  BY <1>1, <1>2
<1>5. ASSUME UNCHANGED budget
      PROVE  /\ warmed' \in BOOLEAN /\ begun' \in 0..MaxConversions
             /\ upsets' \in 0..MaxUpsets
  BY <1>1, <1>5 DEF budget
<1>6. ASSUME NEW t \in Threads, Begin(t) \/ BeginWarm(t)
      PROVE  /\ warmed' \in BOOLEAN /\ begun' \in 0..MaxConversions
             /\ upsets' \in 0..MaxUpsets
  BY <1>1, <1>3, <1>4, <1>6 DEF Begin, BeginWarm, Upset
<1>7. ASSUME NEW t \in Threads,
             \/ Soffice(t) \/ ProbeFails(t) \/ SpawnError(t) \/ SpawnFails(t)
             \/ Timeout(t)
      PROVE  /\ warmed' \in BOOLEAN /\ begun' \in 0..MaxConversions
             /\ upsets' \in 0..MaxUpsets
  BY <1>1, <1>3, <1>7
  DEF Soffice, ProbeFails, SpawnError, SpawnFails, Timeout, Upset
<1>8. ASSUME NEW p \in DOMAIN proc, Crash(p)
      PROVE  /\ warmed' \in BOOLEAN /\ begun' \in 0..MaxConversions
             /\ upsets' \in 0..MaxUpsets
  BY <1>1, <1>3, <1>8 DEF Crash, Upset
<1>9. ASSUME NEW t \in Threads, Convert(t)
      PROVE  \/ UNCHANGED budget
             \/ Soffice(t) \/ ProbeFails(t) \/ SpawnError(t) \/ SpawnFails(t)
             \/ Timeout(t)
  BY <1>9
  DEF Convert, Choose, Activate, ProbeUp, Pick, Acquire, Reuse, Spawn, SpawnUp,
      Send, Answer, ConnectionLost, Judge, Strike, Score, Limit, Shutdown,
      Clear, Repay, Repaid, Fallback
<1>10. ASSUME NEW p \in DOMAIN proc, Exit(p) \/ LateAnswer(p)
       PROVE  UNCHANGED budget
  BY <1>10 DEF Exit, LateAnswer
<1> QED
  BY <1>5, <1>6, <1>7, <1>8, <1>9, <1>10 DEF Next, Server

LEMMA Arrivals ==
  ASSUME Typing, NEW t \in Threads, Begin(t) \/ BeginWarm(t) \/ Convert(t)
  PROVE  /\ conv'[t].pc \in {"score", "repaid"} => Strike(t) \/ Repay(t)
         /\ conv'[t].pc = "probe" => Activate(t) \/ ProbeFails(t)
<1>1. conv \in [Threads -> Thread] /\ conv[t] \in Thread
  BY DEF Typing, TypeOK
<1>2. CASE Activate(t)
  BY <1>1, <1>2 DEF Activate, Goto, Thread
<1>3. CASE ProbeUp(t)
  BY <1>1, <1>3 DEF ProbeUp, Thread
<1>7. CASE ProbeFails(t)
  <2>1. conv[t].pc = "probe"
    BY <1>7 DEF ProbeFails, At
  <2>2. conv'[t].pc \in {"probe", "fallback"}
    BY <1>1, <1>7, <2>1 DEF ProbeFails, Leave, Thread
  <2> QED
    BY <1>7, <2>2
<1>4. CASE Strike(t) \/ Repay(t)
  BY <1>1, <1>4 DEF Strike, Repay, Thread
<1>5. CASE Score(t) \/ Limit(t) \/ Clear(t) \/ Repaid(t)
  BY <1>1, <1>5
  DEF Score, Limit, Clear, Repaid, Goto, Leave, Finish, Idle, Thread
<1>6. CASE Other(t)
  BY <1>6, OtherKeeps
<1> QED
  BY <1>2, <1>3, <1>4, <1>5, <1>6, <1>7, ByStep

LEMMA ThreadCause ==
  ASSUME Typing, Locks, Cause, NEW t \in Threads,
         Begin(t) \/ BeginWarm(t) \/ Convert(t), NEW c, Moves(t, c)
  PROVE  Cause'
<1> DEFINE me == conv[t]
           k == StrikeCost * crashes
<1>1. /\ conv \in [Threads -> Thread] /\ me \in Thread
      /\ strikes \in Nat /\ crashes \in Nat /\ me.read \in Nat
      /\ pool \in BOOLEAN /\ disabled \in BOOLEAN
  BY DEF Typing, TypeOK, Thread
<1>2. \A u \in Threads : u # t => conv'[u] = conv[u]
  BY <1>1 DEF Moves
<1>3. StrikeCost \in Nat /\ StrikeLimit \in Nat /\ k \in Nat
  BY <1>1, ConstantsAssumption
<1>4. StrikeCost * (crashes + 1) = k + StrikeCost
  BY <1>1, <1>3
<1>5. /\ strikes <= k
      /\ \A u \in Threads : conv[u].pc \in {"score", "repaid"}
                              => conv[u].read <= k
  BY DEF Cause
<1>6. StrikeCost * crashes' \in Nat /\ StrikeCost * crashes' >= k
  <2>1. CASE Score(t)
    BY <1>3, <1>4, <2>1 DEF Score
  <2>2. CASE ~Score(t)
    <3>1. crashes' = crashes
      BY <2>2, ByStep, OtherKeeps
      DEF Activate, ProbeUp, ProbeFails, Strike, Limit, Clear, Repay, Repaid,
          score
    <3> QED
      BY <1>3, <3>1
  <2> QED
    BY <2>1, <2>2
<1>7. strikes' <= StrikeCost * crashes'
  <2>1. CASE Score(t)
    <3>1. me.read <= k
      BY <1>5, <2>1 DEF Score, At
    <3>2. strikes' = me.read + StrikeCost /\ crashes' = crashes + 1
      BY <2>1 DEF Score
    <3> HIDE DEF k
    <3> QED
      BY <1>1, <1>3, <1>4, <3>1, <3>2
  <2>2. CASE Repaid(t)
    <3>1. me.read <= k
      BY <1>5, <2>2 DEF Repaid, At
    <3>2. strikes' <= me.read
      BY <1>1, <2>2 DEF Repaid
    <3>3. strikes' \in Nat
      BY BooksTyped
    <3> HIDE DEF k
    <3> QED
      BY <1>1, <1>3, <1>6, <3>1, <3>2, <3>3
  <2>3. CASE ~Score(t) /\ ~Repaid(t)
    <3>1. strikes' = strikes
      BY <2>3, ByStep, OtherKeeps
      DEF Activate, ProbeUp, ProbeFails, Strike, Limit, Clear, Repay, score
    <3> HIDE DEF k
    <3> QED
      BY <1>1, <1>3, <1>5, <1>6, <3>1
  <2> QED
    BY <2>1, <2>2, <2>3
<1>8. ASSUME NEW u \in Threads, conv'[u].pc \in {"score", "repaid"}
      PROVE  conv'[u].read <= StrikeCost * crashes'
  <2>1. CASE u = t
    <3>1. Strike(t) \/ Repay(t)
      BY <1>8, <2>1, Arrivals
    <3>2. conv'[t].read = strikes
      BY <1>1, <3>1 DEF Strike, Repay, Thread
    <3> HIDE DEF k
    <3> QED
      BY <1>1, <1>3, <1>5, <1>6, <2>1, <3>2
  <2>2. CASE u # t
    <3>1. conv'[u].read <= k /\ conv'[u].read \in Nat
      BY <1>1, <1>2, <1>5, <1>8, <2>2 DEF Thread
    <3> HIDE DEF k
    <3> QED
      BY <1>3, <1>6, <3>1
  <2> QED
    BY <2>1, <2>2
<1>9. ASSUME NEW u \in Threads, conv'[u].pc = "probe"
      PROVE  ~pool' /\ ~disabled'
  <2>1. CASE u = t
    <3>1. Activate(t) \/ ProbeFails(t)
      BY <1>9, <2>1, Arrivals
    <3>2. CASE Activate(t)
      BY <1>1, <1>9, <2>1, <3>2 DEF Activate, Goto, Thread
    <3>3. CASE ProbeFails(t)
      BY <1>1, <1>9, <2>1, <3>3 DEF ProbeFails, Leave, Thread, Cause
    <3> QED
      BY <3>1, <3>2, <3>3
  <2>2. CASE u # t
    <3>1. conv[u].pc = "probe" /\ ~pool /\ ~disabled
      BY <1>2, <1>9, <2>2 DEF Cause, At
    <3>2. poolLocked /\ me.pc \notin PoolHeld
      BY <2>2, <3>1 DEF Locks, PoolHeld
    <3>3. UNCHANGED <<pool, disabled>>
      BY <3>2, ByStep, OtherKeeps
      DEF Activate, ProbeUp, ProbeFails, Strike, Score, Limit, Clear, Repay,
          Repaid, At, PoolHeld, engine
    <3> QED
      BY <3>1, <3>3
  <2> QED
    BY <2>1, <2>2
<1>10. DisabledForCause'
  <2>1. CASE Activate(t) \/ ProbeUp(t) \/ ProbeFails(t) \/ Clear(t)
    <3>1. pool' /\ disabled' => pool /\ disabled
      BY <1>1, <2>1
      DEF Activate, ProbeUp, ProbeFails, Clear, Cause, At
    <3> HIDE DEF k
    <3> QED
      BY <1>3, <1>6, <3>1 DEF Cause, DisabledForCause, k
  <2>2. CASE Limit(t)
    <3>1. disabled' => disabled \/ strikes >= StrikeLimit
      BY <2>2 DEF Limit
    <3>2. pool' = pool
      BY <2>2 DEF Limit
    <3>3. disabled /\ pool => k >= StrikeLimit
      BY DEF Cause, DisabledForCause
    <3> HIDE DEF k
    <3>4. disabled' /\ pool' => StrikeCost * crashes' >= StrikeLimit
      BY <1>1, <1>3, <1>5, <1>6, <3>1, <3>2, <3>3
    <3> QED
      BY <3>4 DEF DisabledForCause
  <2>3. CASE Strike(t) \/ Score(t) \/ Repay(t) \/ Repaid(t) \/ Other(t)
    <3>1. UNCHANGED <<pool, disabled>>
      BY <2>3, OtherKeeps DEF Strike, Score, Repay, Repaid, engine
    <3>2. disabled /\ pool => k >= StrikeLimit
      BY DEF Cause, DisabledForCause
    <3> HIDE DEF k
    <3>3. disabled' /\ pool' => StrikeCost * crashes' >= StrikeLimit
      BY <1>3, <1>6, <3>1, <3>2
    <3> QED
      BY <3>3 DEF DisabledForCause
  <2> QED
    BY <2>1, <2>2, <2>3, ByStep
<1> QED
  BY <1>7, <1>8, <1>9, <1>10 DEF Cause, At
-----------------------------------------------------------------------------
(* The theorems.                                                            *)

LEMMA InitInductive == Init => Inductive
<1> SUFFICES ASSUME Init PROVE Inductive
  OBVIOUS
<1>1. \A t \in Threads : conv[t] = Idle("none")
  BY DEF Init
<1>2. ThreadOK(Idle("none"), 0) /\ Idle("none").pc = "idle"
  BY IdleMoves
<1>3. proc = <<>> /\ proc \in Seq(Process) /\ Len(proc) = 0
  BY DEF Init
<1>4. 0 \in 0..MaxConversions /\ 0 \in 0..MaxUpsets
  BY ConstantsAssumption
<1>5. conv \in [Threads -> Thread]
  BY <1>1, <1>2 DEF Init, ThreadOK
<1>6. TypeOK
  BY <1>3, <1>4, <1>5 DEF TypeOK, Init
<1>7. table \in [Slots -> 0..0] /\ \A s \in Slots : table[s] = 0
  BY DEF Init
<1>8. Typing
  BY <1>1, <1>2, <1>3, <1>6, <1>7 DEF Typing
<1>9. Locks
  BY <1>1, <1>2 DEF Locks, SlotHeld, PoolHeld
<1>10. Servers
  BY <1>1, <1>2, <1>7 DEF Servers, Owning, Fresh, Busy
<1>11. Occupied
  BY <1>1, <1>2 DEF Occupied, At
<1>12. Cause
  <2>1. strikes = 0 /\ crashes = 0 /\ ~pool /\ ~disabled
    BY DEF Init
  <2>2. StrikeCost * crashes = 0
    BY <2>1, ConstantsAssumption
  <2> QED
    BY <1>1, <1>2, <2>1, <2>2 DEF Cause, DisabledForCause, At
<1> QED
  BY <1>8, <1>9, <1>10, <1>11, <1>12 DEF Inductive

LEMMA ThreadInductive ==
  ASSUME Inductive, NEW t \in Threads, Begin(t) \/ BeginWarm(t) \/ Convert(t)
  PROVE  Inductive'
<1>1. Typing /\ Locks /\ Servers /\ Occupied /\ Cause
  BY DEF Inductive
<1>2. proc' \in Seq(Process) /\ Len(proc') \in {Len(proc), Len(proc) + 1}
  BY <1>1, ThreadProcesses
<1>3. PICK c : Moves(t, c)
  BY <1>1, <1>2, ThreadMoves
<1>4. Typing'
  <2>1. /\ conv' \in [Threads -> Thread] /\ locked' \in SUBSET Slots
        /\ poolLocked' \in BOOLEAN
        /\ table' \in [Slots -> 0..Len(proc')] /\ table' \in [Slots -> Nat]
        /\ \A u \in Threads : ThreadOK(conv'[u], Len(proc'))
    BY <1>1, <1>2, <1>3, MovesTyping
  <2>2. /\ pool' \in BOOLEAN /\ disabled' \in BOOLEAN
        /\ strikes' \in Nat /\ crashes' \in Nat /\ successes' \in Nat
    BY <1>1, BooksTyped
  <2>3. /\ warmed' \in BOOLEAN /\ begun' \in 0..MaxConversions
        /\ upsets' \in 0..MaxUpsets
    BY <1>1, BudgetTyped DEF Next
  <2> QED
    BY <1>2, <2>1, <2>2, <2>3 DEF Typing, TypeOK
<1>5. Locks'
  BY <1>1, <1>3, MovesLocks
<1>6. Servers'
  BY <1>1, <1>3, MovesServers
<1>7. Occupied'
  BY <1>1, <1>3, ThreadOccupied
<1>8. Cause'
  BY <1>1, <1>3, ThreadCause
<1> QED
  BY <1>4, <1>5, <1>6, <1>7, <1>8 DEF Inductive

LEMMA ServerInductive ==
  ASSUME Inductive, NEW p \in DOMAIN proc, Server(p)
  PROVE  Inductive'
<1>1. Typing /\ Locks /\ Servers /\ Occupied /\ Cause
  BY DEF Inductive
<1>2. proc' \in Seq(Process) /\ Len(proc') = Len(proc)
  BY <1>1, ServerProcesses
<1>3. UNCHANGED <<table, locked, poolLocked, pool, disabled, strikes, conv,
                  crashes, successes>>
  BY DEF Server, Crash, Exit, LateAnswer, engine, score
<1>4. /\ warmed' \in BOOLEAN /\ begun' \in 0..MaxConversions
      /\ upsets' \in 0..MaxUpsets
  BY <1>1, BudgetTyped DEF Next
<1>5. Typing'
  BY <1>1, <1>2, <1>3, <1>4 DEF Typing, TypeOK
<1>6. Locks' /\ Servers' /\ Cause'
  BY <1>1, <1>3 DEF Locks, Servers, Cause, Busy, DisabledForCause, At
<1>7. Occupied'
  BY <1>1, ServerOccupied
<1> QED
  BY <1>1, <1>5, <1>6, <1>7 DEF Inductive

LEMMA AlwaysInductive == Spec => []Inductive
<1>1. Inductive /\ [Next]_vars => Inductive'
  <2>1. CASE UNCHANGED vars
    BY <2>1
    DEF vars, Inductive, Typing, TypeOK, Locks, Servers, Occupied, Cause, Busy,
        DisabledForCause, At, State
  <2>2. CASE Next
    BY <2>2, ThreadInductive, ServerInductive DEF Next
  <2> QED
    BY <2>1, <2>2
<1> QED
  BY InitInductive, <1>1, PTL DEF Spec

-----------------------------------------------------------------------------
(* The servers that run, and the verdict on a document.                     *)

Boots == {p \in DOMAIN proc : State(p) = "booting"}
Ups == {p \in DOMAIN proc : State(p) = "up"}

\* The places a thread only reaches in a pool that has been in service.
Inner == SlotHeld \cup {"pick", "acquire"}

\* While the pool is in service or being probed, whatever runs is in the table
\* or is being started; who starts a server found none that runs in its slot.
Homes ==
  /\ ~disabled => \A p \in Boots \cup Ups :
       \/ \E s \in Slots : table[s] = p
       \/ \E t \in Threads : conv[t].pc \in Fresh /\ conv[t].server = p
  /\ \A s \in Slots : table[s] \notin Boots
  /\ \A t \in Threads :
       conv[t].pc = "spawn" => table[conv[t].slot] \notin Boots \cup Ups
  /\ ~pool /\ ~disabled => /\ \A s \in Slots : table[s] = 0
                           /\ \A t \in Threads : conv[t].pc \notin Inner
  /\ \A t \in Threads : conv[t].pc \in {"shutdown", "clear"} => disabled

\* A server that is being started is not the one another thread looks at, and a
\* thread that judges a good document lost its server.
Verdicts ==
  /\ \A t \in Threads : conv[t].pc \in Fresh => conv[t].server \in Boots
  /\ \A t \in Threads :
       conv[t].pc \in {"send", "wait"} => conv[t].server \notin Boots
  /\ \A t \in Threads :
       conv[t].pc = "judge" => \/ conv[t].bad
                               \/ conv[t].server \notin Boots \cup Ups

\* What a step of a thread does to the servers, told by what it becomes.
Keeps(t, c) ==
  /\ Boots' = Boots /\ Ups' = Ups /\ table' = table /\ pool' = pool
  /\ disabled => disabled'
  /\ conv[t].pc \notin Fresh /\ c.pc \notin Fresh
  /\ c.pc \in Inner => conv[t].pc \in Inner \/ pool
  /\ c.pc \in {"shutdown", "clear"} => disabled'
  /\ c.pc \in {"send", "wait"} =>
       \/ conv[t].pc = "send" /\ c.server = conv[t].server
       \/ \E s \in Slots : c.server = table[s]
  /\ c.pc = "judge" => /\ conv[t].pc \in {"send", "wait"}
                       /\ c.server = conv[t].server
                       /\ c.bad \/ c.server \notin Ups

Boot(t, c) ==
  /\ Boots' = Boots \cup {Spawned} /\ Ups' = Ups
  /\ table' = table /\ pool' = pool /\ disabled' = disabled
  /\ c.server = Spawned
  /\ \/ conv[t].pc = "activate" /\ c.pc = "probe"
     \/ /\ conv[t].pc = "ensure" /\ c.pc = "spawn" /\ c.slot = conv[t].slot
        /\ table[c.slot] \notin Ups

BootNext(t, c) ==
  /\ Boots' = (Boots \ {conv[t].server}) \cup {Spawned}
  /\ Ups' = Ups \ {conv[t].server}
  /\ table' = table /\ pool' = pool /\ disabled' = disabled
  /\ conv[t].pc = "probe" /\ c.pc = "probe" /\ c.server = Spawned

Arrived(t, c) ==
  /\ Boots' = Boots \ {conv[t].server} /\ Ups' = Ups \cup {conv[t].server}
  /\ disabled' = disabled
  /\ \/ /\ conv[t].pc = "probe" /\ pool'
        /\ table' = [s \in Slots |-> IF s = 1 THEN conv[t].server ELSE 0]
        /\ c.pc \in {"pick", "acquire"}
     \/ /\ conv[t].pc = "spawn" /\ pool' = pool
        /\ table' = [table EXCEPT ![conv[t].slot] = conv[t].server]
        /\ \/ c.pc = "send" /\ c.server = conv[t].server
           \/ c.pc \in {"acquire", "fallback"}

Failed(t, c) ==
  /\ Boots' = Boots \ {conv[t].server} /\ Ups' = Ups \ {conv[t].server}
  /\ table' = table /\ pool' = pool /\ c.pc = "fallback"
  /\ \/ conv[t].pc = "probe" /\ disabled'
     \/ conv[t].pc = "spawn" /\ disabled' = disabled

Closes(t, c) ==
  /\ Boots' = Boots /\ Ups' \subseteq Ups /\ disabled' = disabled
  /\ conv[t].pc \in {"shutdown", "clear"}
  /\ table' = table \/ table' = [s \in Slots |-> 0]
  /\ c.pc \in {"clear", "fallback"}

Turns(t, c) ==
  /\ conv' = [conv EXCEPT ![t] = c]
  /\ \/ Keeps(t, c) \/ Boot(t, c) \/ BootNext(t, c)
     \/ Arrived(t, c) \/ Failed(t, c) \/ Closes(t, c)

LEMMA TurnsHomes ==
  ASSUME Inductive, Homes, Verdicts, NEW t \in Threads, NEW c, Turns(t, c)
  PROVE  Homes' /\ Verdicts'
<1>1. /\ conv \in [Threads -> Thread] /\ conv' = [conv EXCEPT ![t] = c]
      /\ table \in [Slots -> 0..Len(proc)] /\ Len(proc) \in Nat
      /\ DOMAIN proc = 1..Len(proc)
  BY DEF Turns, Inductive, Typing, TypeOK
<1>2. conv'[t] = c /\ \A u \in Threads : u # t => conv'[u] = conv[u]
  BY <1>1
<1>3. /\ Boots \subseteq 1..Len(proc) /\ Ups \subseteq 1..Len(proc)
      /\ Boots \cap Ups = {}
  BY <1>1 DEF Boots, Ups
<1>4. /\ Spawned = Len(proc) + 1 /\ Spawned \notin Boots \cup Ups
      /\ Spawned \notin 0..Len(proc) /\ Spawned # 0
      /\ \A s \in Slots : table[s] # Spawned
  BY <1>1, <1>3 DEF Spawned
<1>5. \A u \in Threads : /\ conv[u].pc \in Serving => conv[u].server \in 1..Len(proc)
                         /\ conv[u].pc \in SlotHeld => conv[u].slot \in Slots
  BY DEF Inductive, Typing, ThreadOK
<1>6. 0 \notin Boots \cup Ups /\ 1 \in Slots
  BY <1>3, ConstantsAssumption DEF Slots
<1>7. CASE Keeps(t, c)
  <2>1. Homes'
    BY <1>2, <1>7 DEF Keeps, Homes, Fresh
  <2>2. Verdicts'
    BY <1>2, <1>7 DEF Keeps, Homes, Verdicts
  <2> QED  BY <2>1, <2>2
<1>8. CASE Boot(t, c)
  <2>1. c.pc \in Fresh /\ c.pc \notin {"pick", "acquire", "send", "wait", "judge",
                                       "shutdown", "clear"}
        /\ conv[t].pc \notin Fresh
    BY <1>8 DEF Boot, Fresh
  <2>2. c.pc \in Inner => conv[t].pc \in Inner
    BY <1>8 DEF Boot, Inner, SlotHeld
  <2>3. c.pc = "spawn" => table[c.slot] \notin Boots \cup Ups
    BY <1>5, <1>8 DEF Boot, Homes, SlotHeld
  <2>4. Homes'
    <3>1. ASSUME ~disabled', NEW p \in Boots' \cup Ups'
          PROVE  \/ \E s \in Slots : table'[s] = p
                 \/ \E u \in Threads : conv'[u].pc \in Fresh /\ conv'[u].server = p
      BY <1>2, <1>8, <2>1, <3>1 DEF Boot, Homes
    <3>2. \A s \in Slots : table'[s] \notin Boots'
      BY <1>4, <1>8 DEF Boot, Homes
    <3>3. \A u \in Threads :
            conv'[u].pc = "spawn" => table'[conv'[u].slot] \notin Boots' \cup Ups'
      BY <1>2, <1>4, <1>5, <1>8, <2>3 DEF Boot, Homes, SlotHeld
    <3>4. ~pool' /\ ~disabled' => /\ \A s \in Slots : table'[s] = 0
                                  /\ \A u \in Threads : conv'[u].pc \notin Inner
      BY <1>2, <1>8, <2>2 DEF Boot, Homes
    <3>5. \A u \in Threads : conv'[u].pc \in {"shutdown", "clear"} => disabled'
      BY <1>2, <1>8, <2>1 DEF Boot, Homes
    <3> QED  BY <3>1, <3>2, <3>3, <3>4, <3>5 DEF Homes
  <2>5. Verdicts'
    <3>1. \A u \in Threads : conv'[u].pc \in Serving /\ u # t => conv'[u].server # Spawned
      BY <1>2, <1>4, <1>5
    <3> QED  BY <1>2, <1>8, <2>1, <3>1 DEF Boot, Verdicts, Serving
  <2> QED  BY <2>4, <2>5
<1>9. CASE BootNext(t, c)
  <2>1. \A u \in Threads : u # t /\ conv[u].pc \in Fresh => conv[u].server # conv[t].server
    BY <1>9 DEF BootNext, Inductive, Servers, Fresh, Owning
  <2>2. c.pc \in Fresh /\ c.pc \notin Inner
    BY <1>9 DEF BootNext, Fresh, Inner, SlotHeld
  <2>3. Homes'
    <3>1. ASSUME ~disabled', NEW p \in Boots' \cup Ups'
          PROVE  \/ \E s \in Slots : table'[s] = p
                 \/ \E u \in Threads : conv'[u].pc \in Fresh /\ conv'[u].server = p
      <4>1. CASE p = Spawned
        BY <1>2, <1>9, <2>2, <4>1 DEF BootNext
      <4>2. CASE p # Spawned
        <5>1. p # conv[t].server /\ p \in Boots \cup Ups /\ ~disabled
          BY <1>9, <3>1, <4>2 DEF BootNext
        <5> QED  BY <1>2, <1>9, <5>1 DEF BootNext, Homes
      <4> QED  BY <4>1, <4>2
    <3>2. \A s \in Slots : table'[s] \notin Boots'
      BY <1>4, <1>9 DEF BootNext, Homes
    <3>3. \A u \in Threads :
            conv'[u].pc = "spawn" => table'[conv'[u].slot] \notin Boots' \cup Ups'
      BY <1>2, <1>4, <1>5, <1>9 DEF BootNext, Homes, SlotHeld
    <3>4. ~pool' /\ ~disabled' => /\ \A s \in Slots : table'[s] = 0
                                  /\ \A u \in Threads : conv'[u].pc \notin Inner
      BY <1>2, <1>9, <2>2 DEF BootNext, Homes
    <3>5. \A u \in Threads : conv'[u].pc \in {"shutdown", "clear"} => disabled'
      BY <1>2, <1>9 DEF BootNext, Homes
    <3> QED  BY <3>1, <3>2, <3>3, <3>4, <3>5 DEF Homes
  <2>4. Verdicts'
    <3>1. \A u \in Threads : conv'[u].pc \in Serving /\ u # t => conv'[u].server # Spawned
      BY <1>2, <1>4, <1>5
    <3> QED  BY <1>2, <1>9, <2>1, <2>2, <3>1 DEF BootNext, Verdicts, Serving
  <2> QED  BY <2>3, <2>4
<1>10. CASE Arrived(t, c)
  <2>1. \A u \in Threads : u # t /\ conv[u].pc \in Owning => conv[u].server # conv[t].server
    BY <1>10 DEF Arrived, Inductive, Servers, Owning
  <2>2. conv[t].server \in Boots /\ conv[t].server # 0
    BY <1>6, <1>10 DEF Arrived, Verdicts, Fresh
  <2>3. Verdicts'
    <3>1. \A u \in Threads : u # t /\ conv[u].pc \in Fresh => conv'[u].server \in Boots'
      BY <1>2, <1>10, <2>1 DEF Arrived, Verdicts, Fresh, Owning
    <3>2. c.pc \notin Fresh \cup {"wait", "judge"}
          /\ (c.pc = "send" => c.server \notin Boots')
      BY <1>10 DEF Arrived, Fresh
    <3>3. \A u \in Threads : u # t /\ conv[u].pc = "judge" =>
            conv[u].bad \/ conv[u].server \notin Boots' \cup Ups'
      BY <1>10, <2>2 DEF Arrived, Verdicts
    <3> QED  BY <1>2, <1>10, <3>1, <3>2, <3>3 DEF Arrived, Verdicts
  <2>4. CASE conv[t].pc = "probe"
    <3>1. /\ ~pool /\ ~disabled /\ pool' /\ c.pc \in {"pick", "acquire"}
          /\ table' = [s \in Slots |-> IF s = 1 THEN conv[t].server ELSE 0]
      BY <1>10, <2>4 DEF Arrived, Inductive, Cause, At
    <3>2. \A u \in Threads : u # t => conv[u].pc \notin Inner \cup {"probe"}
      BY <2>4, <3>1 DEF Homes, Inductive, Locks, PoolHeld
    <3>3. \A u \in Threads : conv'[u].pc \notin {"probe", "spawn", "shutdown", "clear"}
      BY <1>2, <3>1, <3>2 DEF Inner, SlotHeld
    <3>4. ASSUME NEW p \in Boots' \cup Ups'
          PROVE  \E s \in Slots : table'[s] = p
      <4>1. CASE p = conv[t].server
        BY <1>6, <3>1, <4>1
      <4>2. CASE p # conv[t].server
        <5>1. p \in Boots \cup Ups /\ p # 0
          BY <1>6, <1>10, <3>4, <4>2 DEF Arrived
        <5>2. PICK u \in Threads : conv[u].pc \in Fresh /\ conv[u].server = p
          BY <3>1, <5>1 DEF Homes
        <5>3. u # t
          BY <4>2, <5>2
        <5> QED  BY <3>2, <5>2, <5>3 DEF Fresh, Inner, SlotHeld
      <4> QED  BY <4>1, <4>2
    <3>5. \A s \in Slots : table'[s] \notin Boots'
      BY <1>6, <1>10, <3>1 DEF Arrived
    <3> QED  BY <2>3, <3>1, <3>3, <3>4, <3>5 DEF Homes
  <2>5. CASE conv[t].pc = "spawn"
    <3>1. /\ table' = [table EXCEPT ![conv[t].slot] = conv[t].server] /\ pool' = pool
          /\ c.pc \in {"send", "acquire", "fallback"} /\ conv[t].slot \in Slots
          /\ table[conv[t].slot] \notin Boots \cup Ups /\ (pool \/ disabled)
      BY <1>5, <1>10, <2>5 DEF Arrived, Homes, SlotHeld, Inner
    <3>2. /\ table'[conv[t].slot] = conv[t].server
          /\ \A s \in Slots : s # conv[t].slot => table'[s] = table[s]
      BY <1>1, <3>1
    <3>3. ASSUME ~disabled', NEW p \in Boots' \cup Ups'
          PROVE  \/ \E s \in Slots : table'[s] = p
                 \/ \E u \in Threads : conv'[u].pc \in Fresh /\ conv'[u].server = p
      <4>1. CASE p = conv[t].server
        BY <3>1, <3>2, <4>1
      <4>2. CASE p # conv[t].server
        <5>1. p \in Boots \cup Ups /\ ~disabled
          BY <1>10, <3>3, <4>2 DEF Arrived
        <5>2. CASE \E s \in Slots : table[s] = p
          BY <3>1, <3>2, <5>1, <5>2
        <5>3. CASE \E u \in Threads : conv[u].pc \in Fresh /\ conv[u].server = p
          BY <1>2, <4>2, <5>3
        <5> QED  BY <5>1, <5>2, <5>3 DEF Homes
      <4> QED  BY <4>1, <4>2
    <3>4. \A s \in Slots : table'[s] \notin Boots'
      BY <1>10, <3>2 DEF Arrived, Homes
    <3>5. ASSUME NEW u \in Threads, conv'[u].pc = "spawn"
          PROVE  table'[conv'[u].slot] \notin Boots' \cup Ups'
      <4>1. u # t /\ conv'[u] = conv[u] /\ conv[u].pc = "spawn"
        BY <1>2, <3>1, <3>5
      <4>2. conv[u].slot # conv[t].slot /\ conv[u].slot \in Slots
        BY <1>5, <2>5, <4>1 DEF Inductive, Locks, SlotHeld
      <4>3. table[conv[u].slot] \notin Boots \cup Ups
        BY <4>1 DEF Homes
      <4>4. table[conv[u].slot] # conv[t].server
        BY <2>5, <4>2 DEF Inductive, Servers, Fresh
      <4> QED  BY <1>10, <3>2, <4>1, <4>2, <4>3, <4>4 DEF Arrived
    <3>6. \A u \in Threads : conv'[u].pc \in {"shutdown", "clear"} => disabled'
      BY <1>2, <1>10, <3>1 DEF Arrived, Homes
    <3>7. pool' \/ disabled'
      BY <1>10, <3>1 DEF Arrived
    <3> QED  BY <2>3, <3>3, <3>4, <3>5, <3>6, <3>7 DEF Homes
  <2> QED  BY <1>10, <2>4, <2>5 DEF Arrived
<1>11. CASE Failed(t, c)
  <2>1. \A u \in Threads : u # t /\ conv[u].pc \in Fresh => conv[u].server # conv[t].server
    BY <1>11 DEF Failed, Inductive, Servers, Fresh, Owning
  <2>2. c.pc = "fallback" /\ c.pc \notin Inner \cup Fresh \cup {"send", "wait", "judge",
                                                               "shutdown", "clear"}
    BY <1>11 DEF Failed, Inner, Fresh, SlotHeld
  <2>3. Verdicts'
    BY <1>2, <1>11, <2>1, <2>2 DEF Failed, Verdicts
  <2>4. disabled => disabled'
    BY <1>11 DEF Failed
  <2>5. Homes'
    <3>1. ASSUME ~disabled', NEW p \in Boots' \cup Ups'
          PROVE  \/ \E s \in Slots : table'[s] = p
                 \/ \E u \in Threads : conv'[u].pc \in Fresh /\ conv'[u].server = p
      <4>1. p # conv[t].server /\ p \in Boots \cup Ups /\ ~disabled
        BY <1>11, <2>4, <3>1 DEF Failed
      <4> QED  BY <1>2, <1>11, <4>1 DEF Failed, Homes
    <3>2. \A s \in Slots : table'[s] \notin Boots'
      BY <1>11 DEF Failed, Homes
    <3>3. \A u \in Threads :
            conv'[u].pc = "spawn" => table'[conv'[u].slot] \notin Boots' \cup Ups'
      BY <1>2, <1>11, <2>2 DEF Failed, Homes, Fresh
    <3>4. ~pool' /\ ~disabled' => /\ \A s \in Slots : table'[s] = 0
                                  /\ \A u \in Threads : conv'[u].pc \notin Inner
      BY <1>2, <1>11, <2>2, <2>4 DEF Failed, Homes
    <3>5. \A u \in Threads : conv'[u].pc \in {"shutdown", "clear"} => disabled'
      BY <1>2, <2>2, <2>4 DEF Homes
    <3> QED  BY <3>1, <3>2, <3>3, <3>4, <3>5 DEF Homes
  <2> QED  BY <2>3, <2>5
<1>12. CASE Closes(t, c)
  <2>1. disabled /\ disabled' /\ c.pc \notin Fresh \cup {"send", "wait", "judge"}
    BY <1>12 DEF Closes, Homes, Fresh
  <2>2. Verdicts'
    BY <1>2, <1>12, <2>1 DEF Closes, Verdicts
  <2>3. \A s \in Slots : table'[s] \in {table[s], 0}
    BY <1>12 DEF Closes
  <2>4. \A s \in Slots : table'[s] \notin Boots'
    BY <1>6, <1>12, <2>3 DEF Closes, Homes
  <2>5. \A u \in Threads :
          conv'[u].pc = "spawn" => table'[conv'[u].slot] \notin Boots' \cup Ups'
    <3> SUFFICES ASSUME NEW u \in Threads, conv'[u].pc = "spawn"
                 PROVE  table'[conv'[u].slot] \notin Boots' \cup Ups'
      OBVIOUS
    <3>1. conv'[u] = conv[u]
      BY <1>2, <2>1 DEF Fresh
    <3>2. conv[u].slot \in Slots /\ table[conv[u].slot] \notin Boots \cup Ups
      BY <1>5, <3>1 DEF Homes, SlotHeld
    <3> QED  BY <1>6, <1>12, <2>3, <3>1, <3>2 DEF Closes
  <2> QED  BY <2>1, <2>2, <2>4, <2>5 DEF Homes
<1> QED
  BY <1>7, <1>8, <1>9, <1>10, <1>11, <1>12 DEF Turns

\* Processes by their state, one changed or one more.
BootsOf(s) == {p \in DOMAIN s : s[p].state = "booting"}
UpsOf(s) == {p \in DOMAIN s : s[p].state = "up"}

LEMMA OneChanged ==
  ASSUME NEW s \in Seq(Process), NEW i \in 1..Len(s), NEW r \in Process
  PROVE  LET n == [s EXCEPT ![i] = r]
         IN /\ n \in Seq(Process) /\ Len(n) = Len(s)
            /\ BootsOf(n) = IF r.state = "booting" THEN BootsOf(s) \cup {i} ELSE BootsOf(s) \ {i}
            /\ UpsOf(n) = IF r.state = "up" THEN UpsOf(s) \cup {i} ELSE UpsOf(s) \ {i}
<1>1. PICK n : n = [s EXCEPT ![i] = r]
  OBVIOUS
<1>2. /\ n \in Seq(Process) /\ Len(n) = Len(s) /\ DOMAIN n = DOMAIN s /\ i \in DOMAIN s
      /\ n[i] = r /\ \A p \in DOMAIN s : p # i => n[p] = s[p]
  BY <1>1
<1>3. BootsOf(n) = IF r.state = "booting" THEN BootsOf(s) \cup {i} ELSE BootsOf(s) \ {i}
  BY <1>2 DEF BootsOf
<1>4. UpsOf(n) = IF r.state = "up" THEN UpsOf(s) \cup {i} ELSE UpsOf(s) \ {i}
  BY <1>2 DEF UpsOf
<1> QED  BY <1>1, <1>2, <1>3, <1>4

LEMMA OneMore ==
  ASSUME NEW s \in Seq(Process)
  PROVE  /\ BootsOf(Append(s, Booting)) = BootsOf(s) \cup {Len(s) + 1}
         /\ UpsOf(Append(s, Booting)) = UpsOf(s)
<1>1. PICK n : n = Append(s, Booting)
  OBVIOUS
<1>2. /\ Len(s) \in Nat /\ DOMAIN s = 1..Len(s) /\ DOMAIN n = 1..(Len(s) + 1)
      /\ n[Len(s) + 1] = Booting /\ \A p \in 1..Len(s) : n[p] = s[p]
  BY <1>1
<1>3. Booting.state = "booting"
  BY DEF Booting
<1>4. DOMAIN n = DOMAIN s \cup {Len(s) + 1} /\ Len(s) + 1 \notin DOMAIN s
  BY <1>2
<1> QED  BY <1>1, <1>2, <1>3, <1>4 DEF BootsOf, UpsOf

LEMMA TurnFields ==
  ASSUME NEW c \in Thread, NEW pc
  PROVE  LET d == [c EXCEPT !.pc = pc]
         IN /\ d.pc = pc /\ d.slot = c.slot /\ d.server = c.server
            /\ d.bad = c.bad /\ d.out = c.out
  BY DEF Thread

\* A thread fails a document only if it was bad.
Blames(t, c) == c.out = "document" => conv[t].out = "document" \/ conv[t].bad

LEMMA ThreadTurns ==
  ASSUME Inductive, Homes, Verdicts, NEW t \in Threads,
         Begin(t) \/ BeginWarm(t) \/ Convert(t)
  PROVE  \E c : Turns(t, c) /\ Blames(t, c)
<1>1. PICK me \in Thread : me = conv[t]
  BY DEF Inductive, Typing, TypeOK
<1>2. /\ proc \in Seq(Process) /\ Len(proc) \in Nat /\ DOMAIN proc = 1..Len(proc)
      /\ conv \in [Threads -> Thread] /\ table \in [Slots -> 0..Len(proc)]
  BY DEF Inductive, Typing, TypeOK
<1>3. /\ me.pc \in Serving => me.server \in 1..Len(proc)
      /\ me.pc \in SlotHeld => me.slot \in Slots
  BY <1>1 DEF Inductive, Typing, ThreadOK
<1>4. Boots = BootsOf(proc) /\ Ups = UpsOf(proc)
  BY DEF Boots, Ups, BootsOf, UpsOf, State
<1>5. proc' = proc => Boots' = Boots /\ Ups' = Ups
  BY DEF Boots, Ups, State
<1>6. ASSUME proc' = proc, table' = table, pool' = pool, disabled' = disabled, me.pc \notin Fresh,
             NEW out \in {"none", "ok", "document", "timeout", "engine"}, Finish(t, out),
             out = "document" => me.bad
      PROVE  \E c : Turns(t, c) /\ Blames(t, c)
  <2>1. PICK c : c = Idle(out)
    OBVIOUS
  <2>2. c.pc = "idle" /\ c.out = out
    BY <2>1 DEF Idle
  <2>3. c.pc \notin Fresh \cup Inner \cup {"send", "wait", "judge", "shutdown", "clear"}
    BY <2>2 DEF Fresh, Inner, SlotHeld
  <2>4. Keeps(t, c)
    BY <1>1, <1>5, <1>6, <2>3 DEF Keeps
  <2> QED  BY <1>1, <1>6, <2>1, <2>2, <2>4 DEF Finish, Turns, Blames
<1>7. ASSUME NEW pc, Goto(t, pc)
      PROVE  \E c : /\ conv' = [conv EXCEPT ![t] = c] /\ c.pc = pc /\ c.slot = me.slot
                    /\ c.server = me.server /\ c.bad = me.bad /\ c.out = me.out
  <2>1. PICK c : c = [me EXCEPT !.pc = pc]
    OBVIOUS
  <2>2. conv' = [conv EXCEPT ![t] = c]
    BY <1>1, <1>2, <1>7, <2>1 DEF Goto
  <2>3. /\ c.pc = pc /\ c.slot = me.slot /\ c.server = me.server
        /\ c.bad = me.bad /\ c.out = me.out
    BY <2>1, TurnFields
  <2> QED  BY <2>2, <2>3
<1>8. ASSUME proc' = proc, table' = table, pool' = pool, disabled => disabled', me.pc \notin Fresh,
             NEW pc, Goto(t, pc), pc \notin Fresh \cup {"send", "wait", "judge"},
             pc \in Inner => me.pc \in Inner \/ pool,
             pc \in {"shutdown", "clear"} => disabled'
      PROVE  \E c : Turns(t, c) /\ Blames(t, c)
  <2>1. PICK c : /\ conv' = [conv EXCEPT ![t] = c] /\ c.pc = pc /\ c.slot = me.slot
                 /\ c.server = me.server /\ c.bad = me.bad /\ c.out = me.out
    BY <1>7, <1>8
  <2>2. Keeps(t, c)
    BY <1>1, <1>5, <1>8, <2>1 DEF Keeps
  <2> QED  BY <1>1, <2>1, <2>2 DEF Turns, Blames
<1>9. ASSUME Leave(t)
      PROVE  \E c : /\ conv' = [conv EXCEPT ![t] = c] /\ c.pc = "fallback" /\ c.out = me.out
  <2>1. PICK c : c = Left(me)
    OBVIOUS
  <2>2. conv' = [conv EXCEPT ![t] = c]
    BY <1>1, <1>2, <1>9, <2>1 DEF Leave, Left, Thread
  <2>3. c.pc = "fallback" /\ c.out = me.out
    BY <2>1 DEF Left, Thread
  <2> QED  BY <2>2, <2>3
\* A process of this thread comes to another state.
<1>10. ASSUME NEW st \in {"up", "dead"}, me.pc \in {"probe", "spawn"},
              proc' = [proc EXCEPT ![me.server].state = st]
       PROVE  /\ Boots' = Boots \ {me.server}
              /\ Ups' = IF st = "up" THEN Ups \cup {me.server} ELSE Ups \ {me.server}
  <2>1. me.server \in 1..Len(proc)
    BY <1>3, <1>10 DEF Serving
  <2>2. PICK old \in Process : old = proc[me.server]
    BY <1>2, <2>1
  <2>3. PICK r : r = [old EXCEPT !.state = st]
    OBVIOUS
  <2>4. r \in Process /\ r.state = st
    BY <2>3 DEF Process
  <2>5. proc' = [proc EXCEPT ![me.server] = r]
    BY <1>2, <1>10, <2>1, <2>2, <2>3
  <2>6. /\ BootsOf(proc') = BootsOf(proc) \ {me.server}
        /\ UpsOf(proc') = IF st = "up" THEN UpsOf(proc) \cup {me.server}
                                       ELSE UpsOf(proc) \ {me.server}
    BY <1>2, <2>1, <2>4, <2>5, OneChanged
  <2> QED  BY <1>4, <2>6 DEF Boots, Ups, BootsOf, UpsOf, State
<1>11. ASSUME proc' = Append(proc, Booting)
       PROVE  Boots' = Boots \cup {Spawned} /\ Ups' = Ups
  <2>1. /\ BootsOf(proc') = BootsOf(proc) \cup {Spawned} /\ UpsOf(proc') = UpsOf(proc)
    BY <1>2, <1>11, OneMore DEF Spawned
  <2> QED  BY <1>4, <2>1 DEF Boots, Ups, BootsOf, UpsOf, State
\* The number of documents inside a server changes.
<1>12. ASSUME me.pc \in {"send", "wait"}, NEW k \in Nat,
              proc' = [proc EXCEPT ![me.server].inside = k]
       PROVE  Boots' = Boots /\ Ups' = Ups
  <2>1. me.server \in 1..Len(proc)
    BY <1>3, <1>12 DEF Serving
  <2>2. PICK old \in Process : old = proc[me.server]
    BY <1>2, <2>1
  <2>3. PICK r : r = [old EXCEPT !.inside = k]
    OBVIOUS
  <2>4. r \in Process /\ r.state = old.state
    BY <2>3 DEF Process
  <2>5. proc' = [proc EXCEPT ![me.server] = r]
    BY <1>2, <1>12, <2>1, <2>2, <2>3
  <2>6. /\ BootsOf(proc') = BootsOf(proc) /\ UpsOf(proc') = UpsOf(proc)
    <3>1. me.server \in BootsOf(proc) <=> old.state = "booting"
      BY <1>2, <2>1, <2>2 DEF BootsOf
    <3>2. me.server \in UpsOf(proc) <=> old.state = "up"
      BY <1>2, <2>1, <2>2 DEF UpsOf
    <3>3. /\ BootsOf(proc') = IF r.state = "booting" THEN BootsOf(proc) \cup {me.server}
                                                     ELSE BootsOf(proc) \ {me.server}
          /\ UpsOf(proc') = IF r.state = "up" THEN UpsOf(proc) \cup {me.server}
                                              ELSE UpsOf(proc) \ {me.server}
      BY <1>2, <2>1, <2>4, <2>5, OneChanged
    <3>4. BootsOf(proc') = BootsOf(proc)
      BY <2>4, <3>1, <3>3
    <3>5. UpsOf(proc') = UpsOf(proc)
      BY <2>4, <3>2, <3>3
    <3> QED  BY <3>4, <3>5
  <2> QED  BY <1>4, <2>6 DEF Boots, Ups, BootsOf, UpsOf, State
\* What Leased makes of the thread: server is the slot's from here on.
<1>13. ASSUME NEW server, Leased(t, server)
       PROVE  \E c : /\ conv' = [conv EXCEPT ![t] = c] /\ c.out = me.out
                     /\ \/ c.pc = "send" /\ c.server = server
                        \/ c.pc \in {"acquire", "fallback"}
  <2>1. CASE conv' = [conv EXCEPT ![t].pc = "send", ![t].server = server]
    <3>1. PICK c : c = [me EXCEPT !.pc = "send", !.server = server]
      OBVIOUS
    <3>2. conv' = [conv EXCEPT ![t] = c]
      BY <1>1, <1>2, <2>1, <3>1
    <3>3. c.pc = "send" /\ c.server = server /\ c.out = me.out
      BY <3>1 DEF Thread
    <3> QED  BY <3>2, <3>3
  <2>2. CASE conv' = [conv EXCEPT ![t].pc = "acquire", ![t].slot = @ + 1, ![t].server = 0]
    <3>1. PICK c : c = [me EXCEPT !.pc = "acquire", !.slot = @ + 1, !.server = 0]
      OBVIOUS
    <3>2. conv' = [conv EXCEPT ![t] = c]
      BY <1>1, <1>2, <2>2, <3>1
    <3>3. c.pc = "acquire" /\ c.out = me.out
      BY <3>1 DEF Thread
    <3> QED  BY <3>2, <3>3
  <2>3. CASE conv' = [conv EXCEPT ![t].pc = "fallback", ![t].slot = 0, ![t].server = 0]
    <3>1. PICK c : c = [me EXCEPT !.pc = "fallback", !.slot = 0, !.server = 0]
      OBVIOUS
    <3>2. conv' = [conv EXCEPT ![t] = c]
      BY <1>1, <1>2, <2>3, <3>1
    <3>3. c.pc = "fallback" /\ c.out = me.out
      BY <3>1 DEF Thread
    <3> QED  BY <3>2, <3>3
  <2> QED  BY <1>13, <2>1, <2>2, <2>3 DEF Leased
<1>14. /\ {"acquire", "pick", "ensure", "score", "limit", "repay", "repaid", "strike", "wait",
           "send", "judge", "spawn"} \subseteq Inner
       /\ \A pc \in {"idle", "choose", "activate", "soffice", "fallback"} : pc \notin Inner
       /\ Fresh = {"probe", "spawn"}
  BY DEF Inner, SlotHeld, Fresh
<1>15. CASE Begin(t) \/ BeginWarm(t)
  <2>1. PICK old : old = Idle("none")
    OBVIOUS
  <2>2. PICK c : /\ conv' = [conv EXCEPT ![t] = c]
                 /\ c \in {[old EXCEPT !.pc = "choose", !.task = "convert"],
                           [old EXCEPT !.pc = "choose", !.task = "convert", !.bad = TRUE],
                           [old EXCEPT !.pc = "choose", !.task = "warm"]}
    BY <1>15, <2>1 DEF Begin, BeginWarm
  <2>3. c.pc = "choose" /\ c.out = "none"
    BY <2>1, <2>2 DEF Idle
  <2>4. /\ UNCHANGED <<proc, table, pool, disabled>> /\ me.pc = "idle"
    BY <1>1, <1>15 DEF Begin, BeginWarm, engine, At
  <2>5. Keeps(t, c)
    BY <1>1, <1>5, <1>14, <2>3, <2>4 DEF Keeps
  <2> QED  BY <2>2, <2>3, <2>5 DEF Turns, Blames
<1>16. CASE Choose(t) \/ Acquire(t) \/ Score(t)
  <2>1. /\ UNCHANGED <<proc, table, pool, disabled>>
        /\ \E pc \in {"activate", "soffice", "ensure", "limit"} :
             Goto(t, pc) /\ (pc \in {"ensure", "limit"} => me.pc \in {"acquire", "score"})
        /\ me.pc \in {"choose", "acquire", "score"}
    BY <1>1, <1>16 DEF Choose, Acquire, Score, engine, At
  <2> QED  BY <1>8, <1>14, <2>1
<1>17. CASE Fallback(t)
  <2>1. /\ UNCHANGED <<proc, table, pool, disabled>> /\ me.pc = "fallback"
        /\ Goto(t, "soffice") \/ Finish(t, "engine") \/ Finish(t, "none")
    BY <1>1, <1>17 DEF Fallback, engine, At
  <2> QED  BY <1>6, <1>8, <1>14, <2>1
<1>18. CASE Soffice(t)
  <2>1. /\ UNCHANGED <<proc, table, pool, disabled>> /\ me.pc = "soffice"
        /\ \/ Finish(t, IF me.bad THEN "document" ELSE "ok") \/ Finish(t, "timeout")
    BY <1>1, <1>18 DEF Soffice, engine, At
  <2>2. CASE me.bad /\ Finish(t, "document")
    BY <1>6, <1>14, <2>1, <2>2
  <2>3. CASE Finish(t, "ok") \/ Finish(t, "timeout")
    BY <1>6, <1>14, <2>1, <2>3
  <2> QED  BY <2>1, <2>2, <2>3
<1>19. CASE Activate(t)
  <2>1. me.pc = "activate" /\ table' = table /\ pool' = pool
    BY <1>1, <1>19 DEF Activate, At
  <2>2. CASE /\ pool /\ UNCHANGED <<proc, disabled>>
             /\ conv' = IF conv[t].task = "convert"
                        THEN [conv EXCEPT ![t].pc = "pick"]
                        ELSE [conv EXCEPT ![t].pc = "acquire", ![t].slot = 1]
    <3>1. CASE conv' = [conv EXCEPT ![t].pc = "pick"]
      <4>1. Goto(t, "pick")
        BY <3>1 DEF Goto
      <4>2. "pick" \in Inner /\ "pick" \notin Fresh
        BY <1>14
      <4> QED  BY <1>8, <1>14, <2>1, <2>2, <4>1, <4>2
    <3>2. CASE conv' = [conv EXCEPT ![t].pc = "acquire", ![t].slot = 1]
      <4>1. PICK c : c = [me EXCEPT !.pc = "acquire", !.slot = 1]
        OBVIOUS
      <4>2. c.pc = "acquire" /\ c.out = me.out
        BY <4>1 DEF Thread
      <4>3. conv' = [conv EXCEPT ![t] = c]
        BY <1>1, <1>2, <3>2, <4>1
      <4>4. Keeps(t, c)
        BY <1>1, <1>5, <1>14, <2>1, <2>2, <4>2 DEF Keeps
      <4> QED  BY <1>1, <4>2, <4>3, <4>4 DEF Turns, Blames
    <3> QED  BY <2>2, <3>1, <3>2
  <2>3. CASE disabled' /\ Goto(t, "fallback") /\ UNCHANGED proc
    BY <1>8, <1>14, <2>1, <2>3
  <2>4. CASE /\ proc' = Append(proc, Booting) /\ UNCHANGED disabled
             /\ conv' = [conv EXCEPT ![t].pc = "probe", ![t].cand = 1, ![t].server = Spawned]
    <3>1. PICK c : c = [me EXCEPT !.pc = "probe", !.cand = 1, !.server = Spawned]
      OBVIOUS
    <3>2. c.pc = "probe" /\ c.out = me.out /\ c.server = Spawned
      BY <3>1 DEF Thread
    <3>3. conv' = [conv EXCEPT ![t] = c]
      BY <1>1, <1>2, <2>4, <3>1
    <3>4. Boot(t, c)
      BY <1>1, <1>11, <2>1, <2>4, <3>2 DEF Boot
    <3> QED  BY <1>1, <3>2, <3>3, <3>4 DEF Turns, Blames
  <2> QED  BY <1>19, <2>2, <2>3, <2>4 DEF Activate
<1>20. CASE ProbeUp(t)
  <2>1. /\ me.pc = "probe" /\ proc' = [proc EXCEPT ![me.server].state = "up"]
        /\ table' = [s \in Slots |-> IF s = 1 THEN me.server ELSE 0]
        /\ pool' /\ disabled' = disabled
    BY <1>1, <1>20 DEF ProbeUp, At
  <2>2. PICK c : /\ conv' = [conv EXCEPT ![t] = c]
                 /\ c \in {[me EXCEPT !.pc = "pick", !.server = 0],
                           [me EXCEPT !.pc = "acquire", !.slot = 1, !.server = 0]}
    BY <1>1, <1>2, <1>20 DEF ProbeUp
  <2>3. c.pc \in {"pick", "acquire"} /\ c.out = me.out
    BY <2>2 DEF Thread
  <2>4. Arrived(t, c)
    BY <1>1, <1>10, <2>1, <2>3 DEF Arrived
  <2> QED  BY <1>1, <2>2, <2>3, <2>4 DEF Turns, Blames
<1>21. CASE ProbeFails(t)
  <2>1. me.pc = "probe" /\ table' = table /\ pool' = pool
    BY <1>1, <1>21 DEF ProbeFails, At
  <2>2. PICK failed : failed = [proc EXCEPT ![me.server].state = "dead"]
    OBVIOUS
  <2>3. CASE proc' = failed /\ disabled' = TRUE /\ Leave(t)
    <3>1. PICK c : conv' = [conv EXCEPT ![t] = c] /\ c.pc = "fallback" /\ c.out = me.out
      BY <1>9, <2>3
    <3>2. Failed(t, c)
      BY <1>1, <1>10, <2>1, <2>2, <2>3, <3>1 DEF Failed
    <3> QED  BY <1>1, <3>1, <3>2 DEF Turns, Blames
  <2>4. CASE /\ proc' = Append(failed, Booting) /\ disabled' = disabled
             /\ conv' = [conv EXCEPT ![t].cand = @ + 1, ![t].server = Spawned]
    <3>1. PICK c : c = [me EXCEPT !.cand = @ + 1, !.server = Spawned]
      OBVIOUS
    <3>2. c.pc = "probe" /\ c.out = me.out /\ c.server = Spawned
      BY <2>1, <3>1 DEF Thread
    <3>3. conv' = [conv EXCEPT ![t] = c]
      BY <1>1, <1>2, <2>4, <3>1
    <3>4. me.server \in 1..Len(proc)
      BY <1>3, <2>1 DEF Serving
    <3>5. PICK old \in Process : old = proc[me.server]
      BY <1>2, <3>4
    <3>6. PICK r : r = [old EXCEPT !.state = "dead"]
      OBVIOUS
    <3>7. r \in Process /\ r.state = "dead"
      BY <3>6 DEF Process
    <3>8. failed = [proc EXCEPT ![me.server] = r]
      BY <1>2, <2>2, <3>4, <3>5, <3>6
    <3>9. /\ failed \in Seq(Process) /\ Len(failed) = Len(proc)
          /\ BootsOf(failed) = BootsOf(proc) \ {me.server}
          /\ UpsOf(failed) = UpsOf(proc) \ {me.server}
      BY <1>2, <3>4, <3>7, <3>8, OneChanged
    <3>10. /\ BootsOf(proc') = BootsOf(failed) \cup {Spawned}
           /\ UpsOf(proc') = UpsOf(failed)
      BY <2>4, <3>9, OneMore DEF Spawned
    <3>11. Boots' = (Boots \ {me.server}) \cup {Spawned} /\ Ups' = Ups \ {me.server}
      BY <1>4, <3>9, <3>10 DEF Boots, Ups, BootsOf, UpsOf, State
    <3>12. BootNext(t, c)
      BY <1>1, <2>1, <2>4, <3>2, <3>11 DEF BootNext
    <3> QED  BY <1>1, <3>2, <3>3, <3>12 DEF Turns, Blames
  <2> QED  BY <1>1, <1>21, <2>2, <2>3, <2>4 DEF ProbeFails
<1>22. CASE Pick(t)
  <2>1. /\ UNCHANGED <<proc, table, pool, disabled>> /\ me.pc = "pick"
    BY <1>1, <1>22 DEF Pick, engine, At
  <2>2. PICK s \in Slots : conv' = [conv EXCEPT ![t].pc = "acquire", ![t].slot = s]
    BY <1>22 DEF Pick
  <2>3. PICK c : c = [me EXCEPT !.pc = "acquire", !.slot = s]
    OBVIOUS
  <2>4. c.pc = "acquire" /\ c.out = me.out
    BY <2>3 DEF Thread
  <2>5. conv' = [conv EXCEPT ![t] = c]
    BY <1>1, <1>2, <2>2, <2>3
  <2>6. Keeps(t, c)
    BY <1>1, <1>5, <1>14, <2>1, <2>4 DEF Keeps
  <2> QED  BY <1>1, <2>4, <2>5, <2>6 DEF Turns, Blames
<1>23. CASE Reuse(t)
  <2>1. /\ UNCHANGED <<proc, table, pool, disabled>> /\ me.pc = "ensure"
        /\ Leased(t, table[me.slot])
    BY <1>1, <1>23 DEF Reuse, engine, At
  <2>2. PICK c : /\ conv' = [conv EXCEPT ![t] = c] /\ c.out = me.out
                 /\ \/ c.pc = "send" /\ c.server = table[me.slot]
                    \/ c.pc \in {"acquire", "fallback"}
    BY <1>13, <2>1
  <2>3. me.slot \in Slots
    BY <1>3, <2>1 DEF SlotHeld
  <2>4. Keeps(t, c)
    BY <1>1, <1>5, <1>14, <2>1, <2>2, <2>3 DEF Keeps
  <2> QED  BY <1>1, <2>2, <2>4 DEF Turns, Blames
<1>24. CASE Spawn(t)
  <2>1. /\ UNCHANGED <<table, pool, disabled>> /\ me.pc = "ensure"
        /\ proc' = Append(proc, Booting) /\ ~Alive(table[me.slot])
        /\ conv' = [conv EXCEPT ![t].pc = "spawn", ![t].server = Spawned]
    BY <1>1, <1>24 DEF Spawn, engine, At
  <2>2. PICK c : c = [me EXCEPT !.pc = "spawn", !.server = Spawned]
    OBVIOUS
  <2>3. c.pc = "spawn" /\ c.out = me.out /\ c.server = Spawned /\ c.slot = me.slot
    BY <2>2 DEF Thread
  <2>4. conv' = [conv EXCEPT ![t] = c]
    BY <1>1, <1>2, <2>1, <2>2
  <2>5. table[me.slot] \notin Ups
    BY <1>2, <2>1 DEF Alive, Ups
  <2>6. Boot(t, c)
    BY <1>1, <1>11, <2>1, <2>3, <2>5 DEF Boot
  <2> QED  BY <1>1, <2>3, <2>4, <2>6 DEF Turns, Blames
<1>25. CASE SpawnError(t) \/ Timeout(t) \/ Repaid(t)
  <2>1. /\ UNCHANGED <<proc, table, pool, disabled>> /\ me.pc \in {"ensure", "wait", "repaid"}
        /\ \E out \in {"none", "engine", "timeout", "ok"} : Finish(t, out)
    BY <1>1, <1>25 DEF SpawnError, Timeout, Repaid, engine, At
  <2> QED  BY <1>6, <1>14, <2>1
<1>26. CASE SpawnUp(t)
  <2>1. /\ me.pc = "spawn" /\ proc' = [proc EXCEPT ![me.server].state = "up"]
        /\ table' = [table EXCEPT ![me.slot] = me.server]
        /\ UNCHANGED <<pool, disabled>> /\ Leased(t, me.server)
    BY <1>1, <1>26 DEF SpawnUp, engine, At
  <2>2. PICK c : /\ conv' = [conv EXCEPT ![t] = c] /\ c.out = me.out
                 /\ \/ c.pc = "send" /\ c.server = me.server
                    \/ c.pc \in {"acquire", "fallback"}
    BY <1>13, <2>1
  <2>3. Arrived(t, c)
    BY <1>1, <1>10, <2>1, <2>2 DEF Arrived
  <2> QED  BY <1>1, <2>2, <2>3 DEF Turns, Blames
<1>27. CASE SpawnFails(t)
  <2>1. /\ me.pc = "spawn" /\ proc' = [proc EXCEPT ![me.server].state = "dead"]
        /\ UNCHANGED <<table, pool, disabled>> /\ Leave(t)
    BY <1>1, <1>27 DEF SpawnFails, engine, At
  <2>2. PICK c : conv' = [conv EXCEPT ![t] = c] /\ c.pc = "fallback" /\ c.out = me.out
    BY <1>9, <2>1
  <2>3. Failed(t, c)
    BY <1>1, <1>10, <2>1, <2>2 DEF Failed
  <2> QED  BY <1>1, <2>2, <2>3 DEF Turns, Blames
<1>28. CASE Send(t)
  <2>1. me.pc = "send" /\ UNCHANGED <<table, pool, disabled>> /\ me.server \in 1..Len(proc)
    BY <1>1, <1>3, <1>28 DEF Send, engine, At, Serving
  <2>2. CASE /\ proc' = [proc EXCEPT ![me.server].inside = @ + 1] /\ Goto(t, "wait")
    <3>1. PICK k \in Nat : k = proc[me.server].inside + 1
      <4>1. proc[me.server] \in Process
        BY <1>2, <2>1
      <4> QED  BY <4>1 DEF Process
    <3>2. proc' = [proc EXCEPT ![me.server].inside = k]
      BY <2>2, <3>1
    <3>3. Boots' = Boots /\ Ups' = Ups
      BY <1>12, <2>1, <3>2
    <3>4. PICK c : /\ conv' = [conv EXCEPT ![t] = c] /\ c.pc = "wait" /\ c.slot = me.slot
                   /\ c.server = me.server /\ c.bad = me.bad /\ c.out = me.out
      BY <1>7, <2>2
    <3>5. Keeps(t, c)
      BY <1>1, <1>14, <2>1, <3>3, <3>4 DEF Keeps
    <3> QED  BY <1>1, <3>4, <3>5 DEF Turns, Blames
  <2>3. CASE State(me.server) # "up" /\ Goto(t, "judge") /\ UNCHANGED proc
    <3>1. PICK c : /\ conv' = [conv EXCEPT ![t] = c] /\ c.pc = "judge" /\ c.slot = me.slot
                   /\ c.server = me.server /\ c.bad = me.bad /\ c.out = me.out
      BY <1>7, <2>3
    <3>2. me.server \notin Ups
      BY <2>3 DEF Ups
    <3>3. Keeps(t, c)
      BY <1>1, <1>5, <1>14, <2>1, <2>3, <3>1, <3>2 DEF Keeps
    <3> QED  BY <1>1, <3>1, <3>3 DEF Turns, Blames
  <2> QED  BY <1>1, <1>28, <2>2, <2>3 DEF Send
<1>29. CASE Answer(t)
  <2>1. /\ me.pc = "wait" /\ UNCHANGED <<table, pool, disabled>> /\ State(me.server) = "up"
        /\ proc' = [proc EXCEPT ![me.server].inside = @ - 1] /\ me.server \in 1..Len(proc)
        /\ Goto(t, IF me.bad THEN "judge" ELSE "repay")
    BY <1>1, <1>3, <1>29 DEF Answer, engine, At, Serving
  <2>2. PICK k \in Nat : k = proc[me.server].inside - 1
    <3>1. proc[me.server] \in Process
      BY <1>2, <2>1
    <3>2. proc[me.server].inside > 0
      BY <1>1, <2>1 DEF Inductive, Occupied, At
    <3> QED  BY <3>1, <3>2 DEF Process
  <2>3. Boots' = Boots /\ Ups' = Ups
    <3>1. proc' = [proc EXCEPT ![me.server].inside = k]
      BY <2>1, <2>2
    <3> QED  BY <1>12, <2>1, <3>1
  <2>4. PICK c : /\ conv' = [conv EXCEPT ![t] = c]
                 /\ c.pc = (IF me.bad THEN "judge" ELSE "repay") /\ c.slot = me.slot
                 /\ c.server = me.server /\ c.bad = me.bad /\ c.out = me.out
    BY <1>7, <2>1
  <2>5. c.pc \in {"judge", "repay"} /\ (c.pc = "judge" => c.bad)
    BY <2>4
  <2>6. Keeps(t, c)
    BY <1>1, <1>14, <2>1, <2>3, <2>4, <2>5 DEF Keeps
  <2> QED  BY <1>1, <2>4, <2>6 DEF Turns, Blames
<1>30. CASE ConnectionLost(t)
  <2>1. /\ me.pc = "wait" /\ UNCHANGED <<proc, table, pool, disabled>>
        /\ State(me.server) # "up" /\ Goto(t, "judge")
    BY <1>1, <1>30 DEF ConnectionLost, engine, At
  <2>2. PICK c : /\ conv' = [conv EXCEPT ![t] = c] /\ c.pc = "judge" /\ c.slot = me.slot
                 /\ c.server = me.server /\ c.bad = me.bad /\ c.out = me.out
    BY <1>7, <2>1
  <2>3. me.server \notin Ups
    BY <2>1 DEF Ups
  <2>4. Keeps(t, c)
    BY <1>1, <1>5, <1>14, <2>1, <2>2, <2>3 DEF Keeps
  <2> QED  BY <1>1, <2>2, <2>4 DEF Turns, Blames
<1>31. CASE Judge(t)
  <2>1. /\ me.pc = "judge" /\ UNCHANGED <<proc, table, pool, disabled>>
        /\ \/ Goto(t, "strike")
           \/ State(me.server) = "up" /\ Finish(t, "document")
    BY <1>1, <1>31 DEF Judge, engine, At
  <2>2. CASE Goto(t, "strike")
    BY <1>8, <1>14, <2>1, <2>2
  <2>3. CASE State(me.server) = "up" /\ Finish(t, "document")
    <3>1. me.server \in Ups
      BY <1>2, <1>3, <2>1, <2>3 DEF Ups, Serving
    <3>2. me.bad
      BY <1>1, <2>1, <3>1 DEF Verdicts
    <3> QED  BY <1>6, <1>14, <2>1, <2>3, <3>2
  <2> QED  BY <2>1, <2>2, <2>3
<1>32. CASE Strike(t) \/ Repay(t)
  <2>1. /\ UNCHANGED <<proc, table, pool, disabled>> /\ me.pc \in {"strike", "repay"}
    BY <1>1, <1>32 DEF Strike, Repay, engine, At
  <2>2. PICK pc \in {"score", "repaid"} : conv' = [conv EXCEPT ![t].pc = pc, ![t].read = strikes]
    BY <1>32 DEF Strike, Repay
  <2>3. PICK c : c = [me EXCEPT !.pc = pc, !.read = strikes]
    OBVIOUS
  <2>4. c.pc = pc /\ c.out = me.out
    BY <2>3 DEF Thread
  <2>5. conv' = [conv EXCEPT ![t] = c]
    BY <1>1, <1>2, <2>2, <2>3
  <2>6. Keeps(t, c)
    BY <1>1, <1>5, <1>14, <2>1, <2>4 DEF Keeps
  <2> QED  BY <1>1, <2>4, <2>5, <2>6 DEF Turns, Blames
<1>33. CASE Limit(t)
  <2>1. me.pc = "limit" /\ UNCHANGED <<proc, table, pool>>
    BY <1>1, <1>33 DEF Limit, At
  <2>2. CASE Leave(t) /\ UNCHANGED disabled
    <3>1. PICK c : conv' = [conv EXCEPT ![t] = c] /\ c.pc = "fallback" /\ c.out = me.out
      BY <1>9, <2>2
    <3>2. Keeps(t, c)
      BY <1>1, <1>5, <1>14, <2>1, <2>2, <3>1 DEF Keeps
    <3> QED  BY <1>1, <3>1, <3>2 DEF Turns, Blames
  <2>3. CASE disabled' = TRUE /\ Goto(t, "shutdown")
    BY <1>8, <1>14, <2>1, <2>3
  <2> QED  BY <1>33, <2>2, <2>3 DEF Limit
<1>34. CASE Shutdown(t)
  <2>1. /\ me.pc = "shutdown" /\ UNCHANGED <<table, disabled>> /\ Goto(t, "clear")
        /\ DOMAIN proc' = DOMAIN proc
        /\ \A p \in DOMAIN proc : \/ proc'[p] = proc[p]
                                  \/ /\ State(p) \in {"up", "dying"}
                                     /\ proc'[p] = [proc[p] EXCEPT !.state = "dead"]
    BY <1>1, <1>34 DEF Shutdown, engine, At, Alive
  <2>2. \A p \in DOMAIN proc : [proc[p] EXCEPT !.state = "dead"].state = "dead"
    <3>1. \A p \in DOMAIN proc : proc[p] \in Process
      BY <1>2
    <3> QED  BY <3>1 DEF Process
  <2>3. Boots' = Boots /\ Ups' \subseteq Ups
    BY <2>1, <2>2 DEF Boots, Ups, State
  <2>4. PICK c : /\ conv' = [conv EXCEPT ![t] = c] /\ c.pc = "clear" /\ c.slot = me.slot
                 /\ c.server = me.server /\ c.bad = me.bad /\ c.out = me.out
    BY <1>7, <2>1
  <2>5. Closes(t, c)
    BY <1>1, <2>1, <2>3, <2>4 DEF Closes
  <2> QED  BY <1>1, <2>4, <2>5 DEF Turns, Blames
<1>35. CASE Clear(t)
  <2>1. /\ me.pc = "clear" /\ UNCHANGED <<proc, disabled>> /\ Leave(t)
        /\ table' = [s \in Slots |-> 0]
    BY <1>1, <1>35 DEF Clear, At
  <2>2. PICK c : conv' = [conv EXCEPT ![t] = c] /\ c.pc = "fallback" /\ c.out = me.out
    BY <1>9, <2>1
  <2>3. Closes(t, c)
    BY <1>1, <1>5, <2>1, <2>2 DEF Closes
  <2> QED  BY <1>1, <2>2, <2>3 DEF Turns, Blames
<1> QED
  BY <1>15, <1>16, <1>17, <1>18, <1>19, <1>20, <1>21, <1>22, <1>23, <1>24, <1>25, <1>26,
     <1>27, <1>28, <1>29, <1>30, <1>31, <1>32, <1>33, <1>34, <1>35 DEF Convert

\* A process crashes, exits or answers late.
LEMMA ServerHomes ==
  ASSUME Inductive, Homes, Verdicts, NEW p \in DOMAIN proc, Server(p)
  PROVE  Homes' /\ Verdicts'
<1>1. UNCHANGED <<table, pool, disabled, conv>>
  BY DEF Server, Crash, Exit, LateAnswer, engine
<1>2. Boots' = Boots /\ Ups' \subseteq Ups
  <2>1. proc[p] \in Process
    BY DEF Inductive, Typing, TypeOK
  <2>2. CASE Crash(p)
    <3>1. State(p) = "up" /\ proc' = [proc EXCEPT ![p] = [state |-> "dying", inside |-> 0]]
      BY <2>2 DEF Crash
    <3> QED  BY <3>1 DEF Boots, Ups, State
  <2>3. CASE Exit(p)
    <3>1. PICK r : r = [proc[p] EXCEPT !.state = "dead"]
      OBVIOUS
    <3>2. r.state = "dead" /\ State(p) = "dying" /\ proc' = [proc EXCEPT ![p] = r]
      BY <2>1, <2>3, <3>1 DEF Exit, Process
    <3> QED  BY <3>2 DEF Boots, Ups, State
  <2>4. CASE LateAnswer(p)
    <3>1. PICK r : r = [proc[p] EXCEPT !.inside = @ - 1]
      OBVIOUS
    <3>2. r.state = proc[p].state /\ proc' = [proc EXCEPT ![p] = r]
      BY <2>1, <2>4, <3>1 DEF LateAnswer, Process
    <3> QED  BY <3>2 DEF Boots, Ups, State
  <2> QED  BY <2>2, <2>3, <2>4 DEF Server
<1>3. \A t \in Threads : conv[t].pc = "spawn" => conv[t].slot \in Slots
  BY DEF Inductive, Typing, ThreadOK, SlotHeld
<1> QED
  BY <1>1, <1>2 DEF Homes, Verdicts

LEMMA AlwaysHoused == Spec => [](Inductive /\ Homes /\ Verdicts)
<1>1. Init => Homes /\ Verdicts
  <2> SUFFICES ASSUME Init PROVE Homes /\ Verdicts
    OBVIOUS
  <2>1. Boots = {} /\ Ups = {} /\ \A s \in Slots : table[s] = 0
    BY DEF Init, Boots, Ups
  <2>2. \A t \in Threads : conv[t].pc = "idle"
    BY DEF Init, Idle
  <2> QED
    BY <2>1, <2>2 DEF Homes, Verdicts, Fresh, Inner, SlotHeld
<1>2. Inductive /\ Homes /\ Verdicts /\ [Next]_vars => Homes' /\ Verdicts'
  <2>1. CASE UNCHANGED vars
    BY <2>1 DEF vars, Homes, Verdicts, Boots, Ups, State
  <2>2. CASE Next
    BY <2>2, ThreadTurns, TurnsHomes, ServerHomes DEF Next
  <2> QED
    BY <2>1, <2>2
<1> QED
  BY AlwaysInductive, <1>1, <1>2, PTL DEF Spec

\* Type correctness: whatever the threads do to the score, the table, the
\* locks and the documents inside the servers, every variable keeps its type;
\* in particular no score and no count of documents falls below zero.
THEOREM PoolTyped == Spec => []TypeOK
<1>1. Inductive => TypeOK
  BY DEF Inductive, Typing
<1> QED
  BY AlwaysInductive, <1>1, PTL

\* UnoServerPool.convert: for any number of threads and slots, two clients
\* never talk to the same unoserver, across activations, restarts, timeouts,
\* crashes and a shutdown that takes no slot lock.
THEOREM ServersAreExclusive == Spec => []OneClientPerServer
<1>1. Inductive => OneClientPerServer
  BY DEF Inductive, Servers, OneClientPerServer, Busy, Owning
<1> QED
  BY AlwaysInductive, <1>1, PTL

\* _record_engine_strike: although successes write the score without the pool
\* lock, a pool in service is disabled only after conversions have crashed it
\* often enough, for any cost and limit.
THEOREM DisablingIsJustified == Spec => []DisabledForCause
<1>1. Inductive => DisabledForCause
  BY DEF Inductive, Cause
<1> QED
  BY AlwaysInductive, <1>1, PTL

\* UnoServerPool: for any number of threads, slots and launchers, as long as the
\* pool is in service it runs no more servers than it has slots: none is left
\* running outside the table when a startup fails, a probe goes on to the next
\* launcher or a slot's server is replaced.
THEOREM PoolKeepsItsSize == Spec => []FixedSize
<1>1. Inductive /\ Homes /\ Verdicts => FixedSize
  <2> SUFFICES ASSUME Inductive, Homes, Verdicts, ~disabled
               PROVE  Cardinality(Live) <= PoolSize
    BY DEF FixedSize
  <2>1. Live = Boots \cup Ups
    BY DEF Live, Boots, Ups
  \* The slot a process is for: its own in the table, or its starter's.
  <2> DEFINE For(p, s) == \/ table[s] = p
                          \/ \E t \in Threads : conv[t].pc = "spawn" /\ conv[t].server = p
                                                /\ conv[t].slot = s
                          \/ s = 1 /\ \E t \in Threads :
                                        conv[t].pc = "probe" /\ conv[t].server = p
  <2>2. 1 \in Slots /\ 0 \notin Boots \cup Ups
    <3>1. 0 \notin DOMAIN proc
      BY DEF Inductive, Typing, TypeOK
    <3> QED  BY <3>1, ConstantsAssumption DEF Slots, Boots, Ups
  <2>3. \A p \in Live : \E s \in Slots : For(p, s)
    <3> SUFFICES ASSUME NEW p \in Live PROVE \E s \in Slots : For(p, s)
      OBVIOUS
    <3>1. CASE \E s \in Slots : table[s] = p
      BY <3>1
    <3>2. CASE \E t \in Threads : conv[t].pc \in Fresh /\ conv[t].server = p
      <4>1. PICK t \in Threads : conv[t].pc \in Fresh /\ conv[t].server = p
        BY <3>2
      <4>2. conv[t].pc = "spawn" => conv[t].slot \in Slots
        BY DEF Inductive, Typing, ThreadOK, SlotHeld
      <4> QED  BY <2>2, <4>1, <4>2 DEF Fresh
    <3> QED  BY <2>1, <3>1, <3>2 DEF Homes
  <2>4. ASSUME NEW p \in Live, NEW q \in Live, NEW s \in Slots, For(p, s), For(q, s)
        PROVE  p = q
    <3>1. ASSUME NEW t \in Threads, conv[t].pc = "probe"
          PROVE  /\ \A r \in Slots : table[r] = 0
                 /\ \A u \in Threads : u # t => conv[u].pc \notin {"probe", "spawn"}
      <4>1. ~pool /\ ~disabled
        BY <3>1 DEF Inductive, Cause, At
      <4> QED  BY <3>1, <4>1 DEF Homes, Inner, SlotHeld, Inductive, Locks, PoolHeld
    <3>2. ASSUME NEW t \in Threads, conv[t].pc = "spawn", conv[t].slot = s
          PROVE  /\ table[s] # p /\ table[s] # q
                 /\ \A u \in Threads : conv[u].pc = "spawn" /\ conv[u].slot = s => u = t
                 /\ \A u \in Threads : conv[u].pc # "probe"
      <4>1. table[s] \notin Live
        BY <2>1, <3>2 DEF Homes
      <4>2. \A u \in Threads : conv[u].pc = "spawn" /\ conv[u].slot = s => u = t
        BY <3>2 DEF Inductive, Locks, SlotHeld
      <4>3. \A u \in Threads : conv[u].pc # "probe"
        BY <3>1, <3>2
      <4> QED  BY <4>1, <4>2, <4>3
    <3>3. p # 0 /\ q # 0
      BY <2>1, <2>2
    <3>4. CASE table[s] = p
      BY <2>4, <3>1, <3>2, <3>3, <3>4
    <3>5. CASE \E t \in Threads : conv[t].pc = "spawn" /\ conv[t].server = p /\ conv[t].slot = s
      BY <2>4, <3>2, <3>5
    <3>6. CASE \E t \in Threads : conv[t].pc = "probe" /\ conv[t].server = p
      BY <2>4, <3>1, <3>3, <3>6
    <3> QED  BY <2>4, <3>4, <3>5, <3>6
  <2> HIDE DEF For
  <2>5. PICK f : f = [p \in Live |-> CHOOSE s \in Slots : For(p, s)]
    OBVIOUS
  <2>6. \A p \in Live : f[p] \in Slots /\ For(p, f[p])
    BY <2>3, <2>5
  <2>7. f \in Injection(Live, Slots)
    <3>1. f \in [Live -> Slots]
      BY <2>5, <2>6
    <3>2. \A p, q \in Live : f[p] = f[q] => p = q
      BY <2>4, <2>6
    <3> QED  BY <3>1, <3>2 DEF Injection, IsInjective
  <2>8. IsFiniteSet(Slots) /\ Cardinality(Slots) = PoolSize
    <3>1. 1 \in Int /\ PoolSize \in Int /\ PoolSize >= 1
      BY ConstantsAssumption
    <3>2. IsFiniteSet(1..PoolSize)
          /\ Cardinality(1..PoolSize) = IF 1 > PoolSize THEN 0 ELSE PoolSize - 1 + 1
      BY <3>1, FS_Interval
    <3> QED  BY <3>1, <3>2 DEF Slots
  <2>9. Cardinality(Live) <= Cardinality(Slots)
    BY <2>7, <2>8, FS_Injection
  <2> QED
    BY <2>8, <2>9
<1> QED
  BY AlwaysHoused, <1>1, PTL

\* _server_died: for any number of threads and whatever happens to the servers, a
\* conversion only ends as a bad document when its document is bad.
THEOREM GoodDocumentsConvert == Spec => GoodDocumentConverts
<1>1. Inductive /\ Homes /\ Verdicts /\ [Next]_vars =>
        [\A t \in Threads :
           conv'[t].out = "document" /\ conv[t].out # "document" => conv[t].bad]_vars
  <2> SUFFICES ASSUME Inductive, Homes, Verdicts, Next,
                      NEW t \in Threads,
                      conv'[t].out = "document", conv[t].out # "document"
               PROVE  conv[t].bad
    OBVIOUS
  <2>1. CASE \E p \in DOMAIN proc : Server(p)
    BY <2>1 DEF Server, Crash, Exit, LateAnswer
  <2>2. ASSUME NEW u \in Threads, Begin(u) \/ BeginWarm(u) \/ Convert(u)
        PROVE  conv[t].bad
    <3>1. PICK c : Turns(u, c) /\ Blames(u, c)
      BY <2>2, ThreadTurns
    <3>2. /\ conv' = [conv EXCEPT ![u] = c] /\ conv \in [Threads -> Thread]
      BY <3>1 DEF Turns, Inductive, Typing, TypeOK
    <3> QED  BY <3>1, <3>2 DEF Blames
  <2> QED
    BY <2>1, <2>2 DEF Next
<1> QED
  BY AlwaysHoused, <1>1, PTL DEF Spec, GoodDocumentConverts
=============================================================================
