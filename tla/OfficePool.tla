----------------------------- MODULE OfficePool -----------------------------
(***************************************************************************)
(* utils/office_pool.py and its callers in utils/office.py: the threads of  *)
(* one worker process convert Office documents on a pool of resident        *)
(* unoserver processes, with classic soffice as the fallback.               *)
(*                                                                         *)
(* A slot lock covers one conversion, the pool lock covers activation and   *)
(* strikes; the score is read and written without a lock when a conversion  *)
(* succeeds.  A process has one pool object in its life: activation creates *)
(* it and disabling is for good, so threads that still hold a reference to  *)
(* a disabled pool go on with the same slots and table.                     *)
(***************************************************************************)
EXTENDS Naturals, Sequences, FiniteSets

CONSTANTS Threads,        \* threads that convert, or prewarm the pool
          PoolSize,       \* UNOSERVER_POOL_SIZE
          Candidates,     \* number of server launchers found on the machine
          Forced,         \* OFFICE_ENGINE is "unoserver", else "auto"
          StrikeCost, StrikeLimit,
          MaxConversions, \* bound: documents of one behaviour
          Upsets,         \* which failures this instance has
          MaxUpsets       \* bound: how many of them happen in one behaviour

AllUpsets == {"bad_document",  \* a document no engine converts
              "crash",         \* LibreOffice dies on a document
              "timeout",       \* the client is killed after its timeout
              "boot_fails",    \* unoserver exits, or never opens its port
              "spawn_error"}   \* Popen raises OSError

ASSUME ConstantsAssumption ==
  /\ IsFiniteSet(Threads)
  /\ PoolSize \in Nat \ {0}
  /\ Candidates \in Nat
  /\ Forced \in BOOLEAN
  /\ StrikeCost \in Nat \ {0}
  /\ StrikeLimit \in Nat \ {0}
  /\ MaxConversions \in Nat
  /\ Upsets \subseteq AllUpsets
  /\ MaxUpsets \in Nat

Slots == 1..PoolSize

VARIABLES proc,       \* proc[i]: the i-th unoserver process ever started
          table,      \* _servers: the process of each slot, 0 for None
          locked,     \* slots whose lock is held
          poolLocked, \* _pool_lock is held
          pool,       \* _pool is not None
          disabled,   \* _pool_disabled
          strikes,    \* _engine_strikes
          conv,       \* conv[t]: what thread t is doing
          warmed,     \* _prewarm_started
          begun,      \* conversions begun
          crashes,    \* strikes recorded (history)
          successes,  \* successes recorded (history)
          upsets

score == <<strikes, crashes, successes>>
budget == <<warmed, begun, upsets>>
engine == <<pool, disabled>>
vars == <<proc, table, locked, poolLocked, pool, disabled, strikes, conv,
          warmed, begun, crashes, successes, upsets>>

-----------------------------------------------------------------------------

\* Where a thread stands while it holds the lock of its slot, and while it
\* holds the pool lock.
SlotHeld == {"ensure", "spawn", "send", "wait", "judge", "strike", "score",
             "limit", "shutdown", "clear", "repay", "repaid"}
PoolHeld == {"probe", "score", "limit", "shutdown", "clear"}
Places == SlotHeld \cup PoolHeld \cup
          {"idle", "choose", "activate", "acquire", "pick", "fallback",
           "soffice"}

Thread == [pc: Places,
           task: {"none", "convert", "warm"},
           bad: BOOLEAN,       \* no engine converts the document
           slot: 0..PoolSize,
           server: Nat,        \* the process leased or being started
           cand: 0..Candidates,
           read: Nat,          \* the score this thread has read
           out: {"none", "ok", "document", "timeout", "engine"}]
Idle(out) == [pc |-> "idle", task |-> "none", bad |-> FALSE, slot |-> 0,
              server |-> 0, cand |-> 0, read |-> 0, out |-> out]

Process == [state: {"booting", "up", "dying", "dead"}, inside: Nat]

TypeOK ==
  /\ proc \in Seq(Process)
  /\ table \in [Slots -> Nat]
  /\ locked \in SUBSET Slots
  /\ poolLocked \in BOOLEAN
  /\ pool \in BOOLEAN
  /\ disabled \in BOOLEAN
  /\ strikes \in Nat
  /\ conv \in [Threads -> Thread]
  /\ warmed \in BOOLEAN
  /\ begun \in 0..MaxConversions
  /\ crashes \in Nat
  /\ successes \in Nat
  /\ upsets \in 0..MaxUpsets

Init ==
  /\ proc = <<>>
  /\ table = [s \in Slots |-> 0]
  /\ locked = {}
  /\ poolLocked = FALSE
  /\ pool = FALSE
  /\ disabled = FALSE
  /\ strikes = 0
  /\ conv = [t \in Threads |-> Idle("none")]
  /\ warmed \in BOOLEAN          \* or this process does not prewarm
  /\ begun = 0
  /\ crashes = 0
  /\ successes = 0
  /\ upsets = 0

Upset(kind) == /\ kind \in Upsets
               /\ upsets < MaxUpsets
               /\ upsets' = upsets + 1

At(t, pc) == conv[t].pc = pc
Goto(t, pc) == conv' = [conv EXCEPT ![t].pc = pc]
Finish(t, out) == conv' = [conv EXCEPT ![t] = Idle(out)]
Release(t) == locked' = locked \ {conv[t].slot}
Leave(t) == conv' = [conv EXCEPT ![t].pc = "fallback", ![t].slot = 0,
                                 ![t].server = 0, ![t].read = 0]

State(p) == proc[p].state
Alive(p) == p > 0 /\ State(p) \in {"up", "dying"}      \* poll() is None

-----------------------------------------------------------------------------
\* office.py: choosing the engine, falling back.

\* office_engine(), with pool_available()
PoolChosen == Forced \/ pool \/ (~disabled /\ Candidates > 0)

Begin(t) ==
  /\ At(t, "idle")
  /\ begun < MaxConversions
  /\ begun' = begun + 1
  /\ \/ /\ conv' = [conv EXCEPT ![t] = [Idle("none") EXCEPT
                      !.pc = "choose", !.task = "convert"]]
        /\ UNCHANGED upsets
     \/ /\ Upset("bad_document")
        /\ conv' = [conv EXCEPT ![t] = [Idle("none") EXCEPT
                      !.pc = "choose", !.task = "convert", !.bad = TRUE]]
  /\ UNCHANGED <<proc, table, locked, poolLocked, engine, score, warmed>>

BeginWarm(t) ==
  /\ At(t, "idle")
  /\ ~warmed
  /\ warmed' = TRUE
  /\ conv' = [conv EXCEPT ![t] = [Idle("none") EXCEPT
                !.pc = "choose", !.task = "warm"]]
  /\ UNCHANGED <<proc, table, locked, poolLocked, engine, score, begun, upsets>>

Choose(t) ==
  /\ At(t, "choose")
  /\ Goto(t, IF PoolChosen THEN "activate" ELSE "soffice")
  /\ UNCHANGED <<proc, table, locked, poolLocked, engine, score, budget>>

Fallback(t) ==
  /\ At(t, "fallback")
  /\ \/ /\ conv[t].task = "convert"
        /\ IF Forced THEN Finish(t, "engine") ELSE Goto(t, "soffice")
     \/ /\ conv[t].task = "warm"
        /\ IF PoolChosen THEN Finish(t, "none") ELSE Goto(t, "soffice")
  /\ UNCHANGED <<proc, table, locked, poolLocked, engine, score, budget>>

Soffice(t) ==
  /\ At(t, "soffice")
  /\ \/ /\ Finish(t, IF conv[t].bad THEN "document" ELSE "ok")
        /\ UNCHANGED upsets
     \/ /\ Upset("timeout")
        /\ Finish(t, "timeout")
  /\ UNCHANGED <<proc, table, locked, poolLocked, engine, score, warmed, begun>>

-----------------------------------------------------------------------------
\* _activate_pool

Booting == [state |-> "booting", inside |-> 0]
Spawned == Len(proc) + 1

Activate(t) ==
  /\ At(t, "activate")
  /\ ~poolLocked
  /\ \/ /\ pool
        /\ conv' = IF conv[t].task = "convert"
                   THEN [conv EXCEPT ![t].pc = "pick"]
                   ELSE [conv EXCEPT ![t].pc = "acquire", ![t].slot = 1]
        /\ UNCHANGED <<proc, poolLocked, disabled>>
     \/ /\ ~pool
        /\ disabled \/ Candidates = 0
        /\ disabled' = TRUE
        /\ Goto(t, "fallback")
        /\ UNCHANGED <<proc, poolLocked>>
     \/ /\ ~pool
        /\ ~disabled
        /\ Candidates > 0
        /\ poolLocked' = TRUE
        /\ proc' = Append(proc, Booting)
        /\ conv' = [conv EXCEPT ![t].pc = "probe", ![t].cand = 1,
                                ![t].server = Spawned]
        /\ UNCHANGED disabled
  /\ UNCHANGED <<table, locked, pool, score, budget>>

ProbeUp(t) ==
  /\ At(t, "probe")
  /\ proc' = [proc EXCEPT ![conv[t].server].state = "up"]
  /\ table' = [s \in Slots |-> IF s = 1 THEN conv[t].server ELSE 0]
  /\ pool' = TRUE
  /\ poolLocked' = FALSE
  /\ conv' = IF conv[t].task = "convert"
             THEN [conv EXCEPT ![t].pc = "pick", ![t].server = 0]
             ELSE [conv EXCEPT ![t].pc = "acquire", ![t].slot = 1,
                               ![t].server = 0]
  /\ UNCHANGED <<locked, disabled, score, budget>>

\* PoolUnavailable or OSError: the next candidate, or none is left.
ProbeFails(t) ==
  /\ At(t, "probe")
  /\ Upset("boot_fails")
  /\ LET failed == [proc EXCEPT ![conv[t].server].state = "dead"]
     IN \/ /\ conv[t].cand < Candidates
           /\ proc' = Append(failed, Booting)
           /\ conv' = [conv EXCEPT ![t].cand = @ + 1, ![t].server = Spawned]
           /\ UNCHANGED <<poolLocked, disabled>>
        \/ /\ conv[t].cand = Candidates
           /\ proc' = failed
           /\ disabled' = TRUE
           /\ poolLocked' = FALSE
           /\ Leave(t)
  /\ UNCHANGED <<table, locked, pool, score, warmed, begun>>

-----------------------------------------------------------------------------
\* UnoServerPool.convert and prewarm: lease a slot, start its server.

\* The first idle slot; when all are busy, the round robin's turn.
Pick(t) ==
  /\ At(t, "pick")
  /\ \E s \in Slots :
       /\ \/ s \notin locked /\ \A r \in Slots : r < s => r \in locked
          \/ locked = Slots
       /\ conv' = [conv EXCEPT ![t].pc = "acquire", ![t].slot = s]
  /\ UNCHANGED <<proc, table, locked, poolLocked, engine, score, budget>>

AcquireMutant(t) ==
  /\ At(t, "acquire")
  /\ locked' = locked \cup {conv[t].slot}
  /\ Goto(t, "ensure")
  /\ UNCHANGED <<proc, table, poolLocked, engine, score, budget>>
Acquire(t) ==
  /\ At(t, "acquire")
  /\ conv[t].slot \notin locked
  /\ locked' = locked \cup {conv[t].slot}
  /\ Goto(t, "ensure")
  /\ UNCHANGED <<proc, table, poolLocked, engine, score, budget>>

\* The slot's server is running: a conversion goes on with it, the prewarming
\* thread with the next slot.
Leased(t, server) ==
  \/ /\ conv[t].task = "convert"
     /\ conv' = [conv EXCEPT ![t].pc = "send", ![t].server = server]
     /\ UNCHANGED locked
  \/ /\ conv[t].task = "warm"
     /\ conv' = IF conv[t].slot < PoolSize
                THEN [conv EXCEPT ![t].pc = "acquire", ![t].slot = @ + 1,
                                  ![t].server = 0]
                ELSE [conv EXCEPT ![t].pc = "fallback", ![t].slot = 0,
                                  ![t].server = 0]
     /\ Release(t)

Reuse(t) ==
  /\ At(t, "ensure")
  /\ Alive(table[conv[t].slot])
  /\ Leased(t, table[conv[t].slot])
  /\ UNCHANGED <<proc, table, poolLocked, engine, score, budget>>

SpawnMutant(t) ==        \* does not look whether the slot's server is alive
  /\ At(t, "ensure")
  /\ proc' = Append(proc, Booting)
  /\ conv' = [conv EXCEPT ![t].pc = "spawn", ![t].server = Spawned]
  /\ UNCHANGED <<table, locked, poolLocked, engine, score, budget>>
Spawn(t) ==
  /\ At(t, "ensure")
  /\ ~Alive(table[conv[t].slot])
  /\ proc' = Append(proc, Booting)
  /\ conv' = [conv EXCEPT ![t].pc = "spawn", ![t].server = Spawned]
  /\ UNCHANGED <<table, locked, poolLocked, engine, score, budget>>

\* Popen raises OSError, which convert and libreoffice_convert let through.
SpawnError(t) ==
  /\ At(t, "ensure")
  /\ ~Alive(table[conv[t].slot])
  /\ Upset("spawn_error")
  /\ Release(t)
  /\ Finish(t, IF conv[t].task = "warm" THEN "none" ELSE "engine")
  /\ UNCHANGED <<proc, table, poolLocked, engine, score, warmed, begun>>

SpawnUp(t) ==
  /\ At(t, "spawn")
  /\ proc' = [proc EXCEPT ![conv[t].server].state = "up"]
  /\ table' = [table EXCEPT ![conv[t].slot] = conv[t].server]
  /\ Leased(t, conv[t].server)
  /\ UNCHANGED <<poolLocked, engine, score, budget>>

\* PoolUnavailable: it exited, or did not open its port and is terminated.
SpawnFails(t) ==
  /\ At(t, "spawn")
  /\ Upset("boot_fails")
  /\ proc' = [proc EXCEPT ![conv[t].server].state = "dead"]
  /\ Release(t)
  /\ Leave(t)
  /\ UNCHANGED <<table, poolLocked, engine, score, warmed, begun>>

-----------------------------------------------------------------------------
\* _run_client: the document is inside the server until the server answers,
\* whether or not the client still waits.

Send(t) ==
  /\ At(t, "send")
  /\ IF State(conv[t].server) = "up"
     THEN /\ proc' = [proc EXCEPT ![conv[t].server].inside = @ + 1]
          /\ Goto(t, "wait")
     ELSE Goto(t, "judge") /\ UNCHANGED proc
  /\ UNCHANGED <<table, locked, poolLocked, engine, score, budget>>

Answer(t) ==
  /\ At(t, "wait")
  /\ State(conv[t].server) = "up"
  /\ proc' = [proc EXCEPT ![conv[t].server].inside = @ - 1]
  /\ Goto(t, IF conv[t].bad THEN "judge" ELSE "repay")
  /\ UNCHANGED <<table, locked, poolLocked, engine, score, budget>>

ConnectionLost(t) ==
  /\ At(t, "wait")
  /\ State(conv[t].server) # "up"
  /\ Goto(t, "judge")
  /\ UNCHANGED <<proc, table, locked, poolLocked, engine, score, budget>>

\* exc.timed_out: raised as it is, and no caller falls back.
Timeout(t) ==
  /\ At(t, "wait")
  /\ Upset("timeout")
  /\ Release(t)
  /\ Finish(t, "timeout")
  /\ UNCHANGED <<proc, table, poolLocked, engine, score, warmed, begun>>

\* _server_died: LibreOffice's death takes its unoserver down within the
\* grace period; if the process outlives it, the document is the suspect.
JudgeMutant(t) ==
  /\ At(t, "judge")
  /\ \/ /\ State(conv[t].server) = "dead"
        /\ Goto(t, "strike")
        /\ UNCHANGED locked
     \/ /\ State(conv[t].server) # "dead"
        /\ Release(t)
        /\ Finish(t, "document")
  /\ UNCHANGED <<proc, table, poolLocked, engine, score, budget>>
Judge(t) ==
  /\ At(t, "judge")
  /\ State(conv[t].server) # "dying"
  /\ \/ /\ State(conv[t].server) = "dead"
        /\ Goto(t, "strike")
        /\ UNCHANGED locked
     \/ /\ State(conv[t].server) = "up"
        /\ Release(t)
        /\ Finish(t, "document")
  /\ UNCHANGED <<proc, table, poolLocked, engine, score, budget>>

-----------------------------------------------------------------------------
\* _record_engine_strike, under the pool lock and still inside the slot:
\* read, write, compare, then shutdown.

Strike(t) ==
  /\ At(t, "strike")
  /\ ~poolLocked
  /\ poolLocked' = TRUE
  /\ conv' = [conv EXCEPT ![t].pc = "score", ![t].read = strikes]
  /\ UNCHANGED <<proc, table, locked, engine, score, budget>>

Score(t) ==
  /\ At(t, "score")
  /\ strikes' = conv[t].read + StrikeCost
  /\ crashes' = crashes + 1
  /\ Goto(t, "limit")
  /\ UNCHANGED <<proc, table, locked, poolLocked, engine, successes, budget>>

LimitMutant(t) ==        \* every crash disables the pool
  /\ At(t, "limit")
  /\ disabled' = TRUE
  /\ Goto(t, "shutdown")
  /\ UNCHANGED <<proc, table, locked, poolLocked, pool, score, budget>>
Limit(t) ==
  /\ At(t, "limit")
  /\ \/ /\ strikes < StrikeLimit \/ disabled
        /\ poolLocked' = FALSE
        /\ Release(t)
        /\ Leave(t)
        /\ UNCHANGED disabled
     \/ /\ strikes >= StrikeLimit
        /\ ~disabled
        /\ disabled' = TRUE
        /\ Goto(t, "shutdown")
        /\ UNCHANGED <<poolLocked, locked>>
  /\ UNCHANGED <<proc, table, pool, score, budget>>

\* shutdown() terminates the servers of the table; it takes no slot lock.
ShutdownMutant(t) ==     \* waits for the slots to be free
  /\ At(t, "shutdown")
  /\ locked = {}
  /\ Goto(t, "clear")
  /\ UNCHANGED <<proc, table, locked, poolLocked, engine, score, budget>>
Shutdown(t) ==
  /\ At(t, "shutdown")
  /\ proc' = [p \in DOMAIN proc |->
                IF (\E s \in Slots : table[s] = p) /\ Alive(p)
                THEN [proc[p] EXCEPT !.state = "dead"] ELSE proc[p]]
  /\ Goto(t, "clear")
  /\ UNCHANGED <<table, locked, poolLocked, engine, score, budget>>

Clear(t) ==
  /\ At(t, "clear")
  /\ table' = [s \in Slots |-> 0]
  /\ pool' = FALSE
  /\ poolLocked' = FALSE
  /\ Release(t)
  /\ Leave(t)
  /\ UNCHANGED <<proc, disabled, score, budget>>

\* _record_engine_success, without the pool lock.
Repay(t) ==
  /\ At(t, "repay")
  /\ conv' = [conv EXCEPT ![t].pc = "repaid", ![t].read = strikes]
  /\ UNCHANGED <<proc, table, locked, poolLocked, engine, score, budget>>

Repaid(t) ==
  /\ At(t, "repaid")
  /\ strikes' = IF conv[t].read = 0 THEN 0 ELSE conv[t].read - 1
  /\ successes' = successes + 1
  /\ Release(t)
  /\ Finish(t, "ok")
  /\ UNCHANGED <<proc, table, poolLocked, engine, crashes, budget>>

-----------------------------------------------------------------------------
\* The processes

\* LibreOffice dies on a document, then its unoserver exits.
Crash(p) ==
  /\ State(p) = "up"
  /\ proc[p].inside > 0
  /\ Upset("crash")
  /\ proc' = [proc EXCEPT ![p] = [state |-> "dying", inside |-> 0]]
  /\ UNCHANGED <<table, locked, poolLocked, engine, score, conv, warmed, begun>>

Exit(p) ==
  /\ State(p) = "dying"
  /\ proc' = [proc EXCEPT ![p].state = "dead"]
  /\ UNCHANGED <<table, locked, poolLocked, engine, score, conv, budget>>

Waiting(p) == {t \in Threads : At(t, "wait") /\ conv[t].server = p}

\* The server is through with a document whose client has timed out.
LateAnswer(p) ==
  /\ State(p) = "up"
  /\ proc[p].inside > Cardinality(Waiting(p))
  /\ proc' = [proc EXCEPT ![p].inside = @ - 1]
  /\ UNCHANGED <<table, locked, poolLocked, engine, score, conv, budget>>

-----------------------------------------------------------------------------

Convert(t) ==
  \/ Choose(t) \/ Activate(t) \/ ProbeUp(t) \/ ProbeFails(t)
  \/ Pick(t) \/ Acquire(t) \/ Reuse(t) \/ Spawn(t) \/ SpawnError(t)
  \/ SpawnUp(t) \/ SpawnFails(t)
  \/ Send(t) \/ Answer(t) \/ ConnectionLost(t) \/ Timeout(t) \/ Judge(t)
  \/ Strike(t) \/ Score(t) \/ Limit(t) \/ Shutdown(t) \/ Clear(t)
  \/ Repay(t) \/ Repaid(t)
  \/ Fallback(t) \/ Soffice(t)

Server(p) == Crash(p) \/ Exit(p) \/ LateAnswer(p)

Next ==
  \/ \E t \in Threads : Begin(t) \/ BeginWarm(t) \/ Convert(t)
  \/ \E p \in DOMAIN proc : Server(p)

Spec == Init /\ [][Next]_vars

\* Every wait of the code is bounded: the startup by 90 seconds, the client by
\* its timeout, the grace period by 2 seconds, and locks are handed on.
Fairness ==
  /\ \A t \in Threads : WF_vars(Convert(t))
  /\ WF_vars(\E p \in DOMAIN proc : Exit(p))

FairSpec == Spec /\ Fairness

-----------------------------------------------------------------------------
\* Properties

Busy(t) == conv[t].pc \in {"send", "wait"}
Live == {p \in DOMAIN proc : State(p) \in {"booting", "up"}}

\* Two conversions never talk to the same server, whatever activations,
\* restarts and shutdowns come in between.
OneClientPerServer ==
  \A t, u \in Threads :
    Busy(t) /\ Busy(u) /\ conv[t].server = conv[u].server => t = u

\* As long as the pool is in service it runs no more servers than it has
\* slots: a server in nobody's table would never be stopped.
FixedSize == ~disabled => Cardinality(Live) <= PoolSize

\* A conversion that fails as a bad document had a bad document, even when
\* LibreOffice died, or was shut down by another thread, in the meantime.
GoodDocumentConverts ==
  [][\A t \in Threads :
       conv'[t].out = "document" /\ conv[t].out # "document" => conv[t].bad]_vars

\* A pool that has been in service is disabled only after enough conversions
\* have killed their server, however the unlocked score was interleaved.
DisabledForCause ==
  disabled /\ pool => StrikeCost * crashes >= StrikeLimit

\* Every conversion ends: slot locks, the pool lock and the waits for servers
\* never block each other for good.
EveryConversionEnds ==
  \A t \in Threads : conv[t].pc # "idle" ~> conv[t].pc = "idle"
=============================================================================
