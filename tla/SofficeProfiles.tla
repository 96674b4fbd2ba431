-------------------------- MODULE SofficeProfiles --------------------------
(***************************************************************************)
(* The soffice engine of utils/office.py: threads of several worker         *)
(* processes lease profile directories <pid>-<slot>, clone them from a      *)
(* shared template, run soffice on them with one retry on a pristine one,   *)
(* and seed the template from the first profile that is ready. The          *)
(* directories live on one disk and outlive their process.                  *)
(***************************************************************************)
EXTENDS Naturals, FiniteSets

CONSTANTS Processes,       \* pids of worker processes
          ThreadsEach,     \* most threads of a process that convert
          Crews,           \* the sets of threads that may be at work
          Slots,           \* SOFFICE_PROFILE_POOL_SIZE
          Parts,           \* the files a profile directory is made of
          MaxLeases,       \* bound: conversions of one behaviour
          ProfileUpsets,   \* which failures may happen
          MaxProfileUpsets \* bound: how many of them

AllProfileUpsets == {"bad_document", "crash", "timeout", "copy_fails", "aged",
                     "process_dies"}

ASSUME ProfilesAssumption ==
  /\ ThreadsEach \in Nat \ {0} /\ Slots \in Nat \ {0}
  /\ Crews \subseteq SUBSET (Processes \X (1..ThreadsEach))
  /\ "." \notin Parts
  /\ ProfileUpsets \subseteq AllProfileUpsets
  /\ MaxLeases \in Nat /\ MaxProfileUpsets \in Nat

Threads == Processes \X (1..ThreadsEach)
Names == Processes \X (1..Slots)       \* <pid>-<slot>

VARIABLES crew,      \* the threads at work
          profile,   \* profile[n]: the directory <pid>-<slot>
          aged,      \* directories whose mtime is a day old
          raided,    \* profiles of a living process that another process
                     \* purged something of (history)
          template,  \* the directory "template"
          staging,   \* staging[p]: the directory template-staging-<pid>
          slotLock,  \* slotLock[n]: the threads that hold the lock of a slot
          started,   \* processes whose first lease created the slots
          dead,      \* processes that died
          lease,     \* lease[t]: where a thread stands
          leases,    \* conversions begun
          mishaps    \* upsets so far

profileVars == <<crew, profile, aged, raided, template, staging, slotLock, started,
                 dead, lease, leases, mishaps>>

\* A directory is the set of its files, with "." for itself.
Dirs == {d \in SUBSET (Parts \cup {"."}) : d = {} \/ "." \in d}
None == {}
Empty == {"."}
Whole == Parts \cup {"."}
Idle == [pc |-> "idle", slot |-> 1, try |-> 1, good |-> TRUE, hurt |-> FALSE,
         left |-> {}, victim |-> {}, result |-> "none"]

Results == {"none", "ok", "timeout", "document", "purged", "corrupt", "crash"}

ProfilesTypeOK ==
  /\ crew \in Crews
  /\ profile \in [Names -> Dirs]
  /\ aged \in SUBSET Names
  /\ raided \in SUBSET Names
  /\ template \in Dirs
  /\ staging \in [Processes -> Dirs]
  /\ slotLock \in [Names -> SUBSET Threads]
  /\ started \in SUBSET Processes
  /\ dead \in SUBSET Processes
  /\ lease \in [Threads ->
       [pc: {"idle", "purge", "pick", "wait", "clone", "run", "seed", "clear",
             "mkdir", "copy", "publish", "undo", "release"},
        slot: 1..Slots, try: 1..2, good: BOOLEAN, hurt: BOOLEAN,
        left: (SUBSET Names) \cup (SUBSET Parts), victim: SUBSET Names,
        result: Results]]
  /\ leases \in 0..MaxLeases
  /\ mishaps \in 0..MaxProfileUpsets

ProfilesInit ==
  /\ crew \in Crews
  /\ profile = [n \in Names |-> None]
  /\ aged = {}
  /\ raided = {}
  /\ template = None
  /\ staging = [p \in Processes |-> None]
  /\ slotLock = [n \in Names |-> {}]
  /\ started = {}
  /\ dead = {}
  /\ lease = [t \in Threads |-> Idle]
  /\ leases = 0
  /\ mishaps = 0

ProfileUpset(kind) == /\ kind \in ProfileUpsets
               /\ mishaps < MaxProfileUpsets
               /\ mishaps' = mishaps + 1
ProfileCalm == UNCHANGED mishaps

At(t, pc) == lease[t].pc = pc /\ t \in crew /\ t[1] \notin dead
Name(t) == <<t[1], lease[t].slot>>
Go(t, pc) == lease' = [lease EXCEPT ![t].pc = pc]
Fresh(t) == aged' = aged \ {Name(t)}
Disks == <<crew, profile, aged, raided, template, staging>>

-----------------------------------------------------------------------------
(* _warm_profile up to the yield.                                           *)

\* The first lease of a process creates the slots and purges: it lists the
\* directories of the cache, ...
BeginLease(t) ==
  /\ At(t, "idle") /\ leases < MaxLeases
  /\ started' = started \cup {t[1]}
  /\ leases' = leases + 1
  /\ \E good \in BOOLEAN :
       /\ IF good THEN ProfileCalm ELSE ProfileUpset("bad_document")
       /\ lease' = [lease EXCEPT ![t] =
            [Idle EXCEPT !.good = good,
               !.pc = IF t[1] \in started THEN "pick" ELSE "purge",
               !.left = IF t[1] \in started THEN {}
                        ELSE {n \in Names : n[1] # t[1] /\ profile[n] # None}]]
  /\ UNCHANGED <<Disks, slotLock, dead>>

\* ... looks at their age in turn (those of its own process apart), ...
PurgeEntry(t) ==
  /\ At(t, "purge") /\ lease[t].victim = {}
  /\ \E n \in lease[t].left :
       lease' = [lease EXCEPT ![t].left = @ \ {n},
                              ![t].victim = IF n \in aged THEN {n} ELSE {}]
  /\ UNCHANGED <<Disks, slotLock, started, dead, leases, mishaps>>

\* A conversion that runs on a directory notices what goes missing in it.
Raided(t, n, dir) ==
  /\ profile' = [profile EXCEPT ![n] = dir]
  /\ aged' = aged \ {n}
  /\ raided' = IF n[1] \in dead THEN raided ELSE raided \cup {n}
  /\ lease' = [u \in Threads |->
       [lease[u] EXCEPT !.victim = IF u = t /\ dir = None THEN {} ELSE @,
                        !.hurt = @ \/ (lease[u].pc = "run" /\ Name(u) = n)]]
  /\ UNCHANGED <<crew, template, staging, slotLock, started, dead, leases, mishaps>>

\* ... and removes the old ones file by file (shutil.rmtree), then the directory.
PurgeFile(t) ==
  /\ At(t, "purge")
  /\ \E n \in lease[t].victim :
       \/ \E f \in profile[n] \cap Parts : Raided(t, n, profile[n] \ {f})
       \/ profile[n] = Empty /\ Raided(t, n, None)

\* What cannot be removed, or came after the listing, stays (ignore_errors).
PurgeLeaves(t) ==
  /\ At(t, "purge") /\ lease[t].victim # {}
  /\ lease' = [lease EXCEPT ![t].victim = {}]
  /\ UNCHANGED <<Disks, slotLock, started, dead, leases, mishaps>>

PurgeEnds(t) ==
  /\ At(t, "purge") /\ lease[t].victim = {} /\ lease[t].left = {}
  /\ Go(t, "pick")
  /\ UNCHANGED <<Disks, slotLock, started, dead, leases, mishaps>>

Purge(t) == PurgeEntry(t) \/ PurgeFile(t) \/ PurgeLeaves(t) \/ PurgeEnds(t)

\* An idle slot if there is one, else any (round-robin): the locks are read
\* without holding them, once the purge of this process released _pool_lock.
Pick(t) ==
  /\ At(t, "pick")
  /\ \A u \in Threads : u[1] = t[1] => ~At(u, "purge")
  /\ LET free == {s \in 1..Slots : slotLock[<<t[1], s>>] = {}}
     IN \E s \in IF free = {} THEN 1..Slots ELSE free :
          /\ free # {} => \A r \in free : s <= r
          /\ lease' = [lease EXCEPT ![t].pc = "wait", ![t].slot = s]
  /\ UNCHANGED <<Disks, slotLock, started, dead, leases, mishaps>>

\* Mutant: the slot that was idle when it was picked is taken.
AcquireMutant(t) ==
  /\ At(t, "wait")
  /\ slotLock' = [slotLock EXCEPT ![Name(t)] = {t}]
  /\ Go(t, "clone")
  /\ UNCHANGED <<Disks, started, dead, leases, mishaps>>

Acquire(t) ==
  /\ At(t, "wait") /\ slotLock[Name(t)] = {}
  /\ slotLock' = [slotLock EXCEPT ![Name(t)] = {t}]
  /\ Go(t, "clone")
  /\ UNCHANGED <<Disks, started, dead, leases, mishaps>>

\* A missing profile is cloned from the template, with its time; if the copy
\* fails, or there is no template, mkdir leaves an empty directory.
Clone(t) ==
  /\ At(t, "clone")
  /\ \/ /\ profile[Name(t)] # None
        /\ ProfileCalm /\ UNCHANGED <<profile, aged>>
     \/ /\ profile[Name(t)] = None /\ template # None
        /\ profile' = [profile EXCEPT ![Name(t)] = template]
        /\ aged' \in {aged \ {Name(t)}, aged \cup {Name(t)}}
        /\ ProfileCalm
     \/ /\ profile[Name(t)] = None
        /\ IF template = None THEN ProfileCalm ELSE ProfileUpset("copy_fails")
        /\ profile' = [profile EXCEPT ![Name(t)] = Empty]
        /\ Fresh(t)
  /\ Go(t, "run")
  /\ UNCHANGED <<crew, raided, template, staging, slotLock, started, dead, leases>>

-----------------------------------------------------------------------------
(* convert_with_soffice.                                                    *)

\* An attempt succeeds unless the document, the profile or soffice is at
\* fault. The first failure is retried on a pristine profile; a failure that
\* raises inside the lease removes the profile, one that only leaves no output
\* does not.
Damaged(t) == profile[Name(t)] \notin {Empty, Whole}
Blamed(t) == ~lease[t].good \/ lease[t].hurt \/ Damaged(t)
EndRun(t, pc, result, dir) ==
  /\ lease' = [lease EXCEPT ![t].pc = pc, ![t].result = result]
  /\ profile' = [profile EXCEPT ![Name(t)] = dir]

\* soffice completes an empty profile. What it makes of one with parts missing
\* is unknown, and so is whether it touches the directory itself.
LeftBy(t) == IF lease[t].hurt \/ Damaged(t)
             THEN {dir \in Dirs : profile[Name(t)] \subseteq dir}
             ELSE {Whole}

Converted(t) ==
  /\ At(t, "run") /\ lease[t].good
  /\ \E dir \in LeftBy(t) : EndRun(t, "seed", "ok", dir)
  /\ aged' \in {aged, aged \ {Name(t)}}
  /\ ProfileCalm
  /\ UNCHANGED <<crew, raided, template, staging, slotLock, started, dead, leases>>

Blame(t) == CASE ~lease[t].good -> "document"
              [] lease[t].hurt -> "purged"
              [] Damaged(t) -> "corrupt"
              [] OTHER -> "crash"

\* rmtree and mkdir of a profile are one step: its slot is locked.
Retry(t) == /\ lease' = [lease EXCEPT ![t].try = 2, ![t].hurt = FALSE]
            /\ profile' = [profile EXCEPT ![Name(t)] = Empty]
            /\ Fresh(t)

AfterFailure(t, silent) ==
  \/ lease[t].try = 1 /\ Retry(t)
  \/ /\ lease[t].try = 2 /\ silent
     /\ \E dir \in LeftBy(t) : EndRun(t, "seed", Blame(t), dir)
     /\ aged' \in {aged, aged \ {Name(t)}}
  \/ /\ lease[t].try = 2 /\ ~silent
     /\ EndRun(t, "release", Blame(t), None) /\ Fresh(t)

FailedRun(t) ==
  /\ At(t, "run")
  /\ IF Blamed(t) THEN ProfileCalm ELSE ProfileUpset("crash")
  /\ \E silent \in BOOLEAN : AfterFailure(t, silent)
  /\ UNCHANGED <<crew, raided, template, staging, slotLock, started, dead, leases>>

\* A timeout is not retried; nor is a missing binary, which ends the same way.
TimedOut(t) ==
  /\ At(t, "run") /\ ProfileUpset("timeout")
  /\ EndRun(t, "release", "timeout", None)
  /\ Fresh(t)
  /\ UNCHANGED <<crew, raided, template, staging, slotLock, started, dead, leases>>

-----------------------------------------------------------------------------
(* _seed_template: the staging directory belongs to the process, not to the *)
(* thread; rmtree and copytree go file by file.                             *)

SeedUnchanged == UNCHANGED <<crew, profile, aged, raided, slotLock, started, dead,
                             leases>>
Stage(t) == staging[t[1]]
Staged(t, dir) == staging' = [staging EXCEPT ![t[1]] = dir]
SeedKeeps == SeedUnchanged /\ UNCHANGED <<template, mishaps>>

TemplateExists(t) ==
  /\ At(t, "seed")
  /\ Go(t, IF template # None THEN "release" ELSE "clear")
  /\ UNCHANGED staging /\ SeedKeeps

\* rmtree(staging), before the copy and after a failed one.
RemoveStaging(t) ==
  /\ At(t, "clear") \/ At(t, "undo")
  /\ \/ /\ Stage(t) \notin {None, Empty}
        /\ \E f \in Stage(t) \cap Parts : Staged(t, Stage(t) \ {f})
        /\ UNCHANGED lease
     \/ /\ Stage(t) \in {None, Empty}
        /\ Staged(t, None)
        /\ Go(t, IF At(t, "clear") THEN "mkdir" ELSE "release")
  /\ SeedKeeps

\* copytree lists the profile, which must be there, creates the directory, which
\* must not, ...
MakeStaging(t) ==
  /\ At(t, "mkdir")
  /\ IF Stage(t) = None /\ profile[Name(t)] # None
     THEN /\ Staged(t, Empty)
          /\ lease' = [lease EXCEPT ![t].pc = "copy", ![t].left = Parts]
     ELSE UNCHANGED staging /\ Go(t, "undo")
  /\ SeedKeeps

\* ... copies the files, noting those it cannot. One that another process
\* purged before its directory was listed is missing without a note.
CopyFile(t) ==
  /\ At(t, "copy")
  /\ \E f \in lease[t].left, hurt \in BOOLEAN :
       /\ lease' = [lease EXCEPT ![t].left = @ \ {f}, ![t].hurt = @ \/ hurt]
       /\ IF f \in profile[Name(t)] /\ Stage(t) # None
          THEN /\ IF hurt THEN ProfileUpset("copy_fails") ELSE ProfileCalm
               /\ Staged(t, IF hurt THEN Stage(t) ELSE Stage(t) \cup {f})
          ELSE /\ Stage(t) = None => hurt
               /\ ProfileCalm /\ UNCHANGED staging
  /\ SeedUnchanged /\ UNCHANGED template

\* Mutant: the files that could not be copied do not matter.
EndCopyMutant(t) ==
  /\ At(t, "copy") /\ lease[t].left = {}
  /\ Go(t, "publish")
  /\ UNCHANGED staging /\ SeedKeeps

\* At the end it copies the times of the directory, if it is still there, and
\* raises if anything was noted.
EndCopy(t) ==
  /\ At(t, "copy") /\ lease[t].left = {}
  /\ Go(t, IF lease[t].hurt \/ profile[Name(t)] = None THEN "undo" ELSE "publish")
  /\ UNCHANGED staging /\ SeedKeeps

\* rename(staging, template) fails if another process was first.
PublishTemplate(t) ==
  /\ At(t, "publish")
  /\ IF Stage(t) # None /\ template \in {None, Empty}
     THEN /\ template' = Stage(t)
          /\ Staged(t, None) /\ Go(t, "release")
     ELSE Go(t, "undo") /\ UNCHANGED <<template, staging>>
  /\ SeedUnchanged /\ UNCHANGED mishaps

Release(t) ==
  /\ At(t, "release")
  /\ slotLock' = [slotLock EXCEPT ![Name(t)] = {}]
  /\ Go(t, "idle")
  /\ UNCHANGED <<Disks, started, dead, leases, mishaps>>

-----------------------------------------------------------------------------
(* The world.                                                               *)

\* A day passes without a change of a directory.
Age(n) ==
  /\ profile[n] # None /\ n \notin aged
  /\ n[1] \notin dead => ProfileUpset("aged")
  /\ n[1] \in dead => ProfileCalm
  /\ aged' = aged \cup {n}
  /\ UNCHANGED <<crew, profile, raided, template, staging, slotLock, started, dead,
                 lease, leases>>

\* A process dies; what it had on the disk stays, a running soffice with it.
Die(p) ==
  /\ p \notin dead /\ ProfileUpset("process_dies")
  /\ dead' = dead \cup {p}
  /\ UNCHANGED <<Disks, slotLock, started, lease, leases>>

LeaseStep(t) == \/ Purge(t) \/ Pick(t) \/ Acquire(t) \/ Clone(t)
           \/ Converted(t) \/ FailedRun(t) \/ TimedOut(t)
           \/ TemplateExists(t) \/ RemoveStaging(t) \/ MakeStaging(t)
           \/ CopyFile(t) \/ EndCopy(t) \/ PublishTemplate(t) \/ Release(t)

ProfilesNext == \/ \E t \in Threads : BeginLease(t) \/ LeaseStep(t)
        \/ \E n \in Names : Age(n)
        \/ \E p \in Processes : Die(p)

ProfilesFairness == \A t \in Threads : WF_profileVars(LeaseStep(t))

ProfilesSpec == ProfilesInit /\ [][ProfilesNext]_profileVars /\ ProfilesFairness

-----------------------------------------------------------------------------

\* Processes that seed the template at the same time never publish a
\* half-written one, whatever copy fails or process dies: the staged copy is
\* renamed only when it is whole. Two threads of one process share the staging
\* directory, and a purge by age that takes the profile of a living process may
\* take it while it is copied: with either it is not so (see NeverHalfWritten).
TemplateIsWhole ==
  (\A t, u \in crew : t[1] = u[1] => t = u) /\ raided = {}
    => template \in {None, Whole}

\* "Staged copy + rename so concurrent seeders can't publish a half-written
\* template" (utils/office.py:128): not so for two threads of one process, or
\* for a profile that another process is purging.
NeverHalfWritten == template \in {None, Whole}

\* Two running soffice processes never share a profile, though a slot is
\* picked without its lock and processes share the cache directory.
ProfilesAreExclusive ==
  \A t, u \in Threads :
    t # u /\ At(t, "run") /\ At(u, "run") => Name(t) # Name(u)

=============================================================================
