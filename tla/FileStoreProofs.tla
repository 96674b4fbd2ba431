-------------------------- MODULE FileStoreProofs --------------------------
(***************************************************************************)
(* Theorems about FileStore, for any number of requests, files in a batch,  *)
(* retention, time and upsets of every kind.                                *)
(***************************************************************************)
EXTENDS FileStore, TLAPS

\* Before the commit: what is stored so far has its bytes, and no row.
Underway == {"open", "writing", "written", "imported", "failing"}

\* What is known of a request, its files and its job.
BatchOK(r) ==
  /\ req[r].kept <= req[r].size
  /\ req[r].pc # "idle" => req[r].size >= 1
  /\ req[r].pc \in {"writing", "written", "imported"} => req[r].kept < req[r].size
  /\ req[r].pc \in Underway => \A p \in 1..req[r].kept : disk[<<r, p>>] = "whole"
  /\ req[r].pc \in {"written", "imported"} => disk[<<r, req[r].kept + 1>>] = "whole"

RowsOK(r) ==
  \A p \in 1..MaxBatch : rec[<<r, p>>] # "none" =>
    /\ disk[<<r, p>>] # "partial"
    /\ \/ req[r].pc = "done" /\ p <= req[r].kept
       \/ req[r].pc = "failed" /\ "commit_unknown" \in Upsets

DoneOK(r) ==
  req[r].pc = "done" =>
    \A p \in 1..req[r].kept :
      /\ rec[<<r, p>>] # "none"
      /\ <<r, p>> \notin asked /\ now <= due[r]
           => rec[<<r, p>>] = "active" /\ disk[<<r, p>>] = "whole"

\* The job's own expiry is the earlier one.
JobOK(r) ==
  r \in Runs =>
    /\ job[r].expires <= now + Retention
    /\ req[r].pc # "idle" => job[r].expires <= due[r] /\ job[r].status # "none"
    /\ job[r].status = "completed" => req[r].pc = "done" /\ req[r].kept = req[r].size

RequestOK(r) == BatchOK(r) /\ RowsOK(r) /\ DoneOK(r) /\ JobOK(r)

\* What the cleanup and a purge have selected is due, what a user deletes was
\* asked for, and what a download has checked has a row.
Stored(f) == rec[f] # "none"
Hands ==
  /\ cleaner.left \subseteq cleaner.files
  /\ \A f \in cleaner.files \cup purge : Stored(f) /\ Overdue(f)
  /\ \A f \in deleter.files : Stored(f) /\ f \in asked
  /\ \A f \in reader.files : Stored(f)
  /\ reader.pc # "idle" => reader.files # {}
  /\ ServedIsWhole

Inductive == TypeOK /\ (\A r \in Requests : RequestOK(r)) /\ Hands

-----------------------------------------------------------------------------
(* Files, and updates of functions on them.                                 *)

LEMMA Pairs ==
  /\ \A r \in Requests, p \in 1..MaxBatch : <<r, p>> \in File
  /\ \A f \in File : f[1] \in Requests /\ f[2] \in 1..MaxBatch /\ f = <<f[1], f[2]>>
  BY DEF File

LEMMA Marks ==
  ASSUME NEW V, NEW g \in [File -> V], NEW S \in SUBSET File, NEW v \in V
  PROVE  /\ Set(g, S, v) \in [File -> V]
         /\ \A f \in S : Set(g, S, v)[f] = v
         /\ \A f \in File \ S : Set(g, S, v)[f] = g[f]
  BY DEF Set

LEMMA Typed ==
  ASSUME TypeOK
  PROVE  /\ \A r \in Requests : /\ req[r] \in ReqStates /\ req[r].kept \in 0..MaxBatch
                                /\ req[r].size \in 0..MaxBatch
                                /\ req[r].kept \in Nat /\ req[r].size \in Nat
                                /\ due[r] \in Nat
         /\ \A r \in Runs : r \in Requests /\ job[r].expires \in Nat
         /\ \A r \in Uploads : r \in Requests
         /\ now \in Nat /\ now <= MaxTime /\ MaxBatch \in Nat /\ Retention \in Nat
         /\ upsets \in 0..MaxUpsets
  BY ConstantsAssumption DEF TypeOK, ReqStates, Requests

LEMMA UpsetTyped ==
  ASSUME TypeOK, NEW kind
  PROVE  Upset(kind) \/ Calm => upsets' \in 0..MaxUpsets
  BY ConstantsAssumption DEF TypeOK, Upset, Calm

LEMMA OwnFiles ==
  ASSUME TypeOK, NEW r \in Requests
  PROVE  /\ Kept(r) \subseteq File /\ Batch(r) \subseteq File
         /\ \A s \in Requests, p \in 1..MaxBatch :
              /\ <<s, p>> \in Kept(r) <=> s = r /\ p <= req[r].kept
              /\ <<s, p>> \in Batch(r) <=> s = r /\ p <= req[r].size
         /\ req[r].kept < req[r].size => req[r].kept + 1 \in 1..MaxBatch /\ Current(r) \in File
  BY Typed DEF Kept, Batch, Current, File

-----------------------------------------------------------------------------
(* A step of one request.                                                   *)

Own(r, q) ==
  /\ req' = [req EXCEPT ![r] = q]
  /\ \A s \in Requests \ {r}, p \in 1..MaxBatch :
       rec'[<<s, p>>] = rec[<<s, p>>] /\ disk'[<<s, p>>] = disk[<<s, p>>]
  /\ \A s \in Requests \ {r} : due'[s] = due[s]
  /\ \A s \in Runs \ {r} : job'[s] = job[s]
  /\ UNCHANGED <<thumbs, others, asked, now>>

LEMMA OthersRest ==
  ASSUME TypeOK, NEW r \in Requests, NEW q, Own(r, q), NEW s \in Requests, s # r, RequestOK(s)
  PROVE  RequestOK(s)'
  <1>1. /\ req'[s] = req[s] /\ due'[s] = due[s] /\ now' = now /\ asked' = asked
        /\ s \in Runs => job'[s] = job[s]
        /\ \A p \in 1..MaxBatch : /\ rec'[<<s, p>>] = rec[<<s, p>>]
                                  /\ disk'[<<s, p>>] = disk[<<s, p>>]
    BY DEF Own, TypeOK
  <1>2. /\ \A p \in 1..req[s].kept : p \in 1..MaxBatch
        /\ req[s].kept < req[s].size => req[s].kept + 1 \in 1..MaxBatch
    BY Typed
  <1>3. BatchOK(s)'
    BY <1>1, <1>2 DEF RequestOK, BatchOK
  <1>4. RowsOK(s)'
    BY <1>1 DEF RequestOK, RowsOK
  <1>5. DoneOK(s)'
    BY <1>1, <1>2 DEF RequestOK, DoneOK
  <1>6. JobOK(s)'
    BY <1>1 DEF RequestOK, JobOK
  <1> QED  BY <1>3, <1>4, <1>5, <1>6 DEF RequestOK

LEMMA RequestMoves ==
  ASSUME Inductive, NEW r \in Requests, NEW q \in ReqStates, Own(r, q),
         rec' \in [File -> FileStatuses],
         disk' \in [File -> {"absent", "partial", "whole"}],
         due' \in [Requests -> Nat],
         job' \in [Runs -> [status: {"none", "processing", "completed", "failed",
                                     "expired"}, expires: Nat]],
         upsets' \in 0..MaxUpsets, RequestOK(r)',
         \A p \in 1..MaxBatch : rec[<<r, p>>] # "none"
           => rec'[<<r, p>>] # "none" /\ due'[r] = due[r]
  PROVE  Inductive'
  <1>1. TypeOK'
    <2>1. req' \in [Requests -> ReqStates]
      BY DEF Own, Inductive, TypeOK
    <2> QED  BY <2>1 DEF Own, others, Inductive, TypeOK
  <1>2. \A s \in Requests : RequestOK(s)'
    BY OthersRest DEF Inductive
  <1>3. \A f \in File : Stored(f) => Stored(f)' /\ (Overdue(f) => Overdue(f)')
    <2>1. ASSUME NEW s \in Requests, NEW p \in 1..MaxBatch, rec[<<s, p>>] # "none"
          PROVE  rec'[<<s, p>>] # "none" /\ due'[s] = due[s] /\ now' = now
      BY <2>1 DEF Own
    <2> QED  BY <2>1, Pairs DEF Stored, Overdue
  <1>4. Hands'
    BY <1>3 DEF Own, others, Inductive, TypeOK, Hands, ServedIsWhole
  <1> QED  BY <1>1, <1>2, <1>4 DEF Inductive

LEMMA RowsMarked ==
  ASSUME TypeOK, NEW r \in Requests
  PROVE  /\ Set(rec, Kept(r), "active") \in [File -> FileStatuses]
         /\ \A s \in Requests \ {r}, p \in 1..MaxBatch :
              Set(rec, Kept(r), "active")[<<s, p>>] = rec[<<s, p>>]
         /\ \A p \in 1..MaxBatch : Set(rec, Kept(r), "active")[<<r, p>>]
              = IF <<r, p>> \in Kept(r) THEN "active" ELSE rec[<<r, p>>]
  <1> DEFINE S == Kept(r)
             V == FileStatuses
  <1>1. \A x \in S : x[1] = r
    BY DEF Kept
  <1>2. rec \in [File -> V] /\ "active" \in V
    BY DEF TypeOK, FileStatuses
  <1>3. S \in SUBSET File
    BY OwnFiles
  <1> HIDE DEF S, V
  <1>4. /\ Set(rec, S, "active") \in [File -> V]
        /\ \A f \in S : Set(rec, S, "active")[f] = "active"
        /\ \A f \in File \ S : Set(rec, S, "active")[f] = rec[f]
    BY <1>2, <1>3 DEF Set
  <1>5. ASSUME NEW s \in Requests, NEW p \in 1..MaxBatch
        PROVE  Set(rec, S, "active")[<<s, p>>]
                 = IF <<s, p>> \in S THEN "active" ELSE rec[<<s, p>>]
    <2> DEFINE f == <<s, p>>
    <2>1. f \in File
      BY Pairs
    <2> HIDE DEF f
    <2>2. Set(rec, S, "active")[f] = IF f \in S THEN "active" ELSE rec[f]
      BY <1>4, <2>1
    <2> QED  BY <2>2 DEF f
  <1>6. \A s \in Requests \ {r}, p \in 1..MaxBatch : <<s, p>> \notin S
    BY <1>1
  <1> QED  BY <1>4, <1>5, <1>6 DEF S, V

LEMMA BytesMarked ==
  ASSUME TypeOK, NEW r \in Requests
  PROVE  /\ Set(disk, Kept(r), "absent") \in [File -> {"absent", "partial", "whole"}]
         /\ \A s \in Requests \ {r}, p \in 1..MaxBatch :
              Set(disk, Kept(r), "absent")[<<s, p>>] = disk[<<s, p>>]
         /\ \A p \in 1..MaxBatch : Set(disk, Kept(r), "absent")[<<r, p>>]
              = IF <<r, p>> \in Kept(r) THEN "absent" ELSE disk[<<r, p>>]
  <1> DEFINE S == Kept(r)
             V == {"absent", "partial", "whole"}
  <1>1. \A x \in S : x[1] = r
    BY DEF Kept
  <1>2. disk \in [File -> V] /\ "absent" \in V
    BY DEF TypeOK
  <1>3. S \in SUBSET File
    BY OwnFiles
  <1> HIDE DEF S, V
  <1>4. /\ Set(disk, S, "absent") \in [File -> V]
        /\ \A f \in S : Set(disk, S, "absent")[f] = "absent"
        /\ \A f \in File \ S : Set(disk, S, "absent")[f] = disk[f]
    BY <1>2, <1>3 DEF Set
  <1>5. ASSUME NEW s \in Requests, NEW p \in 1..MaxBatch
        PROVE  Set(disk, S, "absent")[<<s, p>>]
                 = IF <<s, p>> \in S THEN "absent" ELSE disk[<<s, p>>]
    <2> DEFINE f == <<s, p>>
    <2>1. f \in File
      BY Pairs
    <2> HIDE DEF f
    <2>2. Set(disk, S, "absent")[f] = IF f \in S THEN "absent" ELSE disk[f]
      BY <1>4, <2>1
    <2> QED  BY <2>2 DEF f
  <1>6. \A s \in Requests \ {r}, p \in 1..MaxBatch : <<s, p>> \notin S
    BY <1>1
  <1> QED  BY <1>4, <1>5, <1>6 DEF S, V

LEMMA CurrentMark ==
  ASSUME TypeOK, NEW r \in Requests, req[r].kept < req[r].size,
         NEW v \in {"absent", "partial", "whole"}, disk' = [disk EXCEPT ![Current(r)] = v]
  PROVE  /\ disk' \in [File -> {"absent", "partial", "whole"}]
         /\ \A s \in Requests \ {r}, p \in 1..MaxBatch : disk'[<<s, p>>] = disk[<<s, p>>]
         /\ \A p \in 1..MaxBatch :
              disk'[<<r, p>>] = IF p = req[r].kept + 1 THEN v ELSE disk[<<r, p>>]
  <1>1. Current(r) \in File /\ Current(r) = <<r, req[r].kept + 1>>
    BY OwnFiles DEF Current
  <1>2. disk \in [File -> {"absent", "partial", "whole"}]
    BY DEF TypeOK
  <1>3. disk' \in [File -> {"absent", "partial", "whole"}]
    BY <1>2
  <1>4. ASSUME NEW s \in Requests, NEW p \in 1..MaxBatch
        PROVE  disk'[<<s, p>>] = IF <<s, p>> = Current(r) THEN v ELSE disk[<<s, p>>]
    BY <1>2, Pairs
  <1>5. /\ \A s \in Requests \ {r}, p \in 1..MaxBatch : <<s, p>> # Current(r)
        /\ \A p \in 1..MaxBatch : p = req[r].kept + 1 <=> <<r, p>> = Current(r)
    BY <1>1
  <1> QED  BY <1>3, <1>4, <1>5

\* The types of what a step leaves alone.
LEMMA KeepsTypes ==
  ASSUME TypeOK
  PROVE  /\ rec \in [File -> FileStatuses]
         /\ disk \in [File -> {"absent", "partial", "whole"}]
         /\ due \in [Requests -> Nat]
         /\ job \in [Runs -> [status: {"none", "processing", "completed", "failed",
                                       "expired"}, expires: Nat]]
         /\ upsets \in 0..MaxUpsets
  BY DEF TypeOK

LEMMA Begins ==
  ASSUME Inductive, NEW r \in Requests, NEW n \in 1..MaxBatch,
         (r \in Uploads /\ BeginUpload(r, n)) \/ BeginRun(r, n)
  PROVE  Inductive'
  <1> DEFINE q == [pc |-> "open", size |-> n, kept |-> 0]
  <1>1. /\ req' = [req EXCEPT ![r] = q] /\ due' = [due EXCEPT ![r] = now + Retention]
        /\ req[r].pc = "idle" /\ upsets' = upsets
        /\ UNCHANGED <<rec, disk, thumbs, job, others, asked, now>>
        /\ r \in Runs => job[r].status = "processing"
    BY Typed, ConstantsAssumption DEF Inductive, BeginUpload, BeginRun, At, Calm, store, OutputDue
  <1>2. TypeOK /\ RequestOK(r)
    BY DEF Inductive
  <1>3. q \in ReqStates
    BY Typed, <1>2 DEF ReqStates
  <1>4. /\ req'[r] = q /\ due'[r] = now + Retention
        /\ due' \in [Requests -> Nat]
        /\ \A s \in Requests \ {r} : due'[s] = due[s]
    BY <1>1, <1>2, <1>3, Typed DEF TypeOK
  <1>5. Own(r, q)
    BY <1>1, <1>4 DEF Own
  <1>6. \A p \in 1..MaxBatch : rec[<<r, p>>] = "none"
    BY <1>1, <1>2 DEF RequestOK, RowsOK
  <1>7. BatchOK(r)' /\ RowsOK(r)' /\ DoneOK(r)'
    BY <1>1, <1>4, <1>6, Typed DEF BatchOK, RowsOK, DoneOK
  <1>8. JobOK(r)'
    BY <1>1, <1>2, <1>4 DEF RequestOK, JobOK
  <1> QED  BY <1>1, <1>2, <1>3, <1>4, <1>5, <1>6, <1>7, <1>8, KeepsTypes, RequestMoves
           DEF RequestOK

\* A step that changes where r stands, and perhaps the bytes of the file r is at.
LEMMA Advances ==
  ASSUME Inductive, NEW r \in Requests, NEW q \in ReqStates,
         req' = [req EXCEPT ![r] = q],
         req[r].pc \in Underway, q.pc \in Underway, q.size = req[r].size,
         q.kept <= q.size,
         q.pc \in {"writing", "written", "imported"} => q.kept < q.size,
         disk' \in [File -> {"absent", "partial", "whole"}],
         \A s \in Requests \ {r}, p \in 1..MaxBatch : disk'[<<s, p>>] = disk[<<s, p>>],
         \A p \in 1..q.kept : disk'[<<r, p>>] = "whole",
         q.pc \in {"written", "imported"} => disk'[<<r, q.kept + 1>>] = "whole",
         UNCHANGED <<rec, thumbs, due, job, others, asked, now>>,
         upsets' \in 0..MaxUpsets
  PROVE  Inductive'
  <1>1. TypeOK /\ RequestOK(r)
    BY DEF Inductive
  <1>2. req'[r] = q
    BY <1>1 DEF TypeOK
  <1>3. \A p \in 1..MaxBatch : rec[<<r, p>>] = "none"
    BY <1>1 DEF RequestOK, RowsOK, Underway
  <1>4. BatchOK(r)' /\ RowsOK(r)' /\ DoneOK(r)'
    BY <1>1, <1>2, <1>3 DEF RequestOK, BatchOK, RowsOK, DoneOK, Underway
  <1>5. JobOK(r)'
    BY <1>1, <1>2 DEF RequestOK, JobOK, Underway
  <1>6. Own(r, q)
    BY DEF Own
  <1> QED  BY <1>1, <1>3, <1>4, <1>5, <1>6, KeepsTypes, RequestMoves DEF RequestOK

\* A request that ends without a row, whatever happens to its bytes.
LEMMA GivesUp ==
  ASSUME Inductive, NEW r \in Requests, NEW q \in ReqStates,
         req' = [req EXCEPT ![r] = q],
         req[r].pc \in Underway, q.pc \in {"failed", "dead"},
         q.size = req[r].size, q.kept = req[r].kept,
         disk' \in [File -> {"absent", "partial", "whole"}],
         \A s \in Requests \ {r}, p \in 1..MaxBatch : disk'[<<s, p>>] = disk[<<s, p>>],
         UNCHANGED <<rec, thumbs, due, job, others, asked, now>>,
         upsets' \in 0..MaxUpsets
  PROVE  Inductive'
  <1>1. TypeOK /\ RequestOK(r)
    BY DEF Inductive
  <1>2. req'[r] = q
    BY <1>1 DEF TypeOK
  <1>3. \A p \in 1..MaxBatch : rec[<<r, p>>] = "none"
    BY <1>1 DEF RequestOK, RowsOK, Underway
  <1>4. BatchOK(r)' /\ RowsOK(r)' /\ DoneOK(r)'
    BY <1>1, <1>2, <1>3 DEF RequestOK, BatchOK, RowsOK, DoneOK, Underway
  <1>5. JobOK(r)'
    BY <1>1, <1>2 DEF RequestOK, JobOK, Underway
  <1>6. Own(r, q)
    BY DEF Own
  <1> QED  BY <1>1, <1>3, <1>4, <1>5, <1>6, KeepsTypes, RequestMoves DEF RequestOK

LEMMA UnlinkedTyped ==
  ASSUME TypeOK, NEW S \in SUBSET File, Unlinked(S)
  PROVE  /\ disk' \in [File -> {"absent", "partial", "whole"}]
         /\ \A f \in File \ S : disk'[f] = disk[f]
         /\ \A f \in S : disk'[f] \in {"absent", disk[f]}
         /\ upsets' \in 0..MaxUpsets
  <1>1. upsets' \in 0..MaxUpsets
    BY UpsetTyped DEF Unlinked
  <1>2. PICK R \in SUBSET S : disk' = Set(disk, R, "absent")
    BY DEF Unlinked
  <1> DEFINE V == {"absent", "partial", "whole"}
  <1>3. R \in SUBSET File /\ disk \in [File -> V] /\ "absent" \in V
    BY DEF TypeOK
  <1> HIDE DEF V
  <1>4. /\ Set(disk, R, "absent") \in [File -> V]
        /\ \A f \in R : Set(disk, R, "absent")[f] = "absent"
        /\ \A f \in File \ R : Set(disk, R, "absent")[f] = disk[f]
    BY <1>3, Marks
  <1> QED  BY <1>1, <1>2, <1>4 DEF V

LEMMA OtherFiles ==
  ASSUME TypeOK, NEW r \in Requests, NEW S \in SUBSET File,
         S \subseteq Kept(r) \cup Batch(r) \/ S \subseteq Kept(r) \cup {Current(r)},
         \A f \in File \ S : disk'[f] = disk[f]
  PROVE  \A s \in Requests \ {r}, p \in 1..MaxBatch : disk'[<<s, p>>] = disk[<<s, p>>]
  <1>1. ASSUME NEW s \in Requests \ {r}, NEW p \in 1..MaxBatch
        PROVE  disk'[<<s, p>>] = disk[<<s, p>>]
    <2> DEFINE f == <<s, p>>
    <2>1. \A x \in S : x[1] = r
      BY DEF Kept, Batch, Current
    <2>2. f \in File
      BY Pairs
    <2>3. f \notin S
      BY <2>1, f[1] = s, s # r
    <2> HIDE DEF f
    <2>4. disk'[f] = disk[f]
      BY <2>2, <2>3
    <2> QED  BY <2>4 DEF f
  <1> QED  BY <1>1

\* Advances, where the bytes of the file at hand become v, or stay.
LEMMA Writes ==
  ASSUME Inductive, NEW r \in Requests, NEW v \in {"absent", "partial", "whole"},
         NEW pc \in Underway,
         req' = [req EXCEPT ![r].pc = pc],
         req[r].pc \in Underway, req[r].kept < req[r].size,
         pc \in {"written", "imported"} => v = "whole",
         disk' = [disk EXCEPT ![Current(r)] = v],
         UNCHANGED <<rec, thumbs, due, job, others, asked, now, upsets>>
  PROVE  Inductive'
  <1> DEFINE q == [req[r] EXCEPT !.pc = pc]
  <1>1. TypeOK /\ RequestOK(r)
    BY DEF Inductive
  <1>2. q \in ReqStates /\ q.pc = pc /\ q.size = req[r].size /\ q.kept = req[r].kept
    BY <1>1, Typed DEF ReqStates, Underway
  <1>3. /\ disk' \in [File -> {"absent", "partial", "whole"}]
        /\ \A s \in Requests \ {r}, p \in 1..MaxBatch : disk'[<<s, p>>] = disk[<<s, p>>]
        /\ \A p \in 1..MaxBatch :
             disk'[<<r, p>>] = IF p = req[r].kept + 1 THEN v ELSE disk[<<r, p>>]
    BY <1>1, CurrentMark
  <1>4. \A p \in 1..q.kept : p \in 1..MaxBatch /\ p # req[r].kept + 1
    BY <1>1, <1>2, Typed
  <1>5. \A p \in 1..q.kept : disk'[<<r, p>>] = "whole"
    BY <1>1, <1>2, <1>3, <1>4 DEF RequestOK, BatchOK
  <1>6. q.kept + 1 \in 1..MaxBatch /\ q.kept <= q.size
    BY <1>1, <1>2, Typed
  <1>7. q.pc \in {"written", "imported"} => disk'[<<r, q.kept + 1>>] = "whole"
    BY <1>2, <1>3, <1>6
  <1>8. req' = [req EXCEPT ![r] = q]
    BY <1>1 DEF TypeOK
  <1>9. upsets' \in 0..MaxUpsets
    BY <1>1, KeepsTypes
  <1> HIDE DEF q
  <1> QED  BY <1>2, <1>3, <1>5, <1>6, <1>7, <1>8, <1>9, Advances

\* Advances, where the bytes stay.
LEMMA Moves ==
  ASSUME Inductive, NEW r \in Requests, NEW pc \in Underway, NEW k \in 0..req[r].size,
         req' = [req EXCEPT ![r] = [@ EXCEPT !.pc = pc, !.kept = k]],
         req[r].pc \in Underway,
         pc \in {"open", "failing"},
         \/ k <= req[r].kept
         \/ k = req[r].kept + 1 /\ req[r].pc \in {"written", "imported"},
         UNCHANGED <<rec, disk, thumbs, due, job, others, asked, now>>,
         upsets' \in 0..MaxUpsets
  PROVE  Inductive'
  <1> DEFINE q == [req[r] EXCEPT !.pc = pc, !.kept = k]
  <1>1. TypeOK /\ RequestOK(r)
    BY DEF Inductive
  <1>10. k \in 0..MaxBatch /\ req[r] \in ReqStates
    <2>1. req[r].size \in 0..MaxBatch /\ MaxBatch \in Nat /\ req[r] \in ReqStates
      BY <1>1, Typed
    <2> QED  BY <2>1
  <1>2. q \in ReqStates /\ q.pc = pc /\ q.size = req[r].size /\ q.kept = k
    BY <1>10 DEF ReqStates, Underway
  <1>3. ASSUME NEW p \in 1..k
        PROVE  \/ p \in 1..req[r].kept
               \/ (p = req[r].kept + 1 /\ req[r].pc \in {"written", "imported"})
    <2>1. req[r].kept \in Nat /\ req[r].size \in Nat
      BY <1>1, Typed
    <2> QED  BY <2>1
  <1>4. \A p \in 1..q.kept : disk'[<<r, p>>] = "whole"
    BY <1>1, <1>2, <1>3 DEF RequestOK, BatchOK
  <1>5. /\ disk' \in [File -> {"absent", "partial", "whole"}]
        /\ \A s \in Requests \ {r}, p \in 1..MaxBatch : disk'[<<s, p>>] = disk[<<s, p>>]
    BY <1>1, KeepsTypes
  <1>6. req' = [req EXCEPT ![r] = q]
    BY <1>1 DEF TypeOK
  <1>7. q.kept <= q.size /\ q.pc \notin {"writing", "written", "imported"}
    BY <1>1, <1>2, Typed
  <1> HIDE DEF q
  <1> QED  BY <1>2, <1>4, <1>5, <1>6, <1>7, Advances

\* Commits: r is done, has the rows of the first n files it stored, and its
\* job the given status.
LEMMA Commits ==
  ASSUME Inductive, NEW r \in Requests, NEW status \in {"completed", "failed"},
         req[r].pc \in Underway,
         req' = [req EXCEPT ![r].pc = "done"],
         rec' = Set(rec, Kept(r), "active"),
         r \in Runs => job' = [job EXCEPT ![r].status = status],
         r \notin Runs => job' = job,
         r \in Runs /\ status = "completed" => req[r].kept = req[r].size,
         UNCHANGED <<disk, thumbs, due, others, asked, now, upsets>>
  PROVE  Inductive'
  <1> DEFINE q == [req[r] EXCEPT !.pc = "done"]
  <1>1. TypeOK /\ RequestOK(r)
    BY DEF Inductive
  <1>2. q \in ReqStates /\ q.pc = "done" /\ q.size = req[r].size /\ q.kept = req[r].kept
    BY <1>1, Typed DEF ReqStates
  <1>3. req' = [req EXCEPT ![r] = q] /\ req'[r] = q
    BY <1>1 DEF TypeOK
  <1>4. Kept(r) \in SUBSET File /\ rec \in [File -> FileStatuses] /\ "active" \in FileStatuses
    BY <1>1, OwnFiles, KeepsTypes DEF FileStatuses
  <1>5. /\ rec' \in [File -> FileStatuses]
        /\ \A s \in Requests \ {r}, p \in 1..MaxBatch : rec'[<<s, p>>] = rec[<<s, p>>]
        /\ \A p \in 1..MaxBatch : rec'[<<r, p>>] = IF p <= req[r].kept THEN "active"
                                                                  ELSE rec[<<r, p>>]
    <2>1. /\ Set(rec, Kept(r), "active") \in [File -> FileStatuses]
          /\ \A s \in Requests \ {r}, p \in 1..MaxBatch :
               Set(rec, Kept(r), "active")[<<s, p>>] = rec[<<s, p>>]
          /\ \A p \in 1..MaxBatch : Set(rec, Kept(r), "active")[<<r, p>>]
               = IF <<r, p>> \in Kept(r) THEN "active" ELSE rec[<<r, p>>]
      BY <1>1, RowsMarked
    <2>2. \A p \in 1..MaxBatch : <<r, p>> \in Kept(r) <=> p <= req[r].kept
      BY <1>1, OwnFiles
    <2> QED  BY <2>1, <2>2
  <1>6. \A p \in 1..MaxBatch : rec[<<r, p>>] = "none"
    BY <1>1 DEF RequestOK, RowsOK, Underway
  <1>7. /\ job' \in [Runs -> [status: {"none", "processing", "completed", "failed",
                                        "expired"}, expires: Nat]]
        /\ \A s \in Runs \ {r} : job'[s] = job[s]
        /\ r \in Runs => job'[r].status = status /\ job'[r].expires = job[r].expires
    <2>1. CASE r \in Runs
      <3>1. job[r] \in [status: {"none", "processing", "completed", "failed",
                                 "expired"}, expires: Nat]
        BY <2>1, <1>1, KeepsTypes
      <3>2. [job[r] EXCEPT !.status = status]
              \in [status: {"none", "processing", "completed", "failed", "expired"},
                   expires: Nat]
        BY <3>1
      <3>3. job \in [Runs -> [status: {"none", "processing", "completed", "failed",
                                        "expired"}, expires: Nat]]
        BY <1>1, KeepsTypes
      <3>4. job' = [job EXCEPT ![r] = [job[r] EXCEPT !.status = status]]
        BY <2>1, <3>3
      <3>5. job' \in [Runs -> [status: {"none", "processing", "completed", "failed",
                                        "expired"}, expires: Nat]]
        BY <3>2, <3>3, <3>4
      <3>6. job'[r] = [job[r] EXCEPT !.status = status] /\ \A s \in Runs \ {r} : job'[s] = job[s]
        BY <2>1, <3>3, <3>4
      <3> QED  BY <3>1, <3>5, <3>6
    <2>2. CASE r \notin Runs
      BY <2>2, <1>1, KeepsTypes
    <2> QED  BY <2>1, <2>2
  <1>8. \A p \in 1..req[r].kept : p \in 1..MaxBatch /\ disk[<<r, p>>] = "whole"
    BY <1>1, Typed DEF RequestOK, BatchOK
  <1>9. BatchOK(r)'
    BY <1>1, <1>2, <1>3 DEF RequestOK, BatchOK, Underway
  <1>10. RowsOK(r)'
    <2>1. ASSUME NEW p \in 1..MaxBatch, rec'[<<r, p>>] # "none"
          PROVE  p <= req[r].kept /\ p \in 1..req[r].kept
      BY <2>1, <1>1, <1>5, <1>6, Typed
    <2> QED  BY <2>1, <1>2, <1>3, <1>8 DEF RowsOK
  <1>11. DoneOK(r)'
    BY <1>1, <1>2, <1>3, <1>5, <1>8, Typed DEF DoneOK
  <1>12. JobOK(r)'
    BY <1>1, <1>2, <1>3, <1>7 DEF RequestOK, JobOK, Underway
  <1>13. Own(r, q)
    BY <1>3, <1>5, <1>7 DEF Own
  <1>14. RequestOK(r)'
    BY <1>9, <1>10, <1>11, <1>12 DEF RequestOK
  <1> HIDE DEF q
  <1> QED  BY <1>1, <1>2, <1>5, <1>6, <1>7, <1>13, <1>14, KeepsTypes, RequestMoves

\* The commit of an upload fails: its bytes go, and its rows may have stayed.
LEMMA CommitFails ==
  ASSUME Inductive, NEW u \in Uploads, CommitUploadFails(u)
  PROVE  Inductive'
  <1> DEFINE q == [req[u] EXCEPT !.pc = "failed"]
  <1>1. TypeOK /\ u \in Requests /\ RequestOK(u) /\ u \notin Runs
    BY ConstantsAssumption DEF Inductive, Requests
  <1>2. /\ req[u].pc = "open" /\ req[u].kept = req[u].size
        /\ UNCHANGED <<thumbs, due, job, others, asked, now>>
        /\ disk' = Set(disk, Kept(u), "absent")
        /\ \/ rec' = rec
           \/ rec' = Set(rec, Kept(u), "active") /\ "commit_unknown" \in Upsets
    BY DEF CommitUploadFails, At, Batch, Kept, Upset
  <1>3. q \in ReqStates /\ q.pc = "failed" /\ q.size = req[u].size /\ q.kept = req[u].kept
    BY <1>1, Typed DEF ReqStates
  <1>4. req' = [req EXCEPT ![u] = q] /\ req'[u] = q
    BY <1>1 DEF TypeOK, CommitUploadFails
  <1>5. \A p \in 1..MaxBatch : rec[<<u, p>>] = "none"
    BY <1>1, <1>2 DEF RequestOK, RowsOK
  <1>6. \A p \in 1..MaxBatch : <<u, p>> \in Kept(u) <=> p <= req[u].kept
    BY <1>1, OwnFiles
  <1>7. /\ rec' \in [File -> FileStatuses]
        /\ \A s \in Requests \ {u}, p \in 1..MaxBatch : rec'[<<s, p>>] = rec[<<s, p>>]
        /\ \A p \in 1..MaxBatch : rec'[<<u, p>>] # "none"
             => <<u, p>> \in Kept(u) /\ "commit_unknown" \in Upsets
    <2>1. CASE rec' = rec
      BY <2>1, <1>1, <1>5, KeepsTypes
    <2>2. CASE rec' = Set(rec, Kept(u), "active") /\ "commit_unknown" \in Upsets
      BY <2>2, <1>1, <1>5, RowsMarked
    <2> QED  BY <1>2, <2>1, <2>2
  <1>8. /\ disk' \in [File -> {"absent", "partial", "whole"}]
        /\ \A s \in Requests \ {u}, p \in 1..MaxBatch : disk'[<<s, p>>] = disk[<<s, p>>]
        /\ \A p \in 1..MaxBatch : <<u, p>> \in Kept(u) => disk'[<<u, p>>] = "absent"
    BY <1>1, <1>2, BytesMarked
  <1>9. BatchOK(u)' /\ RowsOK(u)' /\ DoneOK(u)' /\ JobOK(u)'
    <2>1. BatchOK(u)'
      BY <1>1, <1>2, <1>3, <1>4 DEF RequestOK, BatchOK, Underway
    <2>2. RowsOK(u)'
      BY <1>3, <1>4, <1>7, <1>8 DEF RowsOK
    <2>3. DoneOK(u)' /\ JobOK(u)'
      BY <1>1, <1>3, <1>4 DEF DoneOK, JobOK
    <2> QED  BY <2>1, <2>2, <2>3
  <1>10. Own(u, q)
    BY <1>2, <1>4, <1>7, <1>8 DEF Own
  <1>11. upsets' \in 0..MaxUpsets
    BY <1>1, UpsetTyped DEF CommitUploadFails
  <1>12. /\ due' \in [Requests -> Nat] /\ due'[u] = due[u]
         /\ job' \in [Runs -> [status: {"none", "processing", "completed", "failed",
                                         "expired"}, expires: Nat]]
    BY <1>1, <1>2, KeepsTypes
  <1>13. RequestOK(u)'
    BY <1>9 DEF RequestOK
  <1> HIDE DEF q
  <1> QED  BY <1>1, <1>3, <1>5, <1>7, <1>8, <1>10, <1>11, <1>12, <1>13, RequestMoves

-----------------------------------------------------------------------------
(* Uploads.                                                                 *)

LEMMA UploadRaisesBytes ==
  ASSUME Inductive, NEW r \in Requests, UploadRaises(r)
  PROVE  /\ disk' \in [File -> {"absent", "partial", "whole"}]
         /\ \A s \in Requests \ {r}, p \in 1..MaxBatch : disk'[<<s, p>>] = disk[<<s, p>>]
         /\ upsets' \in 0..MaxUpsets
  <1>1. TypeOK
    BY DEF Inductive
  <1>2. ASSUME NEW S \in SUBSET File, Unlinked(S),
               S \subseteq Kept(r) \cup Batch(r) \/ S \subseteq Kept(r) \cup {Current(r)}
        PROVE  /\ disk' \in [File -> {"absent", "partial", "whole"}]
               /\ \A s \in Requests \ {r}, p \in 1..MaxBatch :
                    disk'[<<s, p>>] = disk[<<s, p>>]
               /\ upsets' \in 0..MaxUpsets
    BY <1>1, <1>2, UnlinkedTyped, OtherFiles
  <1>3. CASE At(r, "open") /\ Unlinked(Kept(r))
    BY <1>1, <1>2, <1>3, OwnFiles
  <1>4. CASE At(r, "writing") /\ Unlinked(Kept(r) \cup {Current(r)})
    <2>1. req[r].kept < req[r].size
      BY <1>4 DEF At, Inductive, RequestOK, BatchOK
    <2>2. Kept(r) \cup {Current(r)} \in SUBSET File
      BY <1>1, <2>1, OwnFiles
    <2> QED  BY <1>2, <1>4, <2>2
  <1>5. CASE Upset("db_flush") /\ disk' = Set(disk, Kept(r), "absent")
    BY <1>1, <1>5, BytesMarked, UpsetTyped
  <1> QED  BY <1>3, <1>4, <1>5 DEF UploadRaises

LEMMA UploadRaisesOK ==
  ASSUME Inductive, NEW r \in Requests, UploadRaises(r)
  PROVE  Inductive'
  <1> DEFINE q == [req[r] EXCEPT !.pc = "failed"]
  <1>1. TypeOK /\ req[r].pc \in Underway /\ req' = [req EXCEPT ![r] = q]
    BY DEF Inductive, UploadRaises, At, Underway, TypeOK
  <1>2. q \in ReqStates /\ q.pc = "failed" /\ q.size = req[r].size /\ q.kept = req[r].kept
    BY <1>1, Typed DEF ReqStates
  <1>3. UNCHANGED <<rec, thumbs, due, job, others, asked, now>>
    BY DEF UploadRaises
  <1> HIDE DEF q
  <1> QED  BY <1>1, <1>2, <1>3, UploadRaisesBytes, GivesUp

LEMMA Dies ==
  ASSUME Inductive, NEW r \in Requests, (r \in Uploads /\ UploadDies(r)) \/ RunDies(r)
  PROVE  Inductive'
  <1> DEFINE q == [req[r] EXCEPT !.pc = "dead"]
  <1>1. TypeOK /\ req[r].pc \in Underway /\ req' = [req EXCEPT ![r] = q]
    BY DEF Inductive, UploadDies, RunDies, At, Underway, TypeOK
  <1>2. q \in ReqStates /\ q.pc = "dead" /\ q.size = req[r].size /\ q.kept = req[r].kept
    BY <1>1, Typed DEF ReqStates
  <1>3. UNCHANGED <<rec, disk, thumbs, due, job, others, asked, now>>
    BY DEF UploadDies, RunDies, store
  <1>4. upsets' \in 0..MaxUpsets
    BY <1>1, UpsetTyped DEF UploadDies, RunDies
  <1>5. /\ disk' \in [File -> {"absent", "partial", "whole"}]
        /\ \A s \in Requests \ {r}, p \in 1..MaxBatch : disk'[<<s, p>>] = disk[<<s, p>>]
    BY <1>1, <1>3, KeepsTypes
  <1> HIDE DEF q
  <1> QED  BY <1>1, <1>2, <1>3, <1>4, <1>5, GivesUp

LEMMA FlushOK ==
  ASSUME Inductive, NEW r \in Requests, (r \in Uploads /\ FlushUpload(r)) \/ FlushRun(r)
  PROVE  Inductive'
  <1> DEFINE k == req[r].kept + 1
  <1>1. TypeOK /\ req[r] \in ReqStates /\ req[r].kept \in Nat /\ req[r].size \in Nat
    BY Typed DEF Inductive
  <1>2. /\ req[r].pc \in {"written", "imported"} /\ req[r].kept < req[r].size
        /\ req[r].pc \in Underway
    BY DEF FlushUpload, FlushRun, Flushable, At, Inductive, RequestOK, BatchOK, Underway
  <1>3. req' = [req EXCEPT ![r] = [@ EXCEPT !.pc = "open", !.kept = k]]
    BY <1>1 DEF FlushUpload, FlushRun, Inductive, TypeOK, ReqStates
  <1>4. k \in 0..req[r].size
    BY <1>1, <1>2
  <1>5. UNCHANGED <<rec, disk, thumbs, due, job, others, asked, now>> /\ upsets' = upsets
    BY DEF FlushUpload, FlushRun, store, Calm
  <1>6. upsets' \in 0..MaxUpsets
    BY <1>1, <1>5, KeepsTypes
  <1>7. "open" \in Underway
    BY DEF Underway
  <1> QED  BY <1>2, <1>3, <1>4, <1>5, <1>6, <1>7, Moves

LEMMA UploadStepOK ==
  ASSUME Inductive, NEW u \in Uploads, UploadStep(u)
  PROVE  Inductive'
  <1>1. u \in Requests /\ u \notin Runs
    BY ConstantsAssumption DEF Requests
  <1>2. CASE StartWrite(u)
    <2>1. /\ req' = [req EXCEPT ![u].pc = "writing"] /\ req[u].kept < req[u].size
          /\ req[u].pc \in Underway /\ "writing" \in Underway
          /\ disk' = [disk EXCEPT ![Current(u)] = "partial"]
          /\ UNCHANGED <<rec, thumbs, due, job, others, asked, now, upsets>>
      BY <1>2 DEF StartWrite, At, Underway, Calm
    <2> QED  BY <1>1, <2>1, Writes
  <1>3. CASE EndWrite(u)
    <2>1. /\ req' = [req EXCEPT ![u].pc = "written"] /\ req[u].kept < req[u].size
          /\ req[u].pc \in Underway /\ "written" \in Underway
          /\ disk' = [disk EXCEPT ![Current(u)] = "whole"]
          /\ UNCHANGED <<rec, thumbs, due, job, others, asked, now, upsets>>
      BY <1>1, <1>3 DEF EndWrite, At, Underway, Calm, Inductive, RequestOK, BatchOK
    <2> QED  BY <1>1, <2>1, Writes
  <1>4. CASE FlushUpload(u)
    BY <1>1, <1>4, FlushOK
  <1>5. CASE UploadRaises(u)
    BY <1>1, <1>5, UploadRaisesOK
  <1>6. CASE CommitUpload(u)
    <2>1. /\ req' = [req EXCEPT ![u].pc = "done"] /\ req[u].pc \in Underway
          /\ rec' = Set(rec, Kept(u), "active") /\ job' = job
          /\ UNCHANGED <<disk, thumbs, due, others, asked, now, upsets>>
      BY <1>6 DEF CommitUpload, At, Underway, Calm, Batch, Kept
    <2> QED  BY <1>1, <2>1, Commits
  <1> QED  BY <1>2, <1>3, <1>4, <1>5, <1>6 DEF UploadStep

-----------------------------------------------------------------------------
(* Runs.                                                                    *)

LEMMA CreateJobOK ==
  ASSUME Inductive, NEW r \in Runs, CreateJob(r)
  PROVE  Inductive'
  <1>1. TypeOK /\ r \in Requests /\ RequestOK(r)
    BY DEF Inductive, Requests
  <1>2. req[r].pc = "idle" /\ req[r] \in ReqStates
    BY <1>1, Typed DEF CreateJob, RequestOK, JobOK
  <1>3. /\ UNCHANGED <<rec, disk, thumbs, req, due, others, asked, now, upsets>>
        /\ job' = [job EXCEPT ![r] = [status |-> "processing", expires |-> now + Retention]]
    BY DEF CreateJob, store, Calm
  <1>4. now + Retention \in Nat
    BY <1>1, Typed, ConstantsAssumption
  <1>5. job' \in [Runs -> [status: {"none", "processing", "completed", "failed",
                                    "expired"}, expires: Nat]]
    BY <1>1, <1>3, <1>4, KeepsTypes
  <1>6. /\ job'[r].status = "processing" /\ job'[r].expires = now + Retention
        /\ \A s \in Runs \ {r} : job'[s] = job[s]
    BY <1>1, <1>3, KeepsTypes
  <1>7. BatchOK(r)' /\ RowsOK(r)' /\ DoneOK(r)'
    BY <1>1, <1>3 DEF RequestOK, BatchOK, RowsOK, DoneOK
  <1>8. JobOK(r)'
    BY <1>2, <1>3, <1>4, <1>6 DEF JobOK
  <1>9. req' = [req EXCEPT ![r] = req[r]]
    BY <1>1, <1>3 DEF TypeOK
  <1>10. Own(r, req[r])
    BY <1>3, <1>6, <1>9 DEF Own
  <1>11. RequestOK(r)'
    BY <1>7, <1>8 DEF RequestOK
  <1>12. /\ rec' \in [File -> FileStatuses]
         /\ disk' \in [File -> {"absent", "partial", "whole"}]
         /\ due' \in [Requests -> Nat] /\ upsets' \in 0..MaxUpsets
         /\ due'[r] = due[r] /\ rec' = rec
    BY <1>1, <1>3, KeepsTypes
  <1> QED  BY <1>1, <1>2, <1>5, <1>10, <1>11, <1>12, RequestMoves

LEMMA ChecksumOK ==
  ASSUME Inductive, NEW r \in Requests, ChecksumRaises(r)
  PROVE  Inductive'
  <1>1. TypeOK /\ req[r] \in ReqStates /\ req[r].kept \in Nat /\ req[r].size \in Nat
        /\ req[r].kept <= req[r].size
    BY Typed DEF Inductive, RequestOK, BatchOK
  <1>2. /\ req[r].pc \in Underway /\ "failing" \in Underway
        /\ UNCHANGED <<rec, disk, thumbs, due, job, others, asked, now>>
    BY DEF ChecksumRaises, At, Underway, store
  <1>3. upsets' \in 0..MaxUpsets
    BY <1>1, UpsetTyped DEF ChecksumRaises
  <1>4. req \in [Requests -> ReqStates]
    BY <1>1 DEF TypeOK
  <1> DEFINE k == req[r].kept
  <1>5. req' = [req EXCEPT ![r] = [@ EXCEPT !.pc = "failing", !.kept = k]]
    BY <1>1, <1>4 DEF ChecksumRaises, ReqStates
  <1>6. k \in 0..req[r].size /\ k <= req[r].kept
    BY <1>1
  <1> HIDE DEF k
  <1> QED  BY <1>2, <1>3, <1>5, <1>6, Moves

LEMMA RunStepOK ==
  ASSUME Inductive, NEW r \in Runs, RunStep(r)
  PROVE  Inductive'
  <1>1. r \in Requests
    BY DEF Requests
  <1>2. CASE Import(r)
    <2>1. /\ req' = [req EXCEPT ![r].pc = "imported"] /\ req[r].kept < req[r].size
          /\ req[r].pc \in Underway /\ "imported" \in Underway
          /\ disk' = [disk EXCEPT ![Current(r)] = "whole"]
          /\ UNCHANGED <<rec, thumbs, due, job, others, asked, now, upsets>>
      BY <1>2 DEF Import, At, Underway, Calm
    <2> QED  BY <1>1, <2>1, Writes
  <1>3. CASE ImportRaises(r)
    <2>1. PICK v \in {"absent", "partial"} : disk' = [disk EXCEPT ![Current(r)] = v]
      BY <1>3 DEF ImportRaises
    <2>2. /\ req' = [req EXCEPT ![r].pc = "failing"] /\ req[r].kept < req[r].size
          /\ req[r].pc \in Underway /\ "failing" \in Underway
          /\ UNCHANGED <<rec, thumbs, due, job, others, asked, now, upsets>>
      BY <1>3 DEF ImportRaises, At, Underway, Calm
    <2> QED  BY <1>1, <2>1, <2>2, Writes
  <1>4. CASE ChecksumRaises(r)
    BY <1>1, <1>4, ChecksumOK
  <1>5. CASE FlushRun(r)
    BY <1>1, <1>5, FlushOK
  <1>6. CASE CompleteRun(r)
    <2>1. /\ req' = [req EXCEPT ![r].pc = "done"] /\ req[r].pc \in Underway
          /\ rec' = Set(rec, Kept(r), "active") /\ req[r].kept = req[r].size
          /\ job' = [job EXCEPT ![r].status = "completed"]
          /\ UNCHANGED <<disk, thumbs, due, others, asked, now, upsets>>
      BY <1>6 DEF CompleteRun, At, Underway, Calm, Batch, Kept
    <2> QED  BY <1>1, <2>1, Commits
  <1>7. CASE FailRun(r)
    <2>1. /\ req' = [req EXCEPT ![r].pc = "done"] /\ req[r].pc \in Underway
          /\ rec' = Set(rec, Kept(r), "active")
          /\ job' = [job EXCEPT ![r].status = "failed"]
          /\ UNCHANGED <<disk, thumbs, due, others, asked, now, upsets>>
      BY <1>7 DEF FailRun, At, Underway, Calm
    <2> QED  BY <1>1, <2>1, Commits
  <1> QED  BY <1>2, <1>3, <1>4, <1>5, <1>6, <1>7 DEF RunStep

-----------------------------------------------------------------------------
(* Everyone else: who changes a file that has a row changes one that someone *)
(* asked to delete or that is due, and never leaves half of one.             *)

Licensed(f) ==
  /\ Stored(f) /\ Stored(f)'
  /\ f \in asked' \/ Overdue(f)
  /\ disk'[f] \in {"absent", disk[f]}

LEMMA StillOverdue ==
  ASSUME TypeOK, UNCHANGED due, now' \in Nat, now <= now', NEW f \in File, Overdue(f)
  PROVE  Overdue(f)'
  <1>1. due[f[1]] \in Nat /\ now \in Nat
    BY Typed, Pairs
  <1> QED  BY <1>1 DEF Overdue

LEMMA Elsewhere ==
  ASSUME Inductive, TypeOK', Hands',
         UNCHANGED <<req, due>>, now <= now', asked \subseteq asked',
         \A f \in File : (rec'[f] = rec[f] /\ disk'[f] = disk[f]) \/ Licensed(f),
         \A s \in Runs : /\ job'[s].expires = job[s].expires
                         /\ job'[s].status \in {job[s].status, "expired"}
                         /\ job[s].status = "none" => job'[s].status = "none"
  PROVE  Inductive'
  <1> SUFFICES ASSUME NEW r \in Requests
               PROVE  RequestOK(r)'
    BY DEF Inductive
  <1>1. /\ TypeOK /\ RequestOK(r) /\ due[r] \in Nat /\ now \in Nat /\ now' \in Nat
        /\ Retention \in Nat
        /\ r \in Runs => job[r].expires \in Nat
        /\ due'[r] = due[r] /\ req'[r] = req[r]
    BY Typed, ConstantsAssumption DEF Inductive, TypeOK
  <1>2. \A p \in 1..MaxBatch :
          \/ /\ rec'[<<r, p>>] = rec[<<r, p>>] /\ disk'[<<r, p>>] = disk[<<r, p>>]
          \/ /\ rec[<<r, p>>] # "none" /\ rec'[<<r, p>>] # "none"
             /\ <<r, p>> \in asked' \/ due[r] < now
             /\ disk'[<<r, p>>] \in {"absent", disk[<<r, p>>]}
    <2> SUFFICES ASSUME NEW p \in 1..MaxBatch
                 PROVE  \/ rec'[<<r, p>>] = rec[<<r, p>>] /\ disk'[<<r, p>>] = disk[<<r, p>>]
                        \/ /\ rec[<<r, p>>] # "none" /\ rec'[<<r, p>>] # "none"
                           /\ <<r, p>> \in asked' \/ due[r] < now
                           /\ disk'[<<r, p>>] \in {"absent", disk[<<r, p>>]}
      OBVIOUS
    <2> DEFINE f == <<r, p>>
    <2>1. f \in File /\ f[1] = r
      BY Pairs
    <2> HIDE DEF f
    <2>2. (rec'[f] = rec[f] /\ disk'[f] = disk[f]) \/ Licensed(f)
      BY <2>1
    <2>3. \/ rec'[f] = rec[f] /\ disk'[f] = disk[f]
          \/ /\ rec[f] # "none" /\ rec'[f] # "none" /\ (f \in asked' \/ due[r] < now)
             /\ disk'[f] \in {"absent", disk[f]}
      BY <2>1, <2>2 DEF Licensed, Stored, Overdue
    <2> QED  BY <2>3 DEF f
  <1>3. /\ \A p \in 1..req[r].kept : p \in 1..MaxBatch
        /\ req[r].kept < req[r].size => req[r].kept + 1 \in 1..MaxBatch
    BY <1>1, Typed
  <1>4. BatchOK(r)'
    <2>1. req[r].pc \in Underway => \A p \in 1..MaxBatch : disk'[<<r, p>>] = disk[<<r, p>>]
      BY <1>1, <1>2 DEF RequestOK, RowsOK, Underway
    <2> QED  BY <1>1, <1>3, <2>1 DEF RequestOK, BatchOK, Underway
  <1>5. RowsOK(r)'
    BY <1>1, <1>2 DEF RequestOK, RowsOK
  <1>6. DoneOK(r)'
    BY <1>1, <1>2, <1>3 DEF RequestOK, DoneOK
  <1>7. JobOK(r)'
    BY <1>1 DEF RequestOK, JobOK
  <1> QED  BY <1>4, <1>5, <1>6, <1>7 DEF RequestOK

\* Nobody's file changes: the types and the hands are all there is to show.
LEMMA StoreRests ==
  ASSUME Inductive, TypeOK', Hands', UNCHANGED <<rec, disk, batches>>,
         now <= now', asked \subseteq asked'
  PROVE  Inductive'
  BY Elsewhere DEF batches

LEMMA HandsRest ==
  ASSUME TypeOK, Hands, UNCHANGED <<rec, due, others>>, now' \in Nat, now <= now',
         asked \subseteq asked'
  PROVE  Hands'
  <1>1. cleaner.files \subseteq File /\ purge \subseteq File
    BY DEF TypeOK
  <1>2. \A f \in cleaner.files \cup purge : Overdue(f)'
    BY <1>1, StillOverdue DEF Hands
  <1> QED  BY <1>2 DEF Hands, others, Stored, ServedIsWhole

LEMMA TickOK ==
  ASSUME Inductive, Tick
  PROVE  Inductive'
  <1>1. TypeOK /\ Hands /\ now \in Nat /\ MaxTime \in Nat
    BY Typed, ConstantsAssumption DEF Inductive
  <1>2. now' = now + 1 /\ now < MaxTime /\ UNCHANGED <<store, batches, others, asked, upsets>>
    BY DEF Tick, Calm
  <1>3. now' \in 0..MaxTime /\ now' \in Nat /\ now <= now'
    BY <1>1, <1>2, now \in 0..MaxTime DEF TypeOK
  <1>4. TypeOK'
    BY <1>1, <1>2, <1>3 DEF TypeOK, store, batches, others
  <1>5. Hands'
    BY <1>1, <1>2, <1>3, HandsRest DEF store, batches
  <1> QED  BY <1>2, <1>3, <1>4, <1>5, StoreRests DEF store

LEMMA ThumbnailOK ==
  ASSUME Inductive, NEW f \in File, Thumbnail(f)
  PROVE  Inductive'
  <1>1. TypeOK /\ Hands /\ now \in Nat
    BY Typed DEF Inductive
  <1>2. /\ thumbs' = thumbs \cup {f}
        /\ UNCHANGED <<rec, disk, batches, others, asked, now, upsets>>
    BY DEF Thumbnail, Calm
  <1>3. TypeOK'
    BY <1>1, <1>2 DEF TypeOK, batches, others
  <1>4. Hands'
    BY <1>1, <1>2, HandsRest DEF batches
  <1> QED  BY <1>1, <1>2, <1>3, <1>4, StoreRests

\* What is offered for download has a row.
LEMMA OutputsStored ==
  ASSUME Inductive, NEW r \in Runs, job[r].status = "completed"
  PROVE  /\ Outputs(r) \subseteq File /\ Outputs(r) # {}
         /\ \A f \in Outputs(r) : Stored(f)
         /\ req[r].pc = "done" /\ req[r].kept = req[r].size /\ Outputs(r) = Kept(r)
  <1>1. r \in Requests /\ TypeOK /\ RequestOK(r)
    BY DEF Inductive, Requests
  <1>2. req[r].pc = "done" /\ req[r].kept = req[r].size /\ req[r].size >= 1
    BY <1>1 DEF RequestOK, JobOK, BatchOK
  <1>3. Outputs(r) = Kept(r)
    BY <1>2 DEF Outputs, At
  <1>4. <<r, 1>> \in Kept(r)
    BY <1>1, <1>2, Typed DEF Kept
  <1>5. \A f \in Kept(r) : Stored(f)
    BY <1>1, <1>2 DEF RequestOK, DoneOK, Stored, Kept
  <1> QED  BY <1>1, <1>2, <1>3, <1>4, <1>5, OwnFiles

LEMMA ReadsOK ==
  ASSUME Inductive, ReadCheck \/ ReadOpen \/ ReadEnd
  PROVE  Inductive'
  <1>1. TypeOK /\ Hands /\ now \in Nat
    BY Typed DEF Inductive
  <1>2. UNCHANGED <<store, batches, cleaner, deleter, purge, asked, now, upsets>>
    BY DEF ReadCheck, ReadOpen, ReadEnd, Calm
  <1> DEFINE Readers == [pc: {"idle", "checked", "served", "error"},
                         files: SUBSET File, got: SUBSET {"partial", "whole"}]
  <1>3. ASSUME reader' \in Readers,
               \A f \in reader'.files : Stored(f),
               reader'.pc # "idle" => reader'.files # {},
               reader'.pc = "served" => reader'.got = {"whole"}
        PROVE  Inductive'
    <2>1. TypeOK'
      BY <1>1, <1>2, <1>3 DEF TypeOK, store, batches
    <2>2. Hands'
      BY <1>1, <1>2, <1>3 DEF Hands, store, batches, Stored, Overdue, ServedIsWhole
    <2> QED  BY <1>1, <1>2, <2>1, <2>2, StoreRests DEF store
  <1>4. reader \in Readers
    BY <1>1 DEF TypeOK
  <1>5. ASSUME NEW f \in File, Offered(f),
               reader' = [reader EXCEPT !.pc = "checked", !.files = {f}]
        PROVE  Inductive'
    BY <1>3, <1>4, <1>5 DEF Offered, Stored
  <1>6. ASSUME NEW r \in Runs, JobOffered(r),
               reader' = [reader EXCEPT !.pc = "checked", !.files = Outputs(r)]
        PROVE  Inductive'
    <2>1. /\ Outputs(r) \subseteq File /\ Outputs(r) # {}
          /\ \A f \in Outputs(r) : Stored(f)
      BY <1>6, OutputsStored DEF JobOffered
    <2> QED  BY <1>3, <1>4, <1>6, <2>1
  <1>7. CASE ReadOpen
    <2> DEFINE found == {disk[f] : f \in reader.files}
    <2>1. \A f \in reader.files : f \in File /\ disk[f] \in {"absent", "whole"}
      <3> SUFFICES ASSUME NEW f \in reader.files
                   PROVE  f \in File /\ disk[f] \in {"absent", "whole"}
        OBVIOUS
      <3>1. f \in File /\ Stored(f) /\ disk[f] \in {"absent", "partial", "whole"}
        BY <1>1 DEF TypeOK, Hands
      <3>2. f[1] \in Requests /\ f[2] \in 1..MaxBatch /\ f = <<f[1], f[2]>>
        BY <3>1, Pairs
      <3>3. RowsOK(f[1])
        BY <3>2 DEF Inductive, RequestOK
      <3>4. rec[<<f[1], f[2]>>] # "none" => disk[<<f[1], f[2]>>] # "partial"
        BY <3>2, <3>3 DEF RowsOK
      <3> QED  BY <3>1, <3>2, <3>4 DEF Stored
    <2>2. reader.files # {} /\ \A f \in reader.files : Stored(f)
      BY <1>1, <1>7 DEF Hands, ReadOpen
    <2>3. found \subseteq {"absent", "whole"} /\ found # {}
      BY <2>1, <2>2
    <2>4. CASE "absent" \in found
      BY <1>3, <1>4, <1>7, <2>2, <2>4 DEF ReadOpen
    <2>5. CASE "absent" \notin found
      <3>1. found = {"whole"}
        BY <2>3, <2>5
      <3>2. reader' = [reader EXCEPT !.pc = "served", !.got = found]
        BY <1>7, <2>5 DEF ReadOpen
      <3> HIDE DEF found
      <3> QED  BY <1>3, <1>4, <2>2, <3>1, <3>2
    <2> QED  BY <2>4, <2>5
  <1>8. CASE ReadEnd
    BY <1>3, <1>8 DEF ReadEnd, ReaderIdle
  <1> QED  BY <1>5, <1>6, <1>7, <1>8 DEF ReadCheck

LEMMA DeleteLoadOK ==
  ASSUME Inductive, NEW f \in File, DeleteLoad(f)
  PROVE  Inductive'
  <1>1. TypeOK /\ Hands /\ now \in Nat
    BY Typed DEF Inductive
  <1>2. /\ deleter' = [pc |-> "loaded", files |-> {f}] /\ asked' = asked \cup {f}
        /\ UNCHANGED <<store, batches, cleaner, purge, reader, now, upsets>> /\ Stored(f)
    BY DEF DeleteLoad, Calm, Stored
  <1>3. TypeOK'
    BY <1>1, <1>2 DEF TypeOK, DeleterStates, store, batches
  <1>4. Hands'
    BY <1>1, <1>2 DEF Hands, store, batches, Stored, Overdue, ServedIsWhole
  <1> QED  BY <1>1, <1>2, <1>3, <1>4, StoreRests DEF store

LEMMA Rests ==
  ASSUME Inductive, DeleteDies \/ AdminPurgeSelect \/ CleanerSelect \/ CleanerDies
  PROVE  Inductive'
  <1>1. TypeOK /\ Hands /\ now \in Nat
    BY Typed DEF Inductive
  <1>2. upsets' \in 0..MaxUpsets
    BY <1>1, UpsetTyped DEF DeleteDies, AdminPurgeSelect, CleanerSelect, CleanerDies
  <1>3. /\ UNCHANGED <<store, batches, reader, asked, now>>
        /\ deleter' \in {deleter, DeleterIdle}
        /\ \/ purge' = purge
           \/ purge' = {f \in File : Listed(f)}
        /\ \/ cleaner' \in {cleaner, CleanerIdle}
           \/ cleaner' = [pc |-> "unlinking", files |-> {f \in File : Listed(f)},
                          left |-> {f \in File : Listed(f)}]
    BY DEF DeleteDies, AdminPurgeSelect, CleanerSelect, CleanerDies
  <1> DEFINE L == {f \in File : Listed(f)}
  <1>4. \A f \in L : f \in File /\ Stored(f) /\ Overdue(f)
    BY DEF Listed, Stored
  <1>5. /\ deleter'.files \subseteq deleter.files
        /\ purge' \subseteq purge \cup L
        /\ cleaner'.files \subseteq cleaner.files \cup L /\ cleaner'.left \subseteq cleaner'.files
    BY <1>1, <1>3 DEF Hands, DeleterIdle, CleanerIdle
  <1>6. TypeOK'
    <2>1. /\ cleaner' \in [pc: {"idle", "unlinking"}, files: SUBSET File, left: SUBSET File]
          /\ deleter' \in DeleterStates /\ purge' \in SUBSET File
      BY <1>1, <1>3 DEF TypeOK, CleanerIdle, DeleterIdle, DeleterStates
    <2> QED  BY <1>1, <1>2, <1>3, <2>1 DEF TypeOK, store, batches
  <1>7. Hands'
    <2>1. \A f \in File : Stored(f)' = Stored(f) /\ Overdue(f)' = Overdue(f)
      BY <1>3 DEF Stored, Overdue, store, batches
    <2>2. \A f \in cleaner'.files \cup purge' : f \in File /\ Stored(f) /\ Overdue(f)
      BY <1>1, <1>4, <1>5 DEF Hands, TypeOK
    <2>3. \A f \in deleter'.files : f \in File /\ Stored(f) /\ f \in asked
      BY <1>1, <1>5 DEF Hands, TypeOK, DeleterStates
    <2>4. \A f \in reader.files : f \in File /\ Stored(f)
      BY <1>1 DEF Hands, TypeOK
    <2> QED  BY <1>1, <1>3, <1>5, <2>1, <2>2, <2>3, <2>4 DEF Hands, ServedIsWhole
  <1> QED  BY <1>1, <1>3, <1>6, <1>7, StoreRests DEF store

\* Bytes go, of files asked for or due, and the hand that takes them lets go.
LEMMA Takes ==
  ASSUME Inductive, NEW S \in SUBSET File, Unlinked(S),
         \A f \in S : Stored(f) /\ (f \in asked \/ Overdue(f)),
         UNCHANGED <<rec, thumbs, batches, purge, reader, asked, now>>,
         deleter' \in DeleterStates, deleter'.files = deleter.files,
         cleaner' \in [pc: {"idle", "unlinking"}, files: SUBSET File, left: SUBSET File],
         cleaner'.files = cleaner.files, cleaner'.left \subseteq cleaner.left
  PROVE  Inductive'
  <1>1. TypeOK /\ Hands /\ now \in Nat
    BY Typed DEF Inductive
  <1>2. /\ disk' \in [File -> {"absent", "partial", "whole"}]
        /\ \A f \in File \ S : disk'[f] = disk[f]
        /\ \A f \in S : disk'[f] \in {"absent", disk[f]}
        /\ upsets' \in 0..MaxUpsets
    BY <1>1, UnlinkedTyped
  <1>3. TypeOK'
    BY <1>1, <1>2 DEF TypeOK, batches
  <1>4. Hands'
    BY <1>1 DEF Hands, batches, Stored, Overdue, ServedIsWhole
  <1>5. \A f \in File : (rec'[f] = rec[f] /\ disk'[f] = disk[f]) \/ Licensed(f)
    BY <1>2 DEF Licensed, Stored
  <1> QED  BY <1>1, <1>3, <1>4, <1>5, Elsewhere DEF batches

LEMMA UnlinksOK ==
  ASSUME Inductive, DeleteUnlink \/ \E f \in File : CleanerUnlink(f)
  PROVE  Inductive'
  <1>1. TypeOK /\ Hands
    BY DEF Inductive
  <1>2. /\ deleter \in DeleterStates /\ deleter.files \in SUBSET File
        /\ cleaner \in [pc: {"idle", "unlinking"}, files: SUBSET File, left: SUBSET File]
    BY <1>1 DEF TypeOK, DeleterStates
  <1>3. CASE DeleteUnlink
    <2>1. Unlinked(deleter.files) /\ deleter' = [deleter EXCEPT !.pc = "unlinked"]
          /\ UNCHANGED <<rec, thumbs, batches, cleaner, purge, reader, asked, now>>
      BY <1>3 DEF DeleteUnlink
    <2>2. deleter' \in DeleterStates /\ deleter'.files = deleter.files
      BY <1>2, <2>1 DEF DeleterStates
    <2>3. \A f \in deleter.files : Stored(f) /\ f \in asked
      BY <1>1 DEF Hands
    <2> QED  BY <1>2, <2>1, <2>2, <2>3, Takes
  <1>4. ASSUME NEW f \in File, CleanerUnlink(f)
        PROVE  Inductive'
    <2>1. /\ Unlinked({f}) /\ cleaner' = [cleaner EXCEPT !.left = @ \ {f}] /\ f \in cleaner.left
          /\ UNCHANGED <<rec, thumbs, batches, deleter, purge, reader, asked, now>>
      BY <1>4 DEF CleanerUnlink
    <2>2. /\ cleaner' \in [pc: {"idle", "unlinking"}, files: SUBSET File, left: SUBSET File]
          /\ cleaner'.files = cleaner.files /\ cleaner'.left \subseteq cleaner.left
      BY <1>2, <2>1
    <2>3. Stored(f) /\ Overdue(f)
      BY <1>1, <2>1 DEF Hands
    <2> QED  BY <1>2, <2>1, <2>2, <2>3, Takes
  <1> QED  BY <1>3, <1>4

\* Rows change their status, of files asked for or due.
LEMMA Restates ==
  ASSUME Inductive, NEW S \in SUBSET File, NEW status \in FileStatuses \ {"none"},
         rec' = Set(rec, S, status),
         \A f \in S : Stored(f) /\ (f \in asked' \/ Overdue(f)),
         UNCHANGED <<disk, thumbs, req, due, reader, now>>,
         asked \subseteq asked', asked' \in SUBSET File,
         job' \in [Runs -> [status: {"none", "processing", "completed", "failed",
                                     "expired"}, expires: Nat]],
         \A s \in Runs : /\ job'[s].expires = job[s].expires
                         /\ job'[s].status \in {job[s].status, "expired"}
                         /\ job[s].status = "none" => job'[s].status = "none",
         deleter' \in {deleter, DeleterIdle}, cleaner' \in {cleaner, CleanerIdle},
         purge' \in {purge, {}}, upsets' \in 0..MaxUpsets
  PROVE  Inductive'
  <1>1. TypeOK /\ Hands /\ now \in Nat /\ rec \in [File -> FileStatuses]
    BY Typed, KeepsTypes DEF Inductive
  <1>2. /\ rec' \in [File -> FileStatuses]
        /\ \A f \in S : rec'[f] = status
        /\ \A f \in File \ S : rec'[f] = rec[f]
    BY <1>1 DEF Set
  <1>3. TypeOK'
    <2>1. /\ cleaner' \in [pc: {"idle", "unlinking"}, files: SUBSET File, left: SUBSET File]
          /\ deleter' \in DeleterStates /\ purge' \in SUBSET File
      BY <1>1 DEF TypeOK, CleanerIdle, DeleterIdle, DeleterStates
    <2> QED  BY <1>1, <1>2, <2>1 DEF TypeOK
  <1>4. \A f \in File : Stored(f) => Stored(f)'
    BY <1>2 DEF Stored
  <1>5. \A f \in File : Overdue(f) => Overdue(f)'
    BY DEF Overdue
  <1>6. Hands'
    <2>1. /\ cleaner'.files \subseteq cleaner.files /\ cleaner'.left \subseteq cleaner'.files
          /\ deleter'.files \subseteq deleter.files /\ purge' \subseteq purge
      BY <1>1 DEF Hands, CleanerIdle, DeleterIdle
    <2>2. \A f \in cleaner.files \cup purge : f \in File /\ Stored(f) /\ Overdue(f)
      BY <1>1 DEF Hands, TypeOK
    <2>3. \A f \in deleter.files : f \in File /\ Stored(f) /\ f \in asked
      BY <1>1 DEF Hands, TypeOK, DeleterStates
    <2>4. \A f \in reader.files : f \in File /\ Stored(f)
      BY <1>1 DEF Hands, TypeOK
    <2> QED  BY <1>1, <1>4, <1>5, <2>1, <2>2, <2>3, <2>4 DEF Hands, ServedIsWhole
  <1>7. \A f \in File : (rec'[f] = rec[f] /\ disk'[f] = disk[f]) \/ Licensed(f)
    BY <1>2 DEF Licensed, Stored
  <1> QED  BY <1>1, <1>3, <1>6, <1>7, Elsewhere

LEMMA RestatesOK ==
  ASSUME Inductive,
         DeleteCommit \/ AdminPurgeCommit \/ CleanerCommit \/ \E f \in File : AdminDelete(f)
  PROVE  Inductive'
  <1>1. TypeOK /\ Hands
    BY DEF Inductive
  <1>2. /\ deleter.files \in SUBSET File /\ cleaner.files \in SUBSET File
        /\ purge \in SUBSET File /\ asked \in SUBSET File
        /\ \A s \in Runs : job[s].status \in {"none", "processing", "completed", "failed",
                                               "expired"} /\ job[s].expires \in Nat
    BY <1>1 DEF TypeOK, DeleterStates
  <1>3. /\ job \in [Runs -> [status: {"none", "processing", "completed", "failed",
                                      "expired"}, expires: Nat]]
        /\ upsets' \in 0..MaxUpsets
    BY <1>1, KeepsTypes, UpsetTyped DEF DeleteCommit, AdminPurgeCommit, CleanerCommit, AdminDelete
  <1>4. {"active", "expired", "deleted"} = FileStatuses \ {"none"}
    BY DEF FileStatuses
  <1>5. CASE DeleteCommit
    <2>1. /\ rec' = Set(rec, deleter.files, "deleted") /\ deleter' = DeleterIdle
          /\ UNCHANGED <<disk, thumbs, req, due, job, cleaner, purge, reader, asked, now>>
      BY <1>5 DEF DeleteCommit, batches
    <2>2. \A f \in deleter.files : Stored(f) /\ f \in asked
      BY <1>1 DEF Hands
    <2> QED  BY <1>2, <1>3, <1>4, <2>1, <2>2, Restates
  <1>6. CASE AdminPurgeCommit
    <2>1. /\ rec' = Set(rec, purge, "expired") /\ purge' = {}
          /\ UNCHANGED <<disk, thumbs, req, due, job, cleaner, deleter, reader, asked, now>>
      BY <1>6 DEF AdminPurgeCommit, batches
    <2>2. \A f \in purge : Stored(f) /\ Overdue(f)
      BY <1>1 DEF Hands
    <2> QED  BY <1>2, <1>3, <1>4, <2>1, <2>2, Restates
  <1>7. CASE CleanerCommit
    <2>1. /\ rec' = Set(rec, cleaner.files, "expired") /\ cleaner' = CleanerIdle
          /\ UNCHANGED <<disk, thumbs, req, due, deleter, purge, reader, asked, now>>
      BY <1>7 DEF CleanerCommit
    <2>2. \A f \in cleaner.files : Stored(f) /\ Overdue(f)
      BY <1>1 DEF Hands
    <2>3. /\ job' \in [Runs -> [status: {"none", "processing", "completed", "failed",
                                         "expired"}, expires: Nat]]
          /\ \A s \in Runs : /\ job'[s].expires = job[s].expires
                             /\ job'[s].status \in {job[s].status, "expired"}
                             /\ job[s].status = "none" => job'[s].status = "none"
      <3>1. \A s \in Runs : /\ [job[s] EXCEPT !.status = "expired"].status = "expired"
                            /\ [job[s] EXCEPT !.status = "expired"].expires = job[s].expires
                            /\ [job[s] EXCEPT !.status = "expired"]
                                 \in [status: {"none", "processing", "completed", "failed",
                                              "expired"}, expires: Nat]
        BY <1>3
      <3> QED  BY <1>2, <1>3, <1>7, <3>1 DEF CleanerCommit, JobsToExpire
    <2> QED  BY <1>2, <1>3, <1>4, <2>1, <2>2, <2>3, Restates
  <1>8. ASSUME NEW f \in File, AdminDelete(f)
        PROVE  Inductive'
    <2>1. /\ rec' = [rec EXCEPT ![f] = "deleted"] /\ asked' = asked \cup {f} /\ Stored(f)
          /\ UNCHANGED <<disk, thumbs, req, due, job, cleaner, deleter, purge, reader, now>>
      BY <1>8 DEF AdminDelete, batches, others, Stored
    <2>2. rec' = Set(rec, {f}, "deleted")
      BY <1>1, <2>1 DEF TypeOK, Set
    <2>3. {f} \in SUBSET File /\ asked' \in SUBSET File /\ asked \subseteq asked' /\ f \in asked'
      BY <1>2, <2>1
    <2> QED  BY <1>2, <1>3, <1>4, <2>1, <2>2, <2>3, Restates
  <1> QED  BY <1>5, <1>6, <1>7, <1>8

-----------------------------------------------------------------------------

LEMMA InitHolds == Init => Inductive
  <1> SUFFICES ASSUME Init
               PROVE  Inductive
    OBVIOUS
  <1>1. 0 \in 0..MaxBatch /\ 0 \in 0..MaxTime /\ 0 \in 0..MaxUpsets /\ Retention \in Nat
    BY ConstantsAssumption
  <1>2. TypeOK
    BY <1>1 DEF Init, TypeOK, FileStatuses, ReqStates, CleanerIdle, DeleterIdle, DeleterStates,
                ReaderIdle
  <1>3. ASSUME NEW r \in Requests
        PROVE  RequestOK(r)
    <2>1. req[r] = [pc |-> "idle", size |-> 0, kept |-> 0]
      BY DEF Init
    <2>2. \A p \in 1..MaxBatch : rec[<<r, p>>] = "none"
      BY Pairs DEF Init
    <2>3. r \in Runs => job[r] = [status |-> "none", expires |-> 0]
      BY DEF Init
    <2>4. BatchOK(r) /\ RowsOK(r) /\ DoneOK(r)
      BY <2>1, <2>2 DEF BatchOK, RowsOK, DoneOK, Underway
    <2>5. JobOK(r)
      BY <1>1, <2>1, <2>3 DEF JobOK, Init
    <2> QED  BY <2>4, <2>5 DEF RequestOK
  <1>4. Hands
    BY DEF Init, Hands, CleanerIdle, DeleterIdle, ReaderIdle, ServedIsWhole
  <1> QED  BY <1>2, <1>3, <1>4 DEF Inductive

LEMMA StepHolds == Inductive /\ [Next]_vars => Inductive'
  <1> SUFFICES ASSUME Inductive, [Next]_vars
               PROVE  Inductive'
    OBVIOUS
  <1>1. CASE UNCHANGED vars
    <2>1. TypeOK' /\ Hands'
      BY <1>1 DEF Inductive, vars, TypeOK, Hands, Stored, Overdue, ServedIsWhole
    <2>2. now <= now' /\ UNCHANGED <<rec, disk, batches>> /\ asked \subseteq asked'
      BY <1>1, Typed DEF vars, batches, Inductive
    <2> QED  BY <2>1, <2>2, StoreRests
  <1>2. ASSUME NEW u \in Uploads,
               \/ \E n \in 1..MaxBatch : BeginUpload(u, n)
               \/ UploadStep(u) \/ CommitUploadFails(u) \/ UploadDies(u)
        PROVE  Inductive'
    BY <1>2, Begins, UploadStepOK, CommitFails, Dies DEF Requests
  <1>3. ASSUME NEW r \in Runs,
               \/ CreateJob(r) \/ \E n \in 1..MaxBatch : BeginRun(r, n)
               \/ RunStep(r) \/ RunDies(r)
        PROVE  Inductive'
    BY <1>3, CreateJobOK, Begins, RunStepOK, Dies, ChecksumOK DEF Requests
  <1>4. ASSUME NEW f \in File, Thumbnail(f) \/ DeleteLoad(f) \/ AdminDelete(f)
        PROVE  Inductive'
    BY <1>4, ThumbnailOK, DeleteLoadOK, RestatesOK
  <1>5. CASE ReadCheck \/ ReadOpen \/ ReadEnd
    BY <1>5, ReadsOK
  <1>6. CASE DeleterStep \/ DeleteDies \/ AdminPurgeSelect \/ AdminPurgeCommit
    BY <1>6, UnlinksOK, RestatesOK, Rests DEF DeleterStep
  <1>7. CASE CleanerStep \/ CleanerDies
    BY <1>7, UnlinksOK, RestatesOK, Rests DEF CleanerStep
  <1>8. CASE Tick
    BY <1>8, TickOK
  <1> QED  BY <1>1, <1>2, <1>3, <1>4, <1>5, <1>6, <1>7, <1>8 DEF Next

LEMMA Reached == Spec => []Inductive
  <1>1. Init => Inductive
    BY InitHolds
  <1>2. Inductive /\ [Next]_vars => Inductive'
    BY StepHolds
  <1> QED  BY <1>1, <1>2, PTL DEF Spec

\* The variables keep their types, whoever interferes with whom.
THEOREM StoreTyped == Spec => []TypeOK
  <1>1. Inductive => TypeOK
    BY DEF Inductive
  <1> QED  BY <1>1, Reached, PTL

\* No download ever sends a file that is half written, half moved or half
\* rolled back: what has a row is whole or gone.
THEOREM DownloadsAreWhole == Spec => []ServedIsWhole
  <1>1. Inductive => ServedIsWhole
    BY DEF Inductive, Hands
  <1> QED  BY <1>1, Reached, PTL

\* As long as no commit reports failure after it took effect, an active file
\* keeps its bytes until it is due or someone asks for its deletion.
THEOREM FilesAreKept ==
  ASSUME "commit_unknown" \notin Upsets
  PROVE  Spec => []KeptUntilDue
  <1>1. ASSUME Inductive
        PROVE  KeptUntilDue
    <2> SUFFICES ASSUME NEW f \in File, rec[f] = "active", ~Overdue(f), f \notin asked
                 PROVE  disk[f] = "whole"
      BY DEF KeptUntilDue
    <2> DEFINE r == f[1]
               p == f[2]
    <2>1. r \in Requests /\ p \in 1..MaxBatch /\ f = <<r, p>>
      BY Pairs
    <2>2. RowsOK(r) /\ DoneOK(r) /\ due[r] \in Nat /\ now \in Nat /\ req[r].kept \in Nat
      BY <1>1, <2>1, Typed DEF Inductive, RequestOK
    <2>3. now <= due[r]
      BY <2>2 DEF Overdue
    <2> HIDE DEF r, p
    <2>4. rec[<<r, p>>] = "active" /\ <<r, p>> \notin asked
      BY <2>1
    <2>5. req[r].pc = "done" /\ p \in 1..req[r].kept
      BY <2>1, <2>2, <2>4 DEF RowsOK
    <2>6. disk[<<r, p>>] = "whole"
      BY <2>2, <2>3, <2>4, <2>5 DEF DoneOK
    <2> QED  BY <2>1, <2>6
  <1> QED  BY <1>1, Reached, PTL

\* A completed job offers its result until the job's own expiry, unless someone
\* asked to delete an output: its files outlive it.
THEOREM ResultsOutliveTheirJob == Spec => []CompletedIsServed
  <1>1. ASSUME Inductive
        PROVE  CompletedIsServed
    <2> SUFFICES ASSUME NEW r \in Runs, job[r].status = "completed", now <= job[r].expires,
                        Outputs(r) \cap asked = {}
                 PROVE  JobOffered(r)
      BY DEF CompletedIsServed
    <2>1. /\ r \in Requests /\ TypeOK /\ DoneOK(r) /\ JobOK(r) /\ BatchOK(r)
          /\ due[r] \in Nat /\ now \in Nat /\ req[r].size \in Nat
          /\ job[r].expires \in Nat
      BY <1>1, Typed DEF Inductive, RequestOK, Requests
    <2>2. req[r].pc = "done" /\ req[r].kept = req[r].size /\ Outputs(r) = Kept(r)
      BY <1>1, OutputsStored
    <2>3. now <= due[r] /\ req[r].size >= 1
      BY <2>1, <2>2 DEF JobOK, BatchOK
    <2>4. \A p \in 1..req[r].kept : /\ <<r, p>> \notin asked
                                    /\ rec[<<r, p>>] = "active" /\ disk[<<r, p>>] = "whole"
      BY <2>1, <2>2, <2>3 DEF DoneOK, Kept
    <2>5. \A f \in Outputs(r) : disk[f] # "absent"
      BY <2>2, <2>4 DEF Kept
    <2>6. req[r].size = 1 => Offered(<<r, 1>>)
      BY <2>1, <2>2, <2>3, <2>4 DEF Offered, Overdue
    <2> QED  BY <2>5, <2>6 DEF JobOffered
  <1> QED  BY <1>1, Reached, PTL

-----------------------------------------------------------------------------
(***************************************************************************)
(* FileStore implements FileContract: each step either makes the files of   *)
(* one request appear together, or withdraws files, or changes nothing a    *)
(* client can see.                                                          *)
(***************************************************************************)

\* The refinement mapping of FileStore!Contract.
Shown == [f \in File |-> IF rec[f] = "none" THEN "unborn"
                         ELSE IF Offered(f) THEN "offered" ELSE "withdrawn"]

\* A file without a row stays without, and nothing about one that has a row
\* brings it back.
Fades(f) ==
  \/ rec[f] = "none" /\ rec'[f] = "none"
  \/ /\ rec[f] # "none" /\ rec'[f] # "none"
     /\ rec'[f] = "active" => rec[f] = "active"
     /\ disk[f] = "absent" => disk'[f] = "absent"
     /\ Overdue(f) => Overdue(f)'

-----------------------------------------------------------------------------
(* The two kinds of step.                                                   *)

LEMMA Withdraws ==
  ASSUME \A f \in File : Fades(f)
  PROVE  [Contract!Next]_Shown
  <1>1. \A f \in File : \/ Shown'[f] = Shown[f]
                        \/ Shown[f] = "offered" /\ Shown'[f] = "withdrawn"
    BY DEF Fades, Shown, Offered
  <1>2. PICK S \in SUBSET File :
          \A f \in File : f \in S <=> Shown[f] = "offered" /\ Shown'[f] = "withdrawn"
    <2>1. {f \in File : Shown[f] = "offered" /\ Shown'[f] = "withdrawn"} \in SUBSET File
      OBVIOUS
    <2> QED  BY <2>1
  <1>3. Shown' = [f \in File |-> IF f \in S THEN "withdrawn" ELSE Shown[f]]
    <2>1. \A f \in File : Shown'[f] = IF f \in S THEN "withdrawn" ELSE Shown[f]
      BY <1>1, <1>2
    <2>2. Shown' = [f \in File |-> Shown'[f]]
      BY DEF Shown
    <2> QED  BY <2>1, <2>2
  <1>4. \A f \in S : Shown[f] = "offered"
    BY <1>2
  <1>5. Contract!Withdraw(S)
    BY <1>3, <1>4 DEF Contract!Withdraw, Contract!Becomes, Shown
  <1> QED  BY <1>5 DEF Contract!Next

LEMMA Appears ==
  ASSUME NEW r \in Requests, NEW S \in SUBSET File,
         \A f \in S : f[1] = r,
         \A f \in File : f[1] = r => rec[f] = "none",
         \A f \in S : rec'[f] = "active",
         \A f \in File \ S : rec'[f] = rec[f] /\ disk'[f] = disk[f],
         (\A f \in S : disk'[f] = "absent") \/ (\A f \in S : disk'[f] # "absent"),
         UNCHANGED <<due, now>>
  PROVE  [Contract!Next]_Shown
  <1>1. \A f \in File \ S : Shown'[f] = Shown[f]
    BY DEF Shown, Offered, Overdue
  <1>2. Shown' = [f \in File |-> Shown'[f]] /\ Shown = [f \in File |-> Shown[f]]
    BY DEF Shown
  <1>3. \A f \in File : f[1] = r => Shown[f] = "unborn"
    BY DEF Shown
  <1>4. CASE S = {}
    BY <1>1, <1>2, <1>4
  <1>5. CASE S # {} /\ (due[r] < now \/ \A f \in S : disk'[f] = "absent")
    <2>1. \A f \in S : Shown'[f] = "withdrawn"
      BY <1>5 DEF Shown, Offered, Overdue
    <2>2. Shown' = [f \in File |-> IF f \in S THEN "withdrawn" ELSE Shown[f]]
      BY <1>1, <1>2, <2>1
    <2>3. Contract!Miss(S)
      BY <1>3, <1>5, <2>2 DEF Contract!Miss, Contract!Becomes, Contract!Appear, Shown
    <2> QED  BY <2>3 DEF Contract!Next
  <1>6. CASE S # {} /\ ~(due[r] < now) /\ \A f \in S : disk'[f] # "absent"
    <2>1. \A f \in S : Shown'[f] = "offered"
      BY <1>6 DEF Shown, Offered, Overdue
    <2>2. Shown' = [f \in File |-> IF f \in S THEN "offered" ELSE Shown[f]]
      BY <1>1, <1>2, <2>1
    <2>3. Contract!Offer(S)
      BY <1>3, <1>6, <2>2 DEF Contract!Offer, Contract!Becomes, Contract!Appear, Shown
    <2> QED  BY <2>3 DEF Contract!Next
  <1> QED  BY <1>4, <1>5, <1>6

\* Before its commit a request may do as it likes with its own files.
LEMMA Unseen ==
  ASSUME Inductive, NEW r \in Requests, req[r].pc \in Underway \cup {"idle"},
         UNCHANGED <<rec, now>>,
         \A s \in Requests \ {r} : due'[s] = due[s],
         \A s \in Requests \ {r}, p \in 1..MaxBatch : disk'[<<s, p>>] = disk[<<s, p>>]
  PROVE  [Contract!Next]_Shown
  <1>1. \A p \in 1..MaxBatch : rec[<<r, p>>] = "none"
    BY DEF Inductive, RequestOK, RowsOK, Underway
  <1>2. ASSUME NEW f \in File
        PROVE  Fades(f)
    <2>1. f[1] \in Requests /\ f[2] \in 1..MaxBatch /\ f = <<f[1], f[2]>>
      BY Pairs
    <2>2. CASE f[1] = r
      <3>1. rec[f] = "none"
        BY <1>1, <2>1, <2>2
      <3> QED  BY <3>1 DEF Fades
    <2>3. CASE f[1] # r
      <3>1. disk'[f] = disk[f] /\ due'[f[1]] = due[f[1]]
        BY <2>1, <2>3
      <3> QED  BY <3>1 DEF Fades, Overdue
    <2> QED  BY <2>2, <2>3
  <1> QED  BY <1>2, Withdraws

-----------------------------------------------------------------------------
(* Uploads and runs.                                                        *)

LEMMA WritingUnseen ==
  ASSUME Inductive, NEW r \in Requests,
         \/ StartWrite(r) \/ EndWrite(r) \/ Import(r) \/ ImportRaises(r)
  PROVE  [Contract!Next]_Shown
  <1>1. /\ TypeOK /\ req[r].kept < req[r].size /\ req[r].pc \in Underway
        /\ UNCHANGED <<rec, due, now>>
    BY DEF Inductive, RequestOK, BatchOK, Underway, StartWrite, EndWrite, Import,
           ImportRaises, At
  <1>2. PICK v \in {"absent", "partial", "whole"} : disk' = [disk EXCEPT ![Current(r)] = v]
    BY DEF StartWrite, EndWrite, Import, ImportRaises
  <1>3. \A s \in Requests \ {r}, p \in 1..MaxBatch : disk'[<<s, p>>] = disk[<<s, p>>]
    BY <1>1, <1>2, CurrentMark
  <1> QED  BY <1>1, <1>3, Unseen

LEMMA StandingUnseen ==
  ASSUME Inductive, NEW r \in Requests,
         \/ \E n \in 1..MaxBatch : BeginUpload(r, n) \/ BeginRun(r, n)
         \/ FlushUpload(r) \/ FlushRun(r) \/ ChecksumRaises(r)
         \/ UploadDies(r) \/ RunDies(r)
  PROVE  [Contract!Next]_Shown
  <1>1. /\ req[r].pc \in Underway \cup {"idle"}
        /\ UNCHANGED <<rec, disk, now>>
    BY DEF BeginUpload, BeginRun, FlushUpload, FlushRun, ChecksumRaises,
           UploadDies, RunDies, At, Flushable, Underway, store
  <1>2. \A s \in Requests \ {r} : due'[s] = due[s]
    BY DEF BeginUpload, BeginRun, FlushUpload, FlushRun, ChecksumRaises,
           UploadDies, RunDies, Inductive, TypeOK
  <1>3. \A s \in Requests \ {r}, p \in 1..MaxBatch : disk'[<<s, p>>] = disk[<<s, p>>]
    BY <1>1
  <1> QED  BY <1>1, <1>2, <1>3, Unseen

LEMMA RaisingUnseen ==
  ASSUME Inductive, NEW r \in Requests, UploadRaises(r)
  PROVE  [Contract!Next]_Shown
  <1>1. TypeOK /\ req[r].pc \in Underway /\ UNCHANGED <<rec, due, now>>
    BY DEF Inductive, UploadRaises, At, Underway
  <1>2. \A s \in Requests \ {r}, p \in 1..MaxBatch : disk'[<<s, p>>] = disk[<<s, p>>]
    BY UploadRaisesBytes
  <1> QED  BY <1>1, <1>2, Unseen

\* The files of a batch that has just been committed.
LEMMA CommitsShow ==
  ASSUME Inductive, NEW r \in Requests, req[r].pc \in Underway,
         rec' = Set(rec, Kept(r), "active") /\ UNCHANGED <<due, now>>,
         disk' = disk \/ disk' = Set(disk, Kept(r), "absent")
  PROVE  [Contract!Next]_Shown
  <1>1. TypeOK /\ Kept(r) \in SUBSET File /\ \A f \in Kept(r) : f[1] = r
    BY OwnFiles DEF Inductive, Kept
  <1>2. \A f \in File : f[1] = r => rec[f] = "none"
    BY Pairs DEF Inductive, RequestOK, RowsOK, Underway
  <1>3. /\ \A f \in Kept(r) : rec'[f] = "active"
        /\ \A f \in File \ Kept(r) : rec'[f] = rec[f]
    BY <1>1 DEF TypeOK, Set
  <1>4. /\ \A f \in File \ Kept(r) : disk'[f] = disk[f]
        /\ (\A f \in Kept(r) : disk'[f] = "absent") \/ (\A f \in Kept(r) : disk'[f] # "absent")
    <2>1. CASE disk' = disk
      <3>1. \A p \in 1..req[r].kept : disk[<<r, p>>] = "whole"
        BY DEF Inductive, RequestOK, BatchOK
      <3>2. \A f \in Kept(r) : disk[f] = "whole"
        BY <3>1 DEF Kept
      <3> QED  BY <2>1, <3>2
    <2>2. CASE disk' = Set(disk, Kept(r), "absent")
      BY <1>1, <2>2 DEF TypeOK, Set
    <2> QED  BY <2>1, <2>2
  <1> QED  BY <1>1, <1>2, <1>3, <1>4, Appears

LEMMA UploadsShow ==
  ASSUME Inductive, NEW u \in Uploads,
         \/ \E n \in 1..MaxBatch : BeginUpload(u, n)
         \/ UploadStep(u) \/ CommitUploadFails(u) \/ UploadDies(u)
  PROVE  [Contract!Next]_Shown
  <1>1. u \in Requests
    BY DEF Requests
  <1>2. CASE CommitUpload(u)
    <2>1. /\ req[u].pc \in Underway /\ rec' = Set(rec, Kept(u), "active")
          /\ UNCHANGED <<due, now, disk>>
      BY <1>2 DEF CommitUpload, At, Underway, Batch, Kept
    <2> QED  BY <1>1, <2>1, CommitsShow
  <1>3. CASE CommitUploadFails(u)
    <2>1. /\ req[u].pc \in Underway /\ UNCHANGED <<due, now>>
          /\ disk' = Set(disk, Kept(u), "absent")
          /\ rec' = rec \/ rec' = Set(rec, Kept(u), "active")
      BY <1>3 DEF CommitUploadFails, At, Underway, Batch, Kept
    <2>2. CASE rec' = rec
      <3>1. \A s \in Requests \ {u}, p \in 1..MaxBatch : disk'[<<s, p>>] = disk[<<s, p>>]
        BY <1>1, <2>1, BytesMarked DEF Inductive
      <3> QED  BY <1>1, <2>1, <2>2, <3>1, Unseen
    <2>3. CASE rec' = Set(rec, Kept(u), "active")
      BY <1>1, <2>1, <2>3, CommitsShow
    <2> QED  BY <2>1, <2>2, <2>3
  <1> QED  BY <1>1, <1>2, <1>3, WritingUnseen, StandingUnseen, RaisingUnseen DEF UploadStep

LEMMA RunsShow ==
  ASSUME Inductive, NEW r \in Runs,
         \/ CreateJob(r) \/ \E n \in 1..MaxBatch : BeginRun(r, n)
         \/ RunStep(r) \/ RunDies(r)
  PROVE  [Contract!Next]_Shown
  <1>1. r \in Requests
    BY DEF Requests
  <1>2. CASE CompleteRun(r) \/ FailRun(r)
    <2>1. /\ req[r].pc \in Underway /\ rec' = Set(rec, Kept(r), "active")
          /\ UNCHANGED <<due, now, disk>>
      BY <1>2 DEF CompleteRun, FailRun, At, Underway, Batch, Kept
    <2> QED  BY <1>1, <2>1, CommitsShow
  <1>3. CASE CreateJob(r)
    <2>1. UNCHANGED Shown
      BY <1>3 DEF CreateJob, store, Shown, Offered, Overdue
    <2> QED  BY <2>1
  <1> QED  BY <1>1, <1>2, <1>3, WritingUnseen, StandingUnseen DEF RunStep

-----------------------------------------------------------------------------
(* Everyone else.                                                           *)

LEMMA QuietShows ==
  ASSUME Inductive, UNCHANGED <<rec, disk, due>>, now' \in Nat, now <= now'
  PROVE  [Contract!Next]_Shown
  <1>1. TypeOK
    BY DEF Inductive
  <1>2. \A f \in File : Fades(f)
    BY <1>1, StillOverdue DEF Fades
  <1> QED  BY <1>2, Withdraws

LEMMA TakingShows ==
  ASSUME Inductive, DeleteUnlink \/ \E f \in File : CleanerUnlink(f)
  PROVE  [Contract!Next]_Shown
  <1>1. /\ UNCHANGED <<rec, due, now>>
        /\ \E S \in SUBSET File : Unlinked(S)
    BY DEF DeleteUnlink, CleanerUnlink, batches, Inductive, TypeOK, DeleterStates
  <1>2. PICK S \in SUBSET File : Unlinked(S)
    BY <1>1
  <1>3. \A f \in File : disk'[f] \in {"absent", disk[f]}
    BY <1>2, UnlinkedTyped DEF Inductive
  <1>4. \A f \in File : Fades(f)
    BY <1>1, <1>3 DEF Fades, Overdue
  <1> QED  BY <1>4, Withdraws

LEMMA RestatingShows ==
  ASSUME Inductive,
         DeleteCommit \/ AdminPurgeCommit \/ CleanerCommit \/ \E f \in File : AdminDelete(f)
  PROVE  [Contract!Next]_Shown
  <1>1. UNCHANGED <<disk, due, now>> /\ rec \in [File -> FileStatuses]
    BY DEF DeleteCommit, AdminPurgeCommit, CleanerCommit, AdminDelete, batches, Inductive, TypeOK
  <1>2. ASSUME NEW S, \A f \in File : f \in S => Stored(f), NEW status \in {"deleted", "expired"},
               rec' = Set(rec, S, status)
        PROVE  [Contract!Next]_Shown
    <2>1. \A f \in File : rec'[f] = IF f \in S THEN status ELSE rec[f]
      BY <1>1, <1>2 DEF Set
    <2>2. \A f \in File : Fades(f)
      BY <1>1, <1>2, <2>1 DEF Fades, Stored, Overdue
    <2> QED  BY <2>2, Withdraws
  <1>3. CASE DeleteCommit
    BY <1>2, <1>3 DEF DeleteCommit, Inductive, Hands
  <1>4. CASE AdminPurgeCommit
    BY <1>2, <1>4 DEF AdminPurgeCommit, Inductive, Hands
  <1>5. CASE CleanerCommit
    BY <1>2, <1>5 DEF CleanerCommit, Inductive, Hands
  <1>6. ASSUME NEW f \in File, AdminDelete(f)
        PROVE  [Contract!Next]_Shown
    <2>1. rec' = Set(rec, {f}, "deleted") /\ Stored(f)
      BY <1>1, <1>6 DEF AdminDelete, Set, Stored
    <2> QED  BY <1>2, <2>1
  <1> QED  BY <1>3, <1>4, <1>5, <1>6

LEMMA StepShows ==
  ASSUME Inductive, [Next]_vars
  PROVE  [Contract!Next]_Shown
  <1>1. now \in Nat
    BY Typed DEF Inductive
  <1>2. CASE UNCHANGED vars
    BY <1>1, <1>2, QuietShows DEF vars
  <1>3. CASE \E u \in Uploads : \/ \E n \in 1..MaxBatch : BeginUpload(u, n)
                                \/ UploadStep(u) \/ CommitUploadFails(u) \/ UploadDies(u)
    BY <1>3, UploadsShow
  <1>4. CASE \E r \in Runs : \/ CreateJob(r) \/ \E n \in 1..MaxBatch : BeginRun(r, n)
                             \/ RunStep(r) \/ RunDies(r)
    BY <1>4, RunsShow
  <1>5. CASE \/ ReadCheck \/ ReadOpen \/ ReadEnd \/ DeleteDies
             \/ AdminPurgeSelect \/ CleanerSelect \/ CleanerDies
             \/ \E f \in File : Thumbnail(f) \/ DeleteLoad(f)
    <2>1. UNCHANGED <<rec, disk, due, now>>
      BY <1>5 DEF ReadCheck, ReadOpen, ReadEnd, DeleteDies, AdminPurgeSelect, CleanerSelect,
                  CleanerDies, Thumbnail, DeleteLoad, store, batches
    <2> QED  BY <1>1, <2>1, QuietShows
  <1>6. CASE Tick
    <2>1. UNCHANGED <<rec, disk, due>> /\ now' = now + 1
      BY <1>6 DEF Tick, store, batches
    <2> QED  BY <1>1, <2>1, QuietShows
  <1>7. CASE DeleteUnlink \/ \E f \in File : CleanerUnlink(f)
    BY <1>7, TakingShows
  <1>8. CASE DeleteCommit \/ AdminPurgeCommit \/ CleanerCommit \/ \E f \in File : AdminDelete(f)
    BY <1>8, RestatingShows
  <1> QED  BY <1>2, <1>3, <1>4, <1>5, <1>6, <1>7, <1>8 DEF Next, DeleterStep, CleanerStep

\* FileStore keeps the promise of FileContract: a batch appears in one step and
\* no step offers again what was withdrawn.
THEOREM FilesKeepTheContract == Spec => ImplementsContract
  <1>1. Init => Contract!Init
    BY DEF Init, Contract!Init
  <1>2. Inductive /\ [Next]_vars => [Contract!Next]_Shown
    BY StepShows
  <1> QED  BY <1>1, <1>2, Reached, PTL DEF Spec, ImplementsContract, Contract!Spec, Shown

=============================================================================
