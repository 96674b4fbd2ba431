------------------------------- MODULE ErrorLog -------------------------------
(***************************************************************************)
(* The log of unhandled errors (services/error_capture.py): the handler of   *)
(* last resort counts an error in the row of its fingerprint, or gives it    *)
(* one, and admins resolve, delete and clear the rows (services/admin.py).   *)
(* The reading and the writing of a capture are two statements.              *)
(***************************************************************************)
EXTENDS Naturals, FiniteSets, Functions

CONSTANTS
  Fingerprints,   \* exception type and frame
  Captures,       \* captures under way at a time
  MaxErrors,      \* bound: errors that happen
  ErrorUpsets     \* which failures may happen: {"database"}

VARIABLES
  log,         \* error_logs: id -> [fp, count, resolved]
  logged,      \* ids given out
  capture,     \* what each capture is doing
  resolving,   \* rows an admin has loaded to resolve them: id -> resolved, as loaded
  happened,    \* errors so far, by fingerprint (history)
  forgotten,   \* of them, those in rows admins have removed (history)
  lost,        \* and those no row counts: [fp, why] -> how many (history)
  overlapped   \* fingerprints of which two first captures ran side by side (history)

errorVars == <<log, logged, capture, resolving, happened, forgotten, lost, overlapped>>

Waiting == [stage |-> "waiting"]
Reasons == {"gone", "doubled", "database"}

ErrorsInit ==
  /\ log = <<>> /\ logged = 0
  /\ capture = [c \in Captures |-> Waiting]
  /\ resolving = <<>>
  /\ happened = [fp \in Fingerprints |-> 0]
  /\ forgotten = [fp \in Fingerprints |-> 0]
  /\ lost = [fp \in Fingerprints |-> [why \in Reasons |-> 0]]
  /\ overlapped = {}

RowsOf(fp) == {i \in DOMAIN log : log[i].fp = fp}

\* The errors these rows have counted.
Occurrences(ids) == SumFunctionOnSet([i \in DOMAIN log |-> log[i].count], ids)

Loses(fp, why) == lost' = [lost EXCEPT ![fp][why] = @ + 1]

\* An unhandled error; the capture looks for its row.  Two rows are an error to
\* it (scalar_one_or_none), and errors of a capture are swallowed.
Capture(c, fp) ==
  /\ capture[c] = Waiting
  /\ happened[fp] < MaxErrors
  /\ happened' = [happened EXCEPT ![fp] = @ + 1]
  /\ IF Cardinality(RowsOf(fp)) > 1
       THEN Loses(fp, "doubled") /\ UNCHANGED <<capture, overlapped>>
       ELSE LET row == IF RowsOf(fp) = {} THEN 0 ELSE CHOOSE i \in RowsOf(fp) : TRUE
            IN /\ capture' = [capture EXCEPT ![c] =
                    [stage |-> "writing", fp |-> fp, row |-> row,
                     count |-> IF row = 0 THEN 0 ELSE log[row].count]]
               /\ overlapped' = overlapped \cup
                    {f \in {fp} : \E d \in Captures :
                       capture[d] # Waiting /\ capture[d].fp = fp /\ capture[d].row = 0}
               /\ UNCHANGED lost
  /\ UNCHANGED <<log, logged, resolving, forgotten>>

\* Mutant: the count that was read, plus one.
CountedMutant(c, row) == [row EXCEPT !.count = capture[c].count + 1, !.resolved = FALSE]

\* count = count + 1 in the statement itself; the error is open again.
Counted(c, row) == [row EXCEPT !.count = @ + 1, !.resolved = FALSE]

\* The UPDATE of the row it saw, which may be gone, or the INSERT of a first one.
Record(c) ==
  /\ capture[c] # Waiting
  /\ LET fp  == capture[c].fp
         row == capture[c].row
     IN CASE row = 0 ->
               /\ logged' = logged + 1
               /\ log' = [i \in DOMAIN log \cup {logged + 1} |->
                            IF i \in DOMAIN log THEN log[i]
                            ELSE [fp |-> fp, count |-> 1, resolved |-> FALSE]]
               /\ UNCHANGED lost
          [] row # 0 /\ row \in DOMAIN log ->
               /\ log' = [log EXCEPT ![row] = Counted(c, @)]
               /\ UNCHANGED <<logged, lost>>
          [] row # 0 /\ row \notin DOMAIN log ->
               Loses(fp, "gone") /\ UNCHANGED <<log, logged>>
  /\ capture' = [capture EXCEPT ![c] = Waiting]
  /\ UNCHANGED <<resolving, happened, forgotten, overlapped>>

\* The database fails a capture that is under way.
CaptureFails(c) ==
  /\ "database" \in ErrorUpsets /\ capture[c] # Waiting
  /\ Loses(capture[c].fp, "database")
  /\ capture' = [capture EXCEPT ![c] = Waiting]
  /\ UNCHANGED <<log, logged, resolving, happened, forgotten, overlapped>>

-----------------------------------------------------------------------------
(* Admins.                                                                  *)

\* resolve_error, up to its commit
LoadError(i) ==
  /\ i \in DOMAIN log /\ i \notin DOMAIN resolving
  /\ resolving' = [j \in DOMAIN resolving \cup {i} |->
                     IF j = i THEN log[i].resolved ELSE resolving[j]]
  /\ UNCHANGED <<log, logged, capture, happened, forgotten, lost, overlapped>>

\* The commit writes what differs from what was loaded; a row that is gone fails it.
ResolveError(i, resolved) ==
  /\ i \in DOMAIN resolving
  /\ log' = IF i \in DOMAIN log /\ resolved # resolving[i]
            THEN [log EXCEPT ![i].resolved = resolved] ELSE log
  /\ resolving' = [j \in DOMAIN resolving \ {i} |-> resolving[j]]
  /\ UNCHANGED <<logged, capture, happened, forgotten, lost, overlapped>>

RemoveErrors(ids) ==
  /\ log' = [i \in DOMAIN log \ ids |-> log[i]]
  /\ forgotten' = [fp \in Fingerprints |->
                    forgotten[fp] + Occurrences(ids \cap RowsOf(fp))]
  /\ UNCHANGED <<logged, capture, resolving, happened, lost, overlapped>>

DeleteError(i) == RemoveErrors({i})

ClearResolved == RemoveErrors({i \in DOMAIN log : log[i].resolved})

ErrorsNext ==
  \/ \E c \in Captures, fp \in Fingerprints : Capture(c, fp)
  \/ \E c \in Captures : Record(c) \/ CaptureFails(c)
  \/ \E i \in DOMAIN log : LoadError(i) \/ DeleteError(i)
  \/ \E i \in DOMAIN resolving, resolved \in BOOLEAN : ResolveError(i, resolved)
  \/ ClearResolved

ErrorsSpec == ErrorsInit /\ [][ErrorsNext]_errorVars

-----------------------------------------------------------------------------
(* Properties.                                                              *)

InHand(fp) == {c \in Captures : capture[c] # Waiting /\ capture[c].fp = fp}

InLog(fp) == Occurrences(RowsOf(fp))

LostTo(fp) == lost[fp]["gone"] + lost[fp]["doubled"] + lost[fp]["database"]

\* "increments the occurrence count instead of inserting duplicates": every
\* error that happened is counted once, however captures overlap, and only these
\* are not: those whose row an admin removed while they looked at it, those the
\* database failed, and those that come after two first captures ran side by
\* side and left two rows (services/error_capture.py:44).
ErrorsAreCounted ==
  \A fp \in Fingerprints :
    /\ happened[fp] = InLog(fp) + forgotten[fp] + LostTo(fp) + Cardinality(InHand(fp))
    /\ Cardinality(RowsOf(fp)) > 1 \/ lost[fp]["doubled"] > 0 => fp \in overlapped
=============================================================================
