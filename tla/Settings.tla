------------------------------- MODULE Settings -------------------------------
(***************************************************************************)
(* The settings admins edit, one JSON document per category                 *)
(* (services/admin.py, endpoints/admin/settings.py), and what every process *)
(* of the server makes sure of when it starts (services/admin_bootstrap.py): *)
(* the admin account, a row per tool, a document per category, visits to     *)
(* draw.  Of the account of ADMIN_EMAIL only its standing matters here; the   *)
(* requests that create, change and delete accounts are those of Accounts.   *)
(*                                                                           *)
(* A document is a function from the paths of its leaves to their values; a  *)
(* list is a leaf.                                                           *)
(***************************************************************************)
EXTENDS Naturals, FiniteSets, SequencesExt

CONSTANTS
  ToolSlugs,        \* TOOL_CATALOG
  DefaultSettings,  \* DEFAULT_SETTINGS: category -> document
  Overrides,        \* what admins send: pairs of a category and a document
  AssetValue,       \* an uploaded image as a data URI
  Editors,          \* updates under way at a time
  Starters,         \* processes starting at a time
  MaxEdits,         \* bound: updates
  MaxStarts,        \* bound: starts
  MaxOwners,        \* bound: accounts of ADMIN_EMAIL that requests create
  SettingUpsets     \* which failures may happen: {"start_dies"}

ASSUME SettingsAssumption ==
  \A pair \in Overrides : \A p \in DOMAIN pair[2] : p \in Seq(STRING)

Steps == <<"admin", "tools", "settings", "traffic">>

VARIABLES
  setting,   \* category -> document: app_settings
  stamp,     \* category -> path -> the update that set it (history)
  edits,     \* updates committed
  editor,    \* what each update is doing
  configured, \* which of ADMIN_EMAIL and ADMIN_PASSWORD are set
  owner,     \* the account of ADMIN_EMAIL: "none", "plain", or an "admin"
  owners,    \* accounts of ADMIN_EMAIL created so far
  seeded,    \* the tools and the visits there are
  starter,   \* the step each start is at, what it found missing, and owners
  starts,    \* starts so far (bound)
  calm,      \* nothing got in the way of the starts under way (history)
  touched    \* somebody else changed the account since they looked (history)

ownerVars == <<configured, owner, owners, touched>>
settingVars == <<setting, stamp, edits, editor, ownerVars, seeded, starter, starts, calm>>

Out == [step |-> 0, missing |-> {}, found |-> 0]
Closed == [stage |-> "closed"]

SettingsInit ==
  /\ setting = <<>> /\ stamp = <<>> /\ edits = 0
  /\ editor = [e \in Editors |-> Closed]
  /\ configured \in SUBSET {"email", "password"}
  /\ owner = "none" /\ owners = 0 /\ touched = FALSE
  /\ seeded = [tools |-> {}, traffic |-> {}]
  /\ starter = [s \in Starters |-> Out]
  /\ starts = 0 /\ calm = TRUE

-----------------------------------------------------------------------------
(* Updates.                                                                 *)

Present == DOMAIN setting

\* p and q cannot both be leaves of one document, or are the same leaf.
Clash(p, q) == IsPrefix(p, q) \/ IsPrefix(q, p)

Touches(over, p) == \E q \in DOMAIN over : Clash(p, q)

\* Mutant: dict.update, which replaces nested objects.
DeepMergeMutant(base, over) ==
  LET kept == {p \in DOMAIN base : ~\E q \in DOMAIN over : q[1] = p[1]}
  IN [p \in kept \cup DOMAIN over |-> IF p \in DOMAIN over THEN over[p] ELSE base[p]]

\* _deep_merge: objects key by key, lists and scalars outright
DeepMerge(base, over) ==
  LET kept == {p \in DOMAIN base : ~Touches(over, p)}
  IN [p \in kept \cup DOMAIN over |-> IF p \in DOMAIN over THEN over[p] ELSE base[p]]

\* update_setting, up to its commit: a category without a row gets an empty one
LoadSetting(e, category, over) ==
  /\ editor[e] = Closed /\ edits < MaxEdits
  /\ editor' = [editor EXCEPT ![e] =
       [stage |-> "loaded", category |-> category, over |-> over,
        new |-> category \notin Present,
        base |-> IF category \in Present THEN setting[category] ELSE <<>>,
        since |-> edits]]
  /\ UNCHANGED <<setting, stamp, edits, ownerVars, seeded, starter, starts, calm>>

\* The document of category becomes doc, by an update that mentions over.
Write(category, doc, over) ==
  LET old == IF category \in Present THEN setting[category] ELSE <<>>
      Kept(p) == p \in DOMAIN old /\ old[p] = doc[p] /\ p \notin DOMAIN over
  IN /\ setting' = [c \in Present \cup {category} |->
                      IF c = category THEN doc ELSE setting[c]]
     /\ stamp' = [c \in Present \cup {category} |->
                    IF c = category
                    THEN [p \in DOMAIN doc |-> IF Kept(p) THEN stamp[c][p] ELSE edits + 1]
                    ELSE stamp[c]]

Running == {s \in Starters : starter[s] # Out}

\* The commit.  Two rows of one key are refused by the index, and a document
\* equal to what was loaded is not written.
CommitSetting(e) ==
  /\ editor[e] # Closed
  /\ LET c      == editor[e].category
         merged == DeepMerge(editor[e].base, editor[e].over)
     IN /\ IF IF editor[e].new THEN c \in Present ELSE merged = editor[e].base
             THEN UNCHANGED <<setting, stamp>>
             ELSE Write(c, merged, editor[e].over)
        /\ calm' = (calm /\ ~(editor[e].new /\ c \notin Present /\ Running # {}))
  /\ edits' = edits + 1
  /\ editor' = [editor EXCEPT ![e] = Closed]
  /\ UNCHANGED <<ownerVars, seeded, starter, starts>>

\* An image that passes the checks is stored inside the branding document.
UploadAsset(e, kind, type, size) ==
  /\ kind \in {"logo", "favicon"} /\ type = "image" /\ size = "some"
  /\ LoadSetting(e, "branding", [p \in {<<kind>>} |-> AssetValue])

-----------------------------------------------------------------------------
(* Starts.                                                                  *)

\* What the steps after the first make sure of, and what is there of it.
Wanted(step) == CASE step = "tools"    -> ToolSlugs
                  [] step = "settings" -> DOMAIN DefaultSettings
                  [] step = "traffic"  -> {"visits"}
There(step) == IF step = "settings" THEN Present ELSE seeded[step]

\* _ensure_admin_user: an account of ADMIN_EMAIL is promoted; without one, and
\* with a password, one is created.
AdminMissing ==
  IF "email" \notin configured \/ owner = "admin" THEN {}
  ELSE IF owner # "none" THEN {"promotion"}
  ELSE IF "password" \in configured THEN {"account"} ELSE {}

Starts(s) ==
  /\ starter[s] = Out /\ starts < MaxStarts
  /\ starts' = starts + 1
  /\ starter' = [starter EXCEPT ![s] = [step |-> 1, missing |-> {}, found |-> 0]]
  /\ calm' = (calm \/ Running = {})
  /\ touched' = (touched /\ Running # {})
  /\ UNCHANGED <<setting, stamp, edits, editor, configured, owner, owners, seeded>>

\* The step is done: the next one, or the server serves.
NextStep(s) == IF starter[s].step = Len(Steps)
               THEN Out
               ELSE [step |-> starter[s].step + 1, missing |-> {}, found |-> 0]

\* Mutant: a step that does not look what is there.
MissingMutant(step) == IF step = "admin" THEN AdminMissing ELSE Wanted(step)

Missing(step) == IF step = "admin" THEN AdminMissing ELSE Wanted(step) \ There(step)

\* A step reads what is there.
StepReads(s) ==
  /\ starter[s] # Out /\ starter[s].missing = {}
  /\ LET missing == Missing(Steps[starter[s].step])
     IN starter' = [starter EXCEPT ![s] =
          IF missing = {} THEN NextStep(s)
          ELSE [step |-> starter[s].step, missing |-> missing, found |-> owners]]
  /\ UNCHANGED <<setting, stamp, edits, editor, ownerVars, seeded, starts, calm>>

\* The write of a step raises if one of its rows is there by now, which their
\* index refuses, or if the account to promote is gone; visits have no such index.
Refused(s) ==
  LET step    == Steps[starter[s].step]
      missing == starter[s].missing
  IN CASE step = "admin"   -> IF missing = {"account"} THEN owner # "none"
                              ELSE owner = "none" \/ owners # starter[s].found
       [] step = "traffic" -> FALSE
       [] OTHER            -> missing \cap There(step) # {}

\* A step stores what was missing, in one commit.
Stores(step, missing) ==
  CASE step = "settings" ->
         /\ setting' = [c \in Present \cup missing |->
              IF c \in Present THEN setting[c] ELSE DefaultSettings[c]]
         /\ stamp' = [c \in Present \cup missing |->
              IF c \in Present THEN stamp[c]
              ELSE [p \in DOMAIN DefaultSettings[c] |-> edits + 1]]
         /\ UNCHANGED <<owner, owners, seeded>>
    [] step = "admin" ->
         /\ owner' = "admin"
         /\ owners' = IF missing = {"account"} THEN owners + 1 ELSE owners
         /\ UNCHANGED <<setting, stamp, seeded>>
    [] OTHER ->
         /\ seeded' = [seeded EXCEPT ![step] = @ \cup missing]
         /\ UNCHANGED <<setting, stamp, owner, owners>>

\* If it raises, bootstrap_admin gives up that step and those after it.
StepInserts(s) ==
  /\ starter[s].missing # {}
  /\ IF Refused(s)
       THEN /\ starter' = [starter EXCEPT ![s] = Out]
            /\ UNCHANGED <<setting, stamp, owner, owners, seeded>>
       ELSE /\ starter' = [starter EXCEPT ![s] = NextStep(s)]
            /\ Stores(Steps[starter[s].step], starter[s].missing)
  /\ UNCHANGED <<edits, editor, configured, touched, starts, calm>>

\* The process dies, or a step raises because the database is away.
StartDies(s) ==
  /\ "start_dies" \in SettingUpsets /\ starter[s] # Out
  /\ starter' = [starter EXCEPT ![s] = Out]
  /\ calm' = FALSE
  /\ UNCHANGED <<setting, stamp, edits, editor, ownerVars, seeded, starts>>

\* A start that has looked at the account; one that is about to write it.
Looked(s) == starter[s].step > 1 \/ starter[s].missing # {}
Ensuring(s) == starter[s].step = 1 /\ starter[s].missing # {}

\* Somebody registers with ADMIN_EMAIL, or an admin creates, promotes, demotes
\* or deletes that account (services/auth.py, services/admin.py).
OwnerChanges(standing) ==
  /\ "email" \in configured /\ standing # owner
  /\ IF owner = "none" THEN owners < MaxOwners /\ owners' = owners + 1
     ELSE UNCHANGED owners
  /\ owner' = standing
  /\ calm' = (calm /\ \A s \in Running : ~Ensuring(s))
  /\ touched' = (touched \/ Running = {} \/ \E s \in Running : Looked(s))
  /\ UNCHANGED <<setting, stamp, edits, editor, configured, seeded, starter, starts>>

SettingsNext ==
  \/ \E e \in Editors :
       \/ \E pair \in Overrides : LoadSetting(e, pair[1], pair[2])
       \/ \E kind \in {"logo", "favicon", "other"}, type \in {"image", "other"},
             size \in {"none", "some", "too_much"} : UploadAsset(e, kind, type, size)
       \/ CommitSetting(e)
  \/ \E s \in Starters : Starts(s) \/ StepReads(s) \/ StepInserts(s) \/ StartDies(s)
  \/ \E standing \in {"none", "plain", "admin"} : OwnerChanges(standing)

SettingsSpec == SettingsInit /\ [][SettingsNext]_settingVars

-----------------------------------------------------------------------------
(* Properties.                                                              *)

\* An update, which writes a whole document back (services/admin.py:2069), takes
\* away or changes only what it mentions, and what was set after it had read the
\* document: what was settled before it began stays, however deep it is nested.
SettledStays ==
  \A c \in Present : \A p \in DOMAIN setting[c] :
    (p \notin DOMAIN setting'[c] \/ setting'[c][p] # setting[c][p]) =>
      \E e \in Editors :
        /\ editor[e] # Closed /\ editor'[e] = Closed
        /\ editor[e].category = c
        /\ Touches(editor[e].over, p) \/ stamp[c][p] > editor[e].since
SettledChangesStay == [][SettledStays]_settingVars

\* However many processes start side by side, and wherever an earlier start
\* died, everything is there once none is starting: of those that collide one
\* gets through (services/admin_bootstrap.py:360, where the first refused write
\* ends a start).  Exempt are the starts a process died in, those in which an
\* admin created a category or somebody changed the account of ADMIN_EMAIL while
\* a start was about to write it, and that account itself if it was changed
\* after a start had looked at it.
StartsSeed ==
  calm /\ Running = {} /\ starts > 0 =>
    /\ touched \/ AdminMissing = {}
    /\ \A i \in 2..Len(Steps) : Wanted(Steps[i]) \subseteq There(Steps[i])
=============================================================================
