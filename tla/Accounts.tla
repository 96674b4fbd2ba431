------------------------------- MODULE Accounts -------------------------------
(***************************************************************************)
(* Accounts, their tokens, and what admins do to accounts: services/auth.py, *)
(* core/security.py, dependencies/auth.py and admin.py, the user part of    *)
(* services/admin.py with its endpoints and its audit log, and the admin     *)
(* account every process makes sure of when it starts                        *)
(* (services/admin_bootstrap.py).                                            *)
(*                                                                           *)
(* A handler is cut where it awaits the database: between two statements of  *)
(* one request, other requests commit.                                       *)
(***************************************************************************)
EXTENDS Naturals, FiniteSets

CONSTANTS
  Spellings,        \* what people type for an address
  Normal,           \* Normal[s]: s stripped, in lower case
  Passwords,
  Requests,         \* how many requests and starting processes there are at a time
  AdminEmail,       \* ADMIN_EMAIL, and ADMIN_PASSWORD
  AdminPassword,
  MaxAccounts,      \* bound: accounts ever created
  MaxChanges,       \* bound: changes admins make
  AccountUpsets     \* which failures may happen: {"process_dies"}

ASSUME AccountAssumption ==
  /\ Normal \in [Spellings -> Spellings]
  /\ \A s \in Spellings : Normal[Normal[s]] = Normal[s]
  /\ AdminEmail \in Spellings /\ AdminPassword \in Passwords
  /\ MaxAccounts \in Nat /\ MaxChanges \in Nat

VARIABLES
  account,    \* the rows of users, by id
  made,       \* ids are 1..made: uuids, so none is used twice
  tokens,     \* tokens that have not expired
  request,    \* what each request, or starting process, is doing
  deletions,  \* who deleted whom (history)
  missed,     \* changes without a record in the audit log (history)
  changes     \* changes begun (bound)

accountVars == <<account, made, tokens, request, deletions, missed, changes>>

Ids == 1..MaxAccounts
Account == [email: Spellings, password: Passwords,
            status: {"active", "suspended"}, admin: BOOLEAN]
Token == [sub: Ids, kind: {"access", "refresh"}]

\* The fields an update may carry; the others are None in the payload.
Patches == {[status |-> s] : s \in {"active", "suspended"}}
             \cup {[admin |-> b] : b \in BOOLEAN}
             \cup {[password |-> p] : p \in Passwords}

Todos ==
  {[op |-> "delete", patch |-> <<>>, bulk |-> b] : b \in BOOLEAN}
    \cup {[op |-> "suspend", patch |-> [status |-> "suspended"], bulk |-> b] : b \in BOOLEAN}
    \cup {[op |-> "activate", patch |-> [status |-> "active"], bulk |-> b] : b \in BOOLEAN}
    \cup {[op |-> "update", patch |-> f, bulk |-> FALSE] : f \in Patches}
Nothing == [op |-> "none", patch |-> <<>>, bulk |-> FALSE]

\* stage "loading": the admin has been let in; "new": no account has the address
\* of row; "loaded": the targets have been read; "refresh", "audit": committed.
Request == [stage: {"idle", "new", "promote", "loading", "loaded", "refresh", "audit"},
            by: 0..MaxAccounts, self: Account \cup {<<>>}, todo: Todos \cup {Nothing},
            targets: UNION {[ids -> Account] : ids \in SUBSET Ids}, row: Account \cup {<<>>}]
Idle == [stage |-> "idle", by |-> 0, self |-> <<>>, todo |-> Nothing,
         targets |-> <<>>, row |-> <<>>]

AccountsInit ==
  /\ account = <<>> /\ made = 0 /\ tokens = {}
  /\ request = [r \in Requests |-> Idle]
  /\ deletions = {} /\ missed = {} /\ changes = 0

-----------------------------------------------------------------------------
(* The table and the tokens.                                                *)

Existing == DOMAIN account

\* UserRepository.get_by_email
WithEmail(s) == {u \in Existing : Normal[account[u].email] = Normal[s]}

\* Mutant: the migration of page_visits drops the index with the constraint.
UniqueMutant(email) == TRUE

\* The unique index on users.email refuses a second row with the address.
Unique(email) == \A u \in Existing : account[u].email # email

TokenPair(u) == {[sub |-> u, kind |-> "access"], [sub |-> u, kind |-> "refresh"]}

\* The row a registration, an admin or a starting process inserts.
NewRow(s, p, admin) ==
  [email |-> Normal[s], password |-> p, status |-> "active", admin |-> admin]

Insert(row) ==
  /\ made < MaxAccounts
  /\ made' = made + 1
  /\ account' = [u \in Existing \cup {made + 1} |-> IF u = made + 1 THEN row ELSE account[u]]

At(r, stage) == request[r].stage = stage
Go(r, next) == request' = [request EXCEPT ![r] = next]

-----------------------------------------------------------------------------
(* Visitors.                                                                *)

\* register, up to its insert: the address is free
RegisterCheck(r, s, p) ==
  /\ At(r, "idle")
  /\ WithEmail(s) = {}
  /\ Go(r, [Idle EXCEPT !.stage = "new", !.row = NewRow(s, p, FALSE)])
  /\ UNCHANGED <<account, made, tokens, deletions, missed, changes>>

\* its insert: a violation of the index is a 500
RegisterCommit(r) ==
  /\ At(r, "new") /\ request[r].by = 0
  /\ IF Unique(request[r].row.email)
       THEN Insert(request[r].row) /\ tokens' = tokens \cup TokenPair(made + 1)
       ELSE UNCHANGED <<account, made, tokens>>
  /\ Go(r, Idle)
  /\ UNCHANGED <<deletions, missed, changes>>

Login(s, p) ==
  /\ \E u \in WithEmail(s) :
       /\ account[u].password = p
       /\ account[u].status # "suspended"
       /\ tokens' = tokens \cup TokenPair(u)
  /\ UNCHANGED <<account, made, request, deletions, missed, changes>>

\* refresh looks the account up, but not at its status
Refresh(t) ==
  /\ t.kind = "refresh" /\ t.sub \in Existing
  /\ tokens' = tokens \cup TokenPair(t.sub)
  /\ UNCHANGED <<account, made, request, deletions, missed, changes>>

\* The lifetime of a token is over.
Expire(t) ==
  /\ tokens' = tokens \ {t}
  /\ UNCHANGED <<account, made, request, deletions, missed, changes>>

\* A process has started and finds no account with ADMIN_EMAIL, or promotes it.
EnsureAdmin(r) ==
  /\ At(r, "idle")
  /\ IF WithEmail(AdminEmail) = {}
       THEN Go(r, [Idle EXCEPT !.stage = "new",
                               !.row = NewRow(AdminEmail, AdminPassword, TRUE)])
       ELSE \E u \in WithEmail(AdminEmail) :
              /\ ~account[u].admin
              /\ Go(r, [Idle EXCEPT !.stage = "promote", !.targets = [v \in {u} |-> account[v]]])
  /\ UNCHANGED <<account, made, tokens, deletions, missed, changes>>

\* The row may be gone by then: the start gives up (bootstrap_admin).
Promote(r) ==
  /\ At(r, "promote")
  /\ account' = [u \in Existing |-> IF u \in DOMAIN request[r].targets
                                    THEN [account[u] EXCEPT !.admin = TRUE]
                                    ELSE account[u]]
  /\ Go(r, Idle)
  /\ UNCHANGED <<made, tokens, deletions, missed, changes>>

-----------------------------------------------------------------------------
(* Admins.                                                                  *)

\* get_optional_user, get_current_user, get_current_admin
Admitted(t) ==
  /\ t.kind = "access"
  /\ t.sub \in Existing
  /\ account[t.sub].status # "suspended"
  /\ account[t.sub].admin

AdminEnters(r, t) ==
  /\ At(r, "idle") /\ changes < MaxChanges
  /\ Admitted(t)
  /\ changes' = changes + 1
  /\ Go(r, [Idle EXCEPT !.stage = "loading", !.by = t.sub, !.self = account[t.sub]])
  /\ UNCHANGED <<account, made, tokens, deletions, missed>>

\* create_user: conflicts are told apart before the insert
CreateCheck(r, s, p, admin) ==
  /\ At(r, "loading")
  /\ Go(r, IF WithEmail(s) = {}
           THEN [request[r] EXCEPT !.stage = "new", !.row = NewRow(s, p, admin)]
           ELSE Idle)
  /\ UNCHANGED <<account, made, tokens, deletions, missed, changes>>

CreateCommit(r) ==
  /\ At(r, "new") /\ request[r].by # 0
  /\ IF Unique(request[r].row.email)
       THEN /\ Insert(request[r].row)
            /\ Go(r, [request[r] EXCEPT !.stage = "audit",
                                        !.targets = [u \in {made + 1} |-> request[r].row]])
       ELSE Go(r, Idle) /\ UNCHANGED <<account, made>>
  /\ UNCHANGED <<tokens, deletions, missed, changes>>

\* Mutant: an admin may delete the account that is at work.
SparesItselfMutant(r, todo, ids) == TRUE

\* Suspending and deleting, one or many, refuse the caller's own account; an
\* update does not look whose account it is.
SparesItself(r, todo, ids) ==
  todo.op \in {"suspend", "delete"} => request[r].by \notin ids

\* The targets are read.  The session has the caller's own row already, as it
\* was when the caller was let in, and does not look whether it is still there
\* when it alone is asked for; another single target must be there, and of
\* several the missing ones are left out.
Load(r, todo, ids) ==
  /\ At(r, "loading")
  /\ todo.bulk \/ Cardinality(ids) = 1
  /\ SparesItself(r, todo, ids)
  /\ LET mine  == ids \cap {request[r].by}
         found == (ids \cap Existing) \cup (IF todo.bulk THEN {} ELSE mine)
         rows  == [u \in found |-> IF u \in mine THEN request[r].self ELSE account[u]]
     IN Go(r, IF found = {} /\ ~todo.bulk
              THEN Idle
              ELSE [request[r] EXCEPT !.stage = "loaded", !.todo = todo, !.targets = rows])
  /\ UNCHANGED <<account, made, tokens, deletions, missed, changes>>

\* What an UPDATE sets: the fields that differ from what was read, and a new
\* password, whose hash always differs.
Dirty(r, u) ==
  LET todo == request[r].todo
  IN {f \in DOMAIN todo.patch :
        f = "password" \/ todo.patch[f] # request[r].targets[u][f]}

\* The rows a request writes; one that is gone fails the whole flush.
Written(r) == {u \in DOMAIN request[r].targets : Dirty(r, u) # {}}

CommitPatch(r) ==
  /\ At(r, "loaded") /\ request[r].todo.op # "delete"
  /\ IF Written(r) \subseteq Existing
       THEN /\ account' = [u \in Existing |->
                             IF u \in Written(r)
                             THEN [f \in DOMAIN account[u] |->
                                     IF f \in Dirty(r, u) THEN request[r].todo.patch[f]
                                                          ELSE account[u][f]]
                             ELSE account[u]]
            /\ Go(r, [request[r] EXCEPT !.stage = IF request[r].todo.bulk THEN "audit"
                                                                         ELSE "refresh"])
       ELSE Go(r, Idle) /\ UNCHANGED account
  /\ UNCHANGED <<made, tokens, deletions, missed, changes>>

\* Rows that are gone already are no error to a DELETE.  Files, jobs, feedback
\* and the audit log keep their rows without the account (ON DELETE SET NULL).
CommitDelete(r) ==
  /\ At(r, "loaded") /\ request[r].todo.op = "delete"
  /\ LET ids == DOMAIN request[r].targets
     IN /\ account' = [u \in Existing \ ids |-> account[u]]
        /\ deletions' = deletions \cup {[by |-> request[r].by, of |-> u] :
                                          u \in Existing \cap ids}
  /\ Go(r, [request[r] EXCEPT !.stage = "audit"])
  /\ UNCHANGED <<made, tokens, missed, changes>>

\* A change of r is in the table and will not be in the log.
Missed(r, died) == missed' = missed \cup {[by |-> request[r].by, died |-> died,
                                           targets |-> DOMAIN request[r].targets]}

\* session.refresh after the commit of one account: its row may be gone.
RefreshRow(r) ==
  /\ At(r, "refresh")
  /\ IF DOMAIN request[r].targets \subseteq Existing
       THEN Go(r, [request[r] EXCEPT !.stage = "audit"]) /\ UNCHANGED missed
       ELSE Go(r, Idle) /\ Missed(r, FALSE)
  /\ UNCHANGED <<account, made, tokens, deletions, changes>>

\* The record of the change, in a transaction of its own, refers to its author.
Audit(r) ==
  /\ At(r, "audit")
  /\ IF request[r].by \in Existing THEN UNCHANGED missed ELSE Missed(r, FALSE)
  /\ Go(r, Idle)
  /\ UNCHANGED <<account, made, tokens, deletions, changes>>

\* The process that serves r dies.
Dies(r) ==
  /\ "process_dies" \in AccountUpsets
  /\ ~At(r, "idle")
  /\ IF request[r].stage \in {"refresh", "audit"} THEN Missed(r, TRUE)
                                                  ELSE UNCHANGED missed
  /\ Go(r, Idle)
  /\ UNCHANGED <<account, made, tokens, deletions, changes>>

VisitorStep ==
  \/ \E r \in Requests, s \in Spellings, p \in Passwords : RegisterCheck(r, s, p)
  \/ \E r \in Requests : RegisterCommit(r)
  \/ \E s \in Spellings, p \in Passwords : Login(s, p)
  \/ \E t \in tokens : Refresh(t) \/ Expire(t)
  \/ \E r \in Requests : EnsureAdmin(r) \/ Promote(r)

AdminStep ==
  \/ \E r \in Requests, t \in tokens : AdminEnters(r, t)
  \/ \E r \in Requests, s \in Spellings, p \in Passwords, admin \in BOOLEAN :
       CreateCheck(r, s, p, admin)
  \/ \E r \in Requests, todo \in Todos, ids \in SUBSET (1..made) \ {{}} :
       Load(r, todo, ids)
  \/ \E r \in Requests : \/ CreateCommit(r) \/ CommitPatch(r) \/ CommitDelete(r)
                         \/ RefreshRow(r) \/ Audit(r) \/ Dies(r)

AccountsNext == VisitorStep \/ AdminStep

AccountsSpec == AccountsInit /\ [][AccountsNext]_accountVars

-----------------------------------------------------------------------------
(* Properties.                                                              *)

\* Rows, tokens and requests are well-formed, and no id is above those given out.
AccountsTypeOK ==
  /\ made \in 0..MaxAccounts /\ changes \in 0..MaxChanges
  /\ account \in UNION {[ids -> Account] : ids \in SUBSET (1..made)}
  /\ tokens \subseteq Token
  /\ request \in [Requests -> Request]

\* An address, however it is typed, has one account, whoever registers it,
\* creates it or starts with it at the same time (services/auth.py:43): sign-in
\* fails for everybody of whom there are two (scalar_one_or_none).
OneAccountPerAddress ==
  \A u, v \in Existing : Normal[account[u].email] = Normal[account[v].email] => u = v

\* "An immutable record of an admin action" (models/admin.py): a change that
\* was committed is in the audit log, unless its process died, another admin
\* deleted its author meanwhile, or the account it was about was deleted.
ChangesAreAudited ==
  \A m \in missed :
    \/ m.died
    \/ \E d \in deletions : d.of = m.by /\ d.by # m.by
    \/ \E d \in deletions : d.of \in m.targets /\ d.by # 0
=============================================================================
