--------------------------- MODULE AccountProofs ---------------------------
(***************************************************************************)
(* Theorems about Accounts, for any number of requests, addresses, accounts *)
(* and changes.                                                             *)
(***************************************************************************)
EXTENDS Accounts, TLAPS

\* An account that is, or was until an admin deleted it.
Lived(u, n, ids, gone) == u \in 1..n /\ (u \in ids \/ \E d \in gone : d.of = u)

\* What a request holds on to at each place of its handler.
Held(q, n, ids, gone) ==
  /\ q.stage \in {"loading", "loaded", "refresh", "audit"} => q.by # 0
  /\ q.by # 0 => Lived(q.by, n, ids, gone)
  /\ \A u \in DOMAIN q.targets : Lived(u, n, ids, gone)
  /\ q.stage = "loaded" /\ q.todo.op = "delete" => q.by \notin DOMAIN q.targets
  /\ q.stage = "loading" => q.self \in Account
  /\ q.stage = "new" => q.row \in Account /\ Normal[q.row.email] = q.row.email

Holding == \A r \in Requests : Held(request[r], made, Existing, deletions)

\* Nobody deletes the account that is at work.
Others == \A d \in deletions : d.by # 0 /\ d.by # d.of

\* Rows have their addresses in normal form, and no two the same.
Distinct ==
  /\ \A u \in Existing : Normal[account[u].email] = account[u].email
  /\ \A u, v \in Existing : account[u].email = account[v].email => u = v

Inductive == AccountsTypeOK /\ Holding /\ Others /\ Distinct /\ ChangesAreAudited

-----------------------------------------------------------------------------
(* The table.                                                               *)

LEMMA TableTyped ==
  ASSUME AccountsTypeOK
  PROVE  /\ made \in Nat /\ MaxAccounts \in Nat /\ made <= MaxAccounts
         /\ Existing \subseteq 1..made /\ 1..made \subseteq Ids
         /\ account \in [Existing -> Account]
         /\ request \in [Requests -> Request]
  BY AccountAssumption DEF AccountsTypeOK, Existing, Ids

LEMMA NoTargets == <<>> \in UNION {[ids -> Account] : ids \in SUBSET Ids} /\ DOMAIN <<>> = {}
  <1>1. <<>> \in [{} -> Account] /\ DOMAIN <<>> = {}
    OBVIOUS
  <1>2. {} \in SUBSET Ids
    OBVIOUS
  <1> QED  BY <1>1, <1>2

LEMMA IdleTyped == Idle \in Request /\ DOMAIN Idle.targets = {} /\ Idle.stage = "idle" /\ Idle.by = 0
  <1>1. 0 \in 0..MaxAccounts
    BY AccountAssumption
  <1> QED  BY <1>1, NoTargets DEF Idle, Request

LEMMA NewRowTyped ==
  ASSUME NEW s \in Spellings, NEW p \in Passwords, NEW admin \in BOOLEAN
  PROVE  /\ NewRow(s, p, admin) \in Account
         /\ Normal[NewRow(s, p, admin).email] = NewRow(s, p, admin).email
  BY AccountAssumption DEF NewRow, Account

\* Accounts only go when a deletion is recorded, and ids are never used twice.
Grows ==
  /\ made' \in Nat /\ made <= made'
  /\ deletions \subseteq deletions'
  /\ \A u \in Existing \ Existing' : \E d \in deletions' : d.of = u

LEMMA HeldStays ==
  ASSUME made \in Nat, Grows, NEW q, Held(q, made, Existing, deletions)
  PROVE  Held(q, made', Existing', deletions')
  <1>1. ASSUME NEW u, Lived(u, made, Existing, deletions)
        PROVE  Lived(u, made', Existing', deletions')
    BY <1>1 DEF Lived, Grows
  <1> QED  BY <1>1 DEF Held

\* A request turns to q while the others keep what they hold.
LEMMA Turns ==
  ASSUME AccountsTypeOK, Holding, Grows, NEW r \in Requests, NEW q \in Request,
         Go(r, q), Held(q, made', Existing', deletions')
  PROVE  request' \in [Requests -> Request] /\ Holding'
  <1>1. /\ request' \in [Requests -> Request]
        /\ \A s \in Requests : request'[s] = IF s = r THEN q ELSE request[s]
    BY TableTyped DEF Go
  <1>2. ASSUME NEW s \in Requests  PROVE Held(request'[s], made', Existing', deletions')
    <2>1. CASE s = r
      BY <1>1, <2>1
    <2>2. CASE s # r
      BY <1>1, <2>2, HeldStays, TableTyped DEF Holding
    <2> QED  BY <2>1, <2>2
  <1> QED  BY <1>1, <1>2 DEF Holding

LEMMA IdleHolds == Held(Idle, made', Existing', deletions')
  BY IdleTyped DEF Held

LEMMA SameGrows ==
  ASSUME AccountsTypeOK, UNCHANGED <<account, made, deletions>>
  PROVE  Grows
  BY TableTyped DEF Grows, Existing

LEMMA SameTable ==
  ASSUME Others, Distinct, UNCHANGED <<account, deletions>>
  PROVE  Others' /\ Distinct'
  BY DEF Others, Distinct, Existing

LEMMA SameMissed ==
  ASSUME ChangesAreAudited, missed' = missed, deletions \subseteq deletions'
  PROVE  ChangesAreAudited'
  BY DEF ChangesAreAudited

\* A row is inserted where the index allows it.
LEMMA Inserted ==
  ASSUME AccountsTypeOK, Others, Distinct, NEW row \in Account,
         Normal[row.email] = row.email, Unique(row.email), Insert(row),
         UNCHANGED deletions
  PROVE  /\ made' \in 0..MaxAccounts /\ made + 1 \in Ids /\ made + 1 \in Existing'
         /\ made' = made + 1
         /\ account' \in UNION {[ids -> Account] : ids \in SUBSET (1..made')}
         /\ Grows /\ Others' /\ Distinct'
  <1>1. /\ made' = made + 1 /\ made \in Nat /\ made + 1 <= MaxAccounts /\ MaxAccounts \in Nat
        /\ Existing' = Existing \cup {made + 1}
        /\ Existing \subseteq 1..made
        /\ account' = [u \in Existing \cup {made + 1} |->
                         IF u = made + 1 THEN row ELSE account[u]]
    BY TableTyped DEF Insert, Existing
  <1>2. made + 1 \notin Existing
    BY <1>1
  <1>3. account' \in [Existing' -> Account]
    BY <1>1, TableTyped
  <1>4. Existing' \in SUBSET (1..made')
    BY <1>1
  <1>5. Distinct'
    BY <1>1, <1>2 DEF Distinct, Unique
  <1>6. Grows
    BY <1>1 DEF Grows
  <1>7. account' \in UNION {[ids -> Account] : ids \in SUBSET (1..made')}
    BY <1>3, <1>4
  <1>8. made' \in 0..MaxAccounts /\ made + 1 \in Ids /\ made + 1 \in Existing'
    BY <1>1 DEF Ids
  <1>9. Others'
    BY DEF Others
  <1> QED  BY <1>1, <1>5, <1>6, <1>7, <1>8, <1>9

\* Rows keep their address, whatever else is written in them.
LEMMA Rewritten ==
  ASSUME AccountsTypeOK, Others, Distinct, UNCHANGED <<made, deletions>>,
         account' \in [Existing -> Account],
         \A u \in Existing : account'[u].email = account[u].email
  PROVE  /\ account' \in UNION {[ids -> Account] : ids \in SUBSET (1..made')}
         /\ Grows /\ Others' /\ Distinct'
  <1>1. Existing' = Existing /\ Existing \in SUBSET (1..made')
    BY TableTyped DEF Existing
  <1>2. account' \in UNION {[ids -> Account] : ids \in SUBSET (1..made')}
    BY <1>1
  <1>3. Grows
    BY <1>1, TableTyped DEF Grows
  <1>4. Others'
    BY DEF Others
  <1>5. \A u \in Existing' : account'[u].email = account[u].email
    BY <1>1
  <1>6. ASSUME NEW u \in Existing'
        PROVE  Normal[account'[u].email] = account'[u].email
    BY <1>1, <1>5 DEF Distinct
  <1>7. ASSUME NEW u \in Existing', NEW v \in Existing',
               account'[u].email = account'[v].email
        PROVE  u = v
    BY <1>1, <1>5, <1>7 DEF Distinct
  <1>8. Distinct'
    BY <1>6, <1>7 DEF Distinct
  <1> QED  BY <1>2, <1>3, <1>4, <1>8

-----------------------------------------------------------------------------
(* The steps.                                                               *)

LEMMA StartHolds == AccountAssumption /\ AccountsInit => Inductive
  <1> SUFFICES ASSUME AccountsInit PROVE Inductive
    OBVIOUS
  <1> USE AccountAssumption DEF AccountsInit
  <1>1. Existing = {}
    BY DEF Existing
  <1>2. 0 \in 0..MaxAccounts /\ 0 \in 0..MaxChanges /\ {} \in SUBSET (1..0)
    OBVIOUS
  <1>3. account \in [{} -> Account]
    OBVIOUS
  <1>4. account \in UNION {[ids -> Account] : ids \in SUBSET (1..made)}
    BY <1>2, <1>3
  <1>5. AccountsTypeOK
    BY <1>2, <1>4, IdleTyped DEF AccountsTypeOK
  <1>6. Holding
    BY IdleTyped DEF Holding, Held
  <1> QED  BY <1>1, <1>5, <1>6 DEF Inductive, Others, Distinct, ChangesAreAudited

\* What every step but an insert and a write has in common.
LEMMA QuietStep ==
  ASSUME Inductive, UNCHANGED <<account, made, deletions, missed>>,
         tokens' \subseteq Token, changes' \in 0..MaxChanges,
         NEW r \in Requests, NEW q \in Request, Go(r, q),
         Held(q, made, Existing, deletions)
  PROVE  Inductive'
  <1>1. Grows
    BY SameGrows DEF Inductive
  <1>2. Held(q, made', Existing', deletions')
    BY HeldStays, <1>1, TableTyped DEF Inductive
  <1>3. request' \in [Requests -> Request] /\ Holding'
    BY <1>1, <1>2, Turns DEF Inductive
  <1>4. Others' /\ Distinct' /\ ChangesAreAudited'
    BY SameTable, SameMissed DEF Inductive
  <1> QED  BY <1>3, <1>4 DEF Inductive, AccountsTypeOK

LEMMA Resting ==
  Inductive => /\ Held(Idle, made, Existing, deletions)
               /\ tokens \subseteq Token /\ changes \in 0..MaxChanges
               /\ \A r \in Requests : request[r] \in Request
               /\ \A r \in Requests : Held(request[r], made, Existing, deletions)
  BY IdleTyped DEF Inductive, AccountsTypeOK, Held, Holding

LEMMA VisitorQuiet ==
  ASSUME Inductive, NEW r \in Requests, NEW s \in Spellings, NEW p \in Passwords,
         RegisterCheck(r, s, p)
  PROVE  Inductive'
  <1> DEFINE q == [Idle EXCEPT !.stage = "new", !.row = NewRow(s, p, FALSE)]
  <1>1. /\ q \in Request /\ q.by = 0 /\ DOMAIN q.targets = {} /\ q.stage = "new"
        /\ q.row = NewRow(s, p, FALSE)
    BY IdleTyped, NewRowTyped DEF Request, Idle
  <1>2. Held(q, made, Existing, deletions)
    BY <1>1, NewRowTyped DEF Held
  <1>3. Go(r, q)
    BY DEF RegisterCheck
  <1> HIDE DEF q
  <1> QED  BY <1>1, <1>2, <1>3, QuietStep, Resting DEF RegisterCheck

LEMMA Registers ==
  ASSUME Inductive, NEW r \in Requests, RegisterCommit(r)
  PROVE  Inductive'
  <1> DEFINE row == request[r].row
  <1>1. row \in Account /\ Normal[row.email] = row.email
    BY Resting DEF RegisterCommit, At, Held
  <1>2. CASE ~Unique(row.email)
    BY <1>2, QuietStep, Resting, IdleTyped DEF RegisterCommit
  <1>3. CASE Unique(row.email)
    <2> HIDE DEF row
    <2>1. Insert(row) /\ tokens' = tokens \cup TokenPair(made + 1)
      BY <1>3 DEF RegisterCommit, row
    <2>2. UNCHANGED <<deletions, missed, changes>> /\ Go(r, Idle)
      BY DEF RegisterCommit
    <2>3. /\ made' \in 0..MaxAccounts /\ made + 1 \in Ids
          /\ account' \in UNION {[ids -> Account] : ids \in SUBSET (1..made')}
          /\ Grows /\ Others' /\ Distinct'
      BY <1>1, <1>3, <2>1, <2>2, Inserted DEF Inductive
    <2>4. tokens' \subseteq Token
      BY <2>1, <2>3, Resting DEF TokenPair, Token
    <2>5. request' \in [Requests -> Request] /\ Holding'
      BY <2>2, <2>3, Turns, IdleHolds, IdleTyped DEF Inductive
    <2>6. ChangesAreAudited'
      BY <2>2, SameMissed DEF Inductive
    <2> QED  BY <2>2, <2>3, <2>4, <2>5, <2>6, Resting DEF Inductive, AccountsTypeOK
  <1> QED  BY <1>2, <1>3

\* Steps that only give out tokens, or take one away.
LEMMA TokenSteps ==
  ASSUME Inductive, tokens' \subseteq Token,
         UNCHANGED <<account, made, request, deletions, missed, changes>>
  PROVE  Inductive'
  BY DEF Inductive, AccountsTypeOK, Holding, Others, Distinct, ChangesAreAudited,
         Existing

LEMMA PairTyped == Inductive => \A u \in Existing : TokenPair(u) \subseteq Token
  BY TableTyped DEF Inductive, TokenPair, Token

LEMMA Logins ==
  ASSUME Inductive, NEW s \in Spellings, NEW p \in Passwords, Login(s, p)
  PROVE  Inductive'
  <1>1. tokens' \subseteq Token
    BY PairTyped, Resting DEF Login, WithEmail
  <1> QED  BY <1>1, TokenSteps DEF Login

LEMMA Refreshes ==
  ASSUME Inductive, NEW x \in tokens, Refresh(x) \/ Expire(x)
  PROVE  Inductive'
  <1>1. tokens' \subseteq Token
    BY PairTyped, Resting DEF Refresh, Expire
  <1> QED  BY <1>1, TokenSteps DEF Refresh, Expire

\* Copies of rows that exist are what a request may hold.
LEMMA Copies ==
  ASSUME Inductive, NEW ids \in SUBSET Existing, NEW f \in [ids -> Account]
  PROVE  /\ f \in UNION {[s -> Account] : s \in SUBSET Ids}
         /\ \A u \in DOMAIN f : Lived(u, made, Existing, deletions)
  <1>1. ids \in SUBSET Ids
    BY TableTyped DEF Inductive
  <1> QED  BY <1>1, TableTyped DEF Inductive, Lived

LEMMA Ensures ==
  ASSUME Inductive, NEW r \in Requests, EnsureAdmin(r)
  PROVE  Inductive'
  <1>1. ASSUME Go(r, [Idle EXCEPT !.stage = "new",
                                  !.row = NewRow(AdminEmail, AdminPassword, TRUE)])
        PROVE  Inductive'
    <2> DEFINE q == [Idle EXCEPT !.stage = "new",
                                 !.row = NewRow(AdminEmail, AdminPassword, TRUE)]
    <2>1. /\ NewRow(AdminEmail, AdminPassword, TRUE) \in Account
          /\ Normal[NewRow(AdminEmail, AdminPassword, TRUE).email]
               = NewRow(AdminEmail, AdminPassword, TRUE).email
      BY NewRowTyped, AccountAssumption
    <2>2. /\ q \in Request /\ q.by = 0 /\ DOMAIN q.targets = {} /\ q.stage = "new"
          /\ q.row = NewRow(AdminEmail, AdminPassword, TRUE)
      BY <2>1, IdleTyped DEF Request, Idle
    <2>3. Held(q, made, Existing, deletions)
      BY <2>1, <2>2 DEF Held
    <2> HIDE DEF q
    <2> QED  BY <1>1, <2>2, <2>3, QuietStep, Resting DEF EnsureAdmin, q
  <1>2. ASSUME NEW u \in WithEmail(AdminEmail),
               Go(r, [Idle EXCEPT !.stage = "promote",
                                  !.targets = [v \in {u} |-> account[v]]])
        PROVE  Inductive'
    <2> DEFINE f == [v \in {u} |-> account[v]]
               q == [Idle EXCEPT !.stage = "promote", !.targets = f]
    <2>1. {u} \in SUBSET Existing /\ f \in [{u} -> Account]
      BY TableTyped DEF Inductive, WithEmail
    <2>2. /\ f \in UNION {[s -> Account] : s \in SUBSET Ids}
          /\ \A v \in DOMAIN f : Lived(v, made, Existing, deletions)
      BY <2>1, Copies
    <2> HIDE DEF f
    <2>3. q \in Request /\ q.by = 0 /\ q.targets = f /\ q.stage = "promote"
      BY <2>2, IdleTyped DEF Request, Idle
    <2>4. Held(q, made, Existing, deletions)
      BY <2>2, <2>3 DEF Held
    <2>5. Go(r, q)
      BY <1>2 DEF f
    <2> HIDE DEF q
    <2> QED  BY <2>3, <2>4, <2>5, QuietStep, Resting DEF EnsureAdmin
  <1> QED  BY <1>1, <1>2 DEF EnsureAdmin

\* A write that leaves the addresses alone.
LEMMA WriteStep ==
  ASSUME Inductive, UNCHANGED <<made, tokens, deletions, missed, changes>>,
         account' \in [Existing -> Account],
         \A u \in Existing : account'[u].email = account[u].email,
         NEW r \in Requests, NEW q \in Request, Go(r, q),
         Held(q, made, Existing, deletions)
  PROVE  Inductive'
  <1>1. /\ account' \in UNION {[ids -> Account] : ids \in SUBSET (1..made')}
        /\ Grows /\ Others' /\ Distinct'
    BY Rewritten DEF Inductive
  <1>2. Held(q, made', Existing', deletions')
    BY <1>1, HeldStays, TableTyped DEF Inductive
  <1>3. request' \in [Requests -> Request] /\ Holding'
    BY <1>1, <1>2, Turns DEF Inductive
  <1>4. ChangesAreAudited'
    BY SameMissed DEF Inductive
  <1> QED  BY <1>1, <1>3, <1>4 DEF Inductive, AccountsTypeOK

LEMMA Promotes ==
  ASSUME Inductive, NEW r \in Requests, Promote(r)
  PROVE  Inductive'
  <1>1. account \in [Existing -> Account]
    BY TableTyped DEF Inductive
  <1>2. \A u \in Existing : /\ [account[u] EXCEPT !.admin = TRUE] \in Account
                            /\ [account[u] EXCEPT !.admin = TRUE].email = account[u].email
    BY <1>1 DEF Account
  <1>3. account' \in [Existing -> Account]
    BY <1>1, <1>2 DEF Promote
  <1>4. \A u \in Existing : account'[u].email = account[u].email
    BY <1>1, <1>2 DEF Promote
  <1> QED  BY <1>3, <1>4, WriteStep, Resting, IdleTyped DEF Promote

LEMMA Enters ==
  ASSUME Inductive, NEW r \in Requests, NEW x \in tokens, AdminEnters(r, x)
  PROVE  Inductive'
  <1> DEFINE q == [Idle EXCEPT !.stage = "loading", !.by = x.sub, !.self = account[x.sub]]
  <1>1. x.sub \in Existing /\ x.sub \in 1..made /\ x.sub # 0 /\ x.sub \in 0..MaxAccounts
        /\ account[x.sub] \in Account
    BY TableTyped DEF Inductive, AdminEnters, Admitted
  <1>2. /\ q \in Request /\ q.by = x.sub /\ DOMAIN q.targets = {} /\ q.stage = "loading"
        /\ q.self = account[x.sub]
    BY <1>1, IdleTyped DEF Request, Idle
  <1>3. Held(q, made, Existing, deletions)
    BY <1>1, <1>2 DEF Held, Lived
  <1>4. Go(r, q)
    BY DEF AdminEnters
  <1>5. changes' \in 0..MaxChanges
    BY AccountAssumption, Resting DEF AdminEnters
  <1> HIDE DEF q
  <1> QED  BY <1>2, <1>3, <1>4, <1>5, QuietStep, Resting DEF AdminEnters

LEMMA ChecksCreate ==
  ASSUME Inductive, NEW r \in Requests, NEW s \in Spellings, NEW p \in Passwords,
         NEW admin \in BOOLEAN, CreateCheck(r, s, p, admin)
  PROVE  Inductive'
  <1>1. CASE Go(r, Idle)
    BY <1>1, QuietStep, Resting, IdleTyped DEF CreateCheck
  <1>2. CASE Go(r, [request[r] EXCEPT !.stage = "new", !.row = NewRow(s, p, admin)])
    <2> DEFINE q == [request[r] EXCEPT !.stage = "new", !.row = NewRow(s, p, admin)]
    <2>1. /\ q \in Request /\ q.by = request[r].by /\ q.targets = request[r].targets
          /\ q.stage = "new" /\ q.row = NewRow(s, p, admin)
      BY Resting, NewRowTyped DEF Request
    <2>2. Held(q, made, Existing, deletions)
      BY <2>1, Resting, NewRowTyped DEF Held
    <2> HIDE DEF q
    <2> QED  BY <1>2, <2>1, <2>2, QuietStep, Resting DEF CreateCheck, q
  <1> QED  BY <1>1, <1>2 DEF CreateCheck

LEMMA CommitsCreate ==
  ASSUME Inductive, NEW r \in Requests, CreateCommit(r)
  PROVE  Inductive'
  <1> DEFINE row == request[r].row
  <1>1. row \in Account /\ Normal[row.email] = row.email
    BY Resting DEF CreateCommit, At, Held
  <1>2. CASE ~Unique(row.email)
    BY <1>2, QuietStep, Resting, IdleTyped DEF CreateCommit
  <1>3. CASE Unique(row.email)
    <2> DEFINE f == [u \in {made + 1} |-> row]
               q == [request[r] EXCEPT !.stage = "audit", !.targets = f]
    <2>1. Insert(row) /\ Go(r, q) /\ UNCHANGED <<tokens, deletions, missed, changes>>
          /\ request[r].by # 0
      BY <1>3 DEF CreateCommit
    <2>2. /\ made' \in 0..MaxAccounts /\ made + 1 \in Ids /\ made + 1 \in Existing'
          /\ made' = made + 1
          /\ account' \in UNION {[ids -> Account] : ids \in SUBSET (1..made')}
          /\ Grows /\ Others' /\ Distinct'
      BY <1>1, <1>3, <2>1, Inserted DEF Inductive
    <2>3. f \in [{made + 1} -> Account] /\ {made + 1} \in SUBSET Ids
          /\ DOMAIN f = {made + 1}
      BY <1>1, <2>2
    <2>4. f \in UNION {[ids -> Account] : ids \in SUBSET Ids}
      BY <2>3
    <2> HIDE DEF f, row
    <2>5. q \in Request /\ q.by = request[r].by /\ q.targets = f /\ q.stage = "audit"
      BY <2>4, Resting DEF Request
    <2>6. /\ Held(request[r], made', Existing', deletions')
          /\ Lived(made + 1, made', Existing', deletions')
      BY <2>2, HeldStays, Resting, TableTyped DEF Inductive, Lived
    <2>7. Held(q, made', Existing', deletions')
      BY <2>1, <2>3, <2>5, <2>6 DEF Held
    <2> HIDE DEF q
    <2>8. request' \in [Requests -> Request] /\ Holding'
      BY <2>1, <2>2, <2>5, <2>7, Turns DEF Inductive
    <2>9. ChangesAreAudited'
      BY <2>1, SameMissed DEF Inductive
    <2> QED  BY <2>1, <2>2, <2>8, <2>9, Resting DEF Inductive, AccountsTypeOK
  <1> QED  BY <1>2, <1>3

LEMMA Loads ==
  ASSUME Inductive, NEW r \in Requests, NEW todo \in Todos,
         NEW ids \in SUBSET (1..made), Load(r, todo, ids)
  PROVE  Inductive'
  <1> DEFINE mine == ids \cap {request[r].by}
             found == (ids \cap Existing) \cup (IF todo.bulk THEN {} ELSE mine)
             rows == [u \in found |-> IF u \in mine THEN request[r].self ELSE account[u]]
             q == [request[r] EXCEPT !.stage = "loaded", !.todo = todo, !.targets = rows]
  <1>1. CASE Go(r, Idle)
    BY <1>1, QuietStep, Resting, IdleTyped DEF Load
  <1>2. CASE Go(r, q)
    <2>1. /\ request[r].stage = "loading" /\ request[r].by # 0
          /\ Held(request[r], made, Existing, deletions)
      BY Resting DEF Load, At, Held
    <2>2. \A u \in found : Lived(u, made, Existing, deletions)
      BY <2>1, TableTyped DEF Inductive, Lived, Held
    <2>3. found \in SUBSET ids /\ found \in SUBSET Ids
      BY TableTyped DEF Inductive
    <2>4. request[r].self \in Account
      BY <2>1 DEF Held
    <2>5. rows \in [found -> Account]
      BY <2>4, TableTyped DEF Inductive
    <2>6. rows \in UNION {[s -> Account] : s \in SUBSET Ids} /\ DOMAIN rows = found
      BY <2>3, <2>5
    <2> HIDE DEF rows, found
    <2>7. /\ q \in Request /\ q.by = request[r].by /\ q.targets = rows
          /\ q.stage = "loaded" /\ q.todo = todo
      BY <2>6, Resting DEF Request
    <2>8. todo.op = "delete" => request[r].by \notin ids
      BY DEF Load, SparesItself
    <2>9. Held(q, made, Existing, deletions)
      BY <2>1, <2>2, <2>3, <2>6, <2>7, <2>8 DEF Held
    <2> HIDE DEF q
    <2> QED  BY <1>2, <2>7, <2>9, QuietStep, Resting DEF Load
  <1> QED  BY <1>1, <1>2 DEF Load

\* No update carries an address.
LEMMA PatchTyped ==
  ASSUME NEW todo \in Todos \cup {Nothing}, NEW f \in DOMAIN todo.patch, todo.op # "delete"
  PROVE  /\ f \in {"status", "admin", "password"}
         /\ f = "status" => todo.patch[f] \in {"active", "suspended"}
         /\ f = "admin" => todo.patch[f] \in BOOLEAN
         /\ f = "password" => todo.patch[f] \in Passwords
  <1>1. CASE todo.op = "none" \/ todo.op = "delete"
    BY <1>1 DEF Todos, Nothing
  <1>2. CASE todo.op \in {"suspend", "activate"}
    BY <1>2 DEF Todos, Nothing
  <1>3. CASE todo.op = "update"
    <2>1. todo.patch \in Patches
      BY <1>3 DEF Todos, Nothing
    <2> QED  BY <2>1 DEF Patches
  <1> QED  BY <1>1, <1>2, <1>3 DEF Todos, Nothing

LEMMA WritesPatch ==
  ASSUME Inductive, NEW r \in Requests, CommitPatch(r)
  PROVE  Inductive'
  <1> DEFINE todo == request[r].todo
             q == [request[r] EXCEPT !.stage = IF todo.bulk THEN "audit" ELSE "refresh"]
  <1>1. CASE ~(Written(r) \subseteq Existing)
    BY <1>1, QuietStep, Resting, IdleTyped DEF CommitPatch
  <1>2. CASE Written(r) \subseteq Existing
    <2>1. todo \in Todos \cup {Nothing} /\ todo.op # "delete"
      BY Resting DEF Request, CommitPatch
    <2>2. ASSUME NEW u \in Existing
          PROVE  account'[u] \in Account /\ account'[u].email = account[u].email
      <3>1. account[u] \in Account
        BY TableTyped DEF Inductive
      <3>2. CASE u \notin Written(r)
        BY <1>2, <3>1, <3>2 DEF CommitPatch
      <3>3. CASE u \in Written(r)
        <4>1. account'[u] = [f \in DOMAIN account[u] |->
                               IF f \in Dirty(r, u) THEN todo.patch[f] ELSE account[u][f]]
          BY <1>2, <3>3 DEF CommitPatch
        <4>2. Dirty(r, u) \subseteq DOMAIN todo.patch
          BY DEF Dirty
        <4>3. /\ DOMAIN account[u] = {"email", "password", "status", "admin"}
              /\ account[u].email \in Spellings /\ account[u].password \in Passwords
              /\ account[u].status \in {"active", "suspended"} /\ account[u].admin \in BOOLEAN
          BY <3>1 DEF Account
        <4> DEFINE a == account'[u]
        <4>4. DOMAIN a = {"email", "password", "status", "admin"}
          BY <4>1, <4>3
        <4>5. a.email = account[u].email
          BY <2>1, <4>1, <4>2, <4>3, PatchTyped
        <4>6. a.password \in Passwords
          BY <2>1, <4>1, <4>2, <4>3, PatchTyped
        <4>7. a.status \in {"active", "suspended"}
          BY <2>1, <4>1, <4>2, <4>3, PatchTyped
        <4>8. a.admin \in BOOLEAN
          BY <2>1, <4>1, <4>2, <4>3, PatchTyped
        <4>9. a = [f \in DOMAIN a |-> a[f]]
          BY <4>1
        <4> HIDE DEF a
        <4>10. a \in Account
          BY <4>3, <4>4, <4>5, <4>6, <4>7, <4>8, <4>9 DEF Account
        <4> QED  BY <4>5, <4>10 DEF a
      <3> QED  BY <3>2, <3>3
    <2>3. account' \in [Existing -> Account]
      <3>1. account' = [u \in Existing |-> account'[u]]
        BY <1>2 DEF CommitPatch
      <3> QED  BY <2>2, <3>1
    <2>4. /\ q \in Request /\ q.by = request[r].by /\ q.targets = request[r].targets
          /\ q.stage \in {"audit", "refresh"}
      BY Resting DEF Request
    <2>5. request[r].stage = "loaded"
      BY DEF CommitPatch, At
    <2>6. Held(q, made, Existing, deletions)
      BY <2>4, <2>5, Resting DEF Held
    <2>7. Go(r, q)
      BY <1>2 DEF CommitPatch
    <2> HIDE DEF q
    <2> QED  BY <2>2, <2>3, <2>4, <2>6, <2>7, WriteStep DEF CommitPatch
  <1> QED  BY <1>1, <1>2

LEMMA Deletes ==
  ASSUME Inductive, NEW r \in Requests, CommitDelete(r)
  PROVE  Inductive'
  <1> DEFINE ids == DOMAIN request[r].targets
             q == [request[r] EXCEPT !.stage = "audit"]
             new == {[by |-> request[r].by, of |-> u] : u \in Existing \cap ids}
  <1>1. /\ account' = [u \in Existing \ ids |-> account[u]]
        /\ deletions' = deletions \cup new
        /\ Go(r, q) /\ UNCHANGED <<made, tokens, missed, changes>>
    BY DEF CommitDelete
  <1>2. /\ request[r].by # 0 /\ request[r].by \notin ids
        /\ Held(request[r], made, Existing, deletions)
    BY Resting DEF CommitDelete, At, Held
  <1>3. Existing' = Existing \ ids
    BY <1>1 DEF Existing
  <1>4. \A u \in Existing \ Existing' : \E d \in deletions' : d.of = u
    <2>1. ASSUME NEW u \in Existing \ Existing'
          PROVE  \E d \in deletions' : d.of = u
      <3> DEFINE d == [by |-> request[r].by, of |-> u]
      <3>1. d \in new /\ d.of = u
        BY <1>3, <2>1
      <3> QED  BY <1>1, <3>1
    <2> QED  BY <2>1
  <1>5. Grows
    BY <1>1, <1>4, TableTyped DEF Grows, Inductive
  <1>6. Others'
    BY <1>1, <1>2 DEF Others, Inductive
  <1>7. Distinct'
    BY <1>1, <1>3 DEF Distinct, Inductive
  <1>8. account' \in UNION {[s -> Account] : s \in SUBSET (1..made')}
    <2>1. account' \in [Existing' -> Account] /\ Existing' \in SUBSET (1..made')
      BY <1>1, <1>3, TableTyped DEF Inductive
    <2> QED  BY <2>1
  <1>9. /\ q \in Request /\ q.by = request[r].by /\ q.targets = request[r].targets
        /\ q.stage = "audit"
    BY Resting DEF Request
  <1> HIDE DEF new, ids
  <1>10. Held(request[r], made', Existing', deletions')
    BY <1>2, <1>5, HeldStays, TableTyped DEF Inductive
  <1>11. Held(q, made', Existing', deletions')
    BY <1>2, <1>9, <1>10 DEF Held
  <1> HIDE DEF q
  <1>12. request' \in [Requests -> Request] /\ Holding'
    BY <1>1, <1>5, <1>9, <1>11, Turns DEF Inductive
  <1>13. ChangesAreAudited'
    BY <1>1, SameMissed DEF Inductive
  <1> QED  BY <1>1, <1>6, <1>7, <1>8, <1>12, <1>13, Resting DEF Inductive, AccountsTypeOK

\* A change that gets no record has lost its process, its author or its account.
LEMMA Misses ==
  ASSUME Inductive, NEW r \in Requests, NEW died \in BOOLEAN, Missed(r, died),
         UNCHANGED deletions, request[r].stage \in {"refresh", "audit"},
         \/ died
         \/ request[r].by \notin Existing
         \/ ~(DOMAIN request[r].targets \subseteq Existing)
  PROVE  ChangesAreAudited'
  <1> DEFINE m == [by |-> request[r].by, died |-> died, targets |-> DOMAIN request[r].targets]
  <1>1. missed' = missed \cup {m}
    BY DEF Missed
  <1>2. /\ request[r].by # 0
        /\ Lived(request[r].by, made, Existing, deletions)
        /\ \A u \in DOMAIN request[r].targets : Lived(u, made, Existing, deletions)
    BY Resting DEF Held
  <1>3. \A d \in deletions : d.by # 0 /\ d.by # d.of
    BY DEF Inductive, Others
  <1>4. \/ m.died
        \/ \E d \in deletions : d.of = m.by /\ d.by # m.by
        \/ \E d \in deletions : d.of \in m.targets /\ d.by # 0
    BY <1>2, <1>3 DEF Lived
  <1> HIDE DEF m
  <1> QED  BY <1>1, <1>4 DEF Inductive, ChangesAreAudited

LEMMA QuietMiss ==
  ASSUME Inductive, UNCHANGED <<account, made, tokens, deletions, changes>>,
         NEW r \in Requests, Go(r, Idle), ChangesAreAudited'
  PROVE  Inductive'
  <1>1. Grows
    BY SameGrows DEF Inductive
  <1>2. request' \in [Requests -> Request] /\ Holding'
    BY <1>1, IdleHolds, IdleTyped, Turns DEF Inductive
  <1>3. Others' /\ Distinct'
    BY SameTable DEF Inductive
  <1> QED  BY <1>2, <1>3 DEF Inductive, AccountsTypeOK

LEMMA Refreshed ==
  ASSUME Inductive, NEW r \in Requests, RefreshRow(r)
  PROVE  Inductive'
  <1> DEFINE q == [request[r] EXCEPT !.stage = "audit"]
  <1>1. CASE DOMAIN request[r].targets \subseteq Existing
    <2>1. /\ q \in Request /\ q.by = request[r].by /\ q.targets = request[r].targets
          /\ q.stage = "audit"
      BY Resting DEF Request
    <2>2. request[r].stage = "refresh" /\ Held(request[r], made, Existing, deletions)
      BY Resting DEF RefreshRow, At
    <2>3. Held(q, made, Existing, deletions)
      BY <2>1, <2>2 DEF Held
    <2>4. Go(r, q)
      BY <1>1 DEF RefreshRow
    <2> HIDE DEF q
    <2> QED  BY <1>1, <2>1, <2>3, <2>4, QuietStep, Resting DEF RefreshRow
  <1>2. CASE ~(DOMAIN request[r].targets \subseteq Existing)
    <2>1. Missed(r, FALSE) /\ Go(r, Idle) /\ request[r].stage = "refresh"
          /\ UNCHANGED <<account, made, tokens, deletions, changes>>
      BY <1>2 DEF RefreshRow, At
    <2>2. ChangesAreAudited'
      BY <1>2, <2>1, Misses
    <2> QED  BY <2>1, <2>2, QuietMiss
  <1> QED  BY <1>1, <1>2

LEMMA Audits ==
  ASSUME Inductive, NEW r \in Requests, Audit(r)
  PROVE  Inductive'
  <1>1. CASE request[r].by \in Existing
    BY <1>1, QuietStep, Resting, IdleTyped DEF Audit
  <1>2. CASE request[r].by \notin Existing
    <2>1. Missed(r, FALSE) /\ Go(r, Idle) /\ request[r].stage = "audit"
          /\ UNCHANGED <<account, made, tokens, deletions, changes>>
      BY <1>2 DEF Audit, At
    <2>2. ChangesAreAudited'
      BY <1>2, <2>1, Misses
    <2> QED  BY <2>1, <2>2, QuietMiss
  <1> QED  BY <1>1, <1>2

LEMMA Ends ==
  ASSUME Inductive, NEW r \in Requests, Dies(r)
  PROVE  Inductive'
  <1>1. CASE request[r].stage \in {"refresh", "audit"}
    <2>1. Missed(r, TRUE) /\ Go(r, Idle)
          /\ UNCHANGED <<account, made, tokens, deletions, changes>>
      BY <1>1 DEF Dies
    <2>2. ChangesAreAudited'
      BY <1>1, <2>1, Misses
    <2> QED  BY <2>1, <2>2, QuietMiss
  <1>2. CASE request[r].stage \notin {"refresh", "audit"}
    BY <1>2, QuietStep, Resting, IdleTyped DEF Dies
  <1> QED  BY <1>1, <1>2

LEMMA StepHolds == Inductive /\ [AccountsNext]_accountVars => Inductive'
  <1> SUFFICES ASSUME Inductive, [AccountsNext]_accountVars  PROVE Inductive'
    OBVIOUS
  <1>1. CASE VisitorStep
    <2>1. CASE \E r \in Requests, s \in Spellings, p \in Passwords : RegisterCheck(r, s, p)
      BY <2>1, VisitorQuiet
    <2>2. CASE \E r \in Requests : RegisterCommit(r)
      BY <2>2, Registers
    <2>3. CASE \E s \in Spellings, p \in Passwords : Login(s, p)
      BY <2>3, Logins
    <2>4. CASE \E x \in tokens : Refresh(x) \/ Expire(x)
      BY <2>4, Refreshes
    <2>5. CASE \E r \in Requests : EnsureAdmin(r) \/ Promote(r)
      BY <2>5, Ensures, Promotes
    <2> QED  BY <1>1, <2>1, <2>2, <2>3, <2>4, <2>5 DEF VisitorStep
  <1>2. CASE AdminStep
    <2>1. CASE \E r \in Requests, x \in tokens : AdminEnters(r, x)
      BY <2>1, Enters
    <2>2. CASE \E r \in Requests, s \in Spellings, p \in Passwords, admin \in BOOLEAN :
                 CreateCheck(r, s, p, admin)
      BY <2>2, ChecksCreate
    <2>3. CASE \E r \in Requests, todo \in Todos, ids \in SUBSET (1..made) \ {{}} :
                 Load(r, todo, ids)
      BY <2>3, Loads
    <2>4. CASE \E r \in Requests : CreateCommit(r) \/ CommitPatch(r) \/ CommitDelete(r)
      BY <2>4, CommitsCreate, WritesPatch, Deletes
    <2>5. CASE \E r \in Requests : RefreshRow(r) \/ Audit(r) \/ Dies(r)
      BY <2>5, Refreshed, Audits, Ends
    <2> QED  BY <1>2, <2>1, <2>2, <2>3, <2>4, <2>5 DEF AdminStep
  <1>3. CASE UNCHANGED accountVars
    BY <1>3 DEF accountVars, Inductive, AccountsTypeOK, Holding, Others, Distinct,
                ChangesAreAudited, Existing
  <1> QED  BY <1>1, <1>2, <1>3 DEF AccountsNext

-----------------------------------------------------------------------------
(* The theorems.                                                            *)

LEMMA AlwaysHolds == AccountsSpec => []Inductive
  BY StartHolds, StepHolds, AccountAssumption, PTL DEF AccountsSpec

\* Rows, tokens and requests stay well-formed, whatever visitors and admins do
\* at the same time: no commit writes a row from a stale copy that is not one.
THEOREM AccountsTyped == AccountsSpec => []AccountsTypeOK
  <1>1. Inductive => AccountsTypeOK
    BY DEF Inductive
  <1> QED  BY <1>1, AlwaysHolds, PTL

\* However many requests find an address free at the same time, in whatever
\* spelling, one account has it (services/auth.py:43).
THEOREM AddressesAreUnique == AccountsSpec => []OneAccountPerAddress
  <1>1. Inductive => OneAccountPerAddress
    BY DEF Inductive, Distinct, OneAccountPerAddress
  <1> QED  BY <1>1, AlwaysHolds, PTL

\* A committed change without a record in the audit log lost its process, its
\* author or its account meanwhile (services/admin.py:69, models/admin.py).
THEOREM ChangesHaveRecords == AccountsSpec => []ChangesAreAudited
  <1>1. Inductive => ChangesAreAudited
    BY DEF Inductive
  <1> QED  BY <1>1, AlwaysHolds, PTL
=============================================================================
