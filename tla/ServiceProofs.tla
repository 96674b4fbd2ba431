----------------------------- MODULE ServiceProofs -----------------------------
(***************************************************************************)
(* What is proved of the limits, the settings, the content of the site and  *)
(* the error log.                                                            *)
(* Each part has an invariant, which is inductive, and what it implies.      *)
(*                                                                           *)
(*   LimitsInvariant    a counter lives while requests of its minute come    *)
(*   ContentInvariant   no handler under way takes a time away               *)
(*   SettingsInvariant  some start will see to every step that is not done,  *)
(*                      and an update knows what has not changed since       *)
(*   ErrorsInvariant    what rows, captures and losses count adds up          *)
(***************************************************************************)
EXTENDS Limits, Settings, Content, ErrorLog, Inductions

(* The limiter.                                                             *)

\* A request under way.
Underway == [stage: {"arrived", "counted", "passed", "counting", "checked"},
             key: Keys, post: Posts \cup {[form |-> "none"]}, since: 0..MaxTicks,
             at: 0..MaxTicks, known: SUBSET Nat]
Counter == [count: Nat \ {0}, until: Nat]

LimitsTyped ==
  /\ now \in 0..MaxTicks /\ numbered \in Nat
  /\ DOMAIN submitted \subseteq 1..numbered
  /\ sender \in [Senders -> {Away} \cup Underway]
  /\ passes \in [Keys -> Nat]
  /\ counter = [k \in DOMAIN counter |-> counter[k]]
  /\ \A k \in DOMAIN counter : counter[k] \in Counter

\* A request waits for Redis at most into the next tick.
Fresh ==
  \A s \in Senders : (Is(s, "arrived") \/ Is(s, "counted")) =>
    /\ sender[s].since <= now /\ now <= sender[s].since + 1
    /\ sender[s].key.window = sender[s].since \div 2
    /\ LimitPerMinute[sender[s].key.bucket] > 0

CountedOn(s, k) == Is(s, "counted") /\ sender[s].key = k
Count(k) == IF k \in DOMAIN counter THEN counter[k].count ELSE 0

\* Who is between the two calls was the first of its key.
OneFirst == \A s, u \in Senders : \A k \in Keys : CountedOn(s, k) /\ CountedOn(u, k) => s = u

\* While requests of a key may still come, its counter is there and covers them.
Metered ==
  \A k \in Keys :
    /\ k \in DOMAIN counter => counter[k].until >= 2 * k.window + 3
    /\ now <= 2 * k.window + 2 =>
         /\ passes[k] <= Count(k)
         /\ \A s \in Senders : CountedOn(s, k) => passes[k] + 1 <= Count(k)
    /\ LimitPerMinute[k.bucket] > 0 =>
         /\ passes[k] <= LimitPerMinute[k.bucket]
         /\ \A s \in Senders : CountedOn(s, k) => passes[k] + 1 <= LimitPerMinute[k.bucket]

\* The recent submissions among those known to a submission.
Before(known, rows, mailbox, caller, at) ==
  {j \in known \cap DOMAIN rows :
     /\ rows[j].at >= at - Day
     /\ \/ rows[j].mailbox = mailbox
        \/ caller # NoCaller /\ rows[j].caller = caller}
Few(known, rows, mailbox, caller, at) ==
  MaxPerDay > 0 => Cardinality(Before(known, rows, mailbox, caller, at)) < MaxPerDay

Spaced ==
  /\ \A s \in Senders :
       /\ sender[s] # Away => sender[s].known \subseteq 1..numbered
       /\ Is(s, "checked") =>
            Few(sender[s].known, submitted, Canonical[sender[s].post.mailbox],
                sender[s].key.caller, sender[s].at)
  /\ \A i \in DOMAIN submitted :
       /\ submitted[i].known \subseteq 1..numbered
       /\ Few(submitted[i].known, submitted, submitted[i].mailbox, submitted[i].caller,
              submitted[i].at)

LimitsInvariant == LimitsTyped /\ Fresh /\ OneFirst /\ Metered /\ Spaced

LEMMA LimitsStart == LimitsInit => LimitsInvariant
  <1> SUFFICES ASSUME LimitsInit PROVE LimitsInvariant
    OBVIOUS
  <1>1. now = 0 /\ numbered = 0 /\ counter = <<>> /\ submitted = <<>> /\ MaxTicks \in Nat
    BY LimitAssumption DEF LimitsInit
  <1>2. DOMAIN counter = {} /\ DOMAIN submitted = {}
    BY <1>1
  <1>3. \A s \in Senders : sender[s] = Away /\ Away.stage = "away"
    BY DEF LimitsInit, Away
  <1>4. LimitsTyped
    BY <1>1, <1>2 DEF LimitsInit, LimitsTyped
  <1>5. Fresh /\ OneFirst
    BY <1>3 DEF Fresh, OneFirst, CountedOn, Is
  <1>6. Metered
    <2>1. \A k \in Keys : passes[k] = 0
      BY DEF LimitsInit
    <2> QED  BY <1>2, <1>3, <2>1, LimitAssumption DEF Metered, CountedOn, Count, Is, Keys
  <1>7. Spaced
    BY <1>2, <1>3 DEF Spaced, Is
  <1> QED  BY <1>4, <1>5, <1>6, <1>7 DEF LimitsInvariant

\* Deletions and what was stored since do not make known submissions more.
LEMMA FewStays ==
  ASSUME NEW n \in Nat, NEW known \in SUBSET (1..n), NEW a, NEW b, NEW mailbox, NEW caller, NEW at,
         \A j \in known : j \in DOMAIN b => j \in DOMAIN a /\ b[j] = a[j],
         Few(known, a, mailbox, caller, at), MaxPerDay \in Int
  PROVE  Few(known, b, mailbox, caller, at)
  <1> SUFFICES ASSUME MaxPerDay > 0
               PROVE  Cardinality(Before(known, b, mailbox, caller, at)) < MaxPerDay
    BY DEF Few
  <1>1. Before(known, b, mailbox, caller, at) \subseteq Before(known, a, mailbox, caller, at)
    BY DEF Before
  <1>2. IsFiniteSet(1..n) /\ Before(known, a, mailbox, caller, at) \subseteq 1..n
    <2>1. IsFiniteSet(1..n)
      <3>1. 1 \in Int /\ n \in Int
        OBVIOUS
      <3> QED  BY <3>1, FS_Interval
    <2>2. Before(known, a, mailbox, caller, at) \subseteq known
      BY DEF Before
    <2> QED  BY <2>1, <2>2
  <1>3. IsFiniteSet(Before(known, a, mailbox, caller, at))
    BY <1>2, FS_Subset
  <1>4. /\ Cardinality(Before(known, b, mailbox, caller, at))
             <= Cardinality(Before(known, a, mailbox, caller, at))
        /\ IsFiniteSet(Before(known, b, mailbox, caller, at))
    BY <1>1, <1>3, FS_Subset
  <1>5. /\ Cardinality(Before(known, a, mailbox, caller, at)) \in Nat
        /\ Cardinality(Before(known, b, mailbox, caller, at)) \in Nat
    BY <1>3, <1>4, FS_CardinalityType
  <1> QED  BY <1>4, <1>5 DEF Few

\* A request that Redis has yet to answer is one of a minute still counted.
LEMMA FreshIsLive ==
  ASSUME LimitsInvariant, NEW s \in Senders, Is(s, "arrived") \/ Is(s, "counted")
  PROVE  /\ sender[s] \in Underway /\ sender[s].key \in Keys
         /\ now <= 2 * sender[s].key.window + 2 /\ now >= 2 * sender[s].key.window
         /\ now \in 0..MaxTicks /\ MaxTicks \in Nat
         /\ sender[s].key.window \in Nat /\ 2 * sender[s].key.window + 3 <= Forever
         /\ LimitPerMinute[sender[s].key.bucket] \in Nat \ {0}
  <1>1. sender[s] \in {Away} \cup Underway
    BY DEF LimitsInvariant, LimitsTyped
  <1>2. sender[s] # Away
    BY DEF Is, Away
  <1>3. sender[s] \in Underway /\ sender[s].key \in Keys /\ sender[s].since \in 0..MaxTicks
    BY <1>1, <1>2 DEF Underway
  <1>4. sender[s].key.bucket \in Buckets /\ sender[s].key.window \in Windows
    BY <1>3 DEF Keys
  <1>5. MaxTicks \in Nat /\ LimitPerMinute[sender[s].key.bucket] \in Int
    BY <1>4, LimitAssumption
  <1>6. /\ sender[s].since <= now /\ now <= sender[s].since + 1
        /\ sender[s].key.window = sender[s].since \div 2
        /\ LimitPerMinute[sender[s].key.bucket] > 0 /\ now \in 0..MaxTicks
    BY DEF LimitsInvariant, Fresh, LimitsTyped
  <1>7. ASSUME NEW since \in 0..MaxTicks, NEW w, w = since \div 2
        PROVE  w \in Nat /\ 2 * w <= since /\ since <= 2 * w + 1
    BY <1>5, <1>7
  <1>8. sender[s].key.window \in Nat /\ 2 * sender[s].key.window <= sender[s].since
        /\ sender[s].since <= 2 * sender[s].key.window + 1
    BY <1>3, <1>6, <1>7
  <1> QED  BY <1>3, <1>5, <1>6, <1>8 DEF Forever

\* A request turns to something else; the limiter's numbers stay.
LEMMA SenderMoves ==
  ASSUME LimitsInvariant, NEW s \in Senders, NEW r \in {Away} \cup Underway,
         sender' = [sender EXCEPT ![s] = r],
         UNCHANGED <<now, counter, passes, submitted, numbered>>,
         r.stage # "counted",
         r.stage = "arrived" => /\ r.since = now /\ r.key.window = now \div 2
                                /\ LimitPerMinute[r.key.bucket] > 0,
         r # Away => r.known \subseteq 1..numbered,
         r.stage = "checked" => Few(r.known, submitted, Canonical[r.post.mailbox],
                                    r.key.caller, r.at)
  PROVE  LimitsInvariant'
  <1>1. /\ sender \in [Senders -> {Away} \cup Underway] /\ now \in Nat
        /\ sender'[s] = r /\ \A u \in Senders : u # s => sender'[u] = sender[u]
    BY LimitAssumption DEF LimitsInvariant, LimitsTyped
  <1>2. LimitsTyped'
    BY <1>1 DEF LimitsInvariant, LimitsTyped
  <1>3. Fresh'
    BY <1>1 DEF LimitsInvariant, Fresh, Is
  <1>4. \A u \in Senders : \A k : CountedOn(u, k)' => CountedOn(u, k)
    BY <1>1 DEF CountedOn, Is
  <1>5. OneFirst'
    BY <1>4 DEF LimitsInvariant, OneFirst
  <1>6. Metered'
    BY <1>4 DEF LimitsInvariant, Metered, Count
  <1>7. Spaced'
    BY <1>1 DEF LimitsInvariant, Spaced, Is
  <1> QED  BY <1>2, <1>3, <1>5, <1>6, <1>7 DEF LimitsInvariant

LEMMA StageChanges ==
  ASSUME NEW r \in Underway,
         NEW stage \in {"arrived", "counted", "passed", "counting", "checked"}
  PROVE  /\ [r EXCEPT !.stage = stage] \in Underway
         /\ [r EXCEPT !.stage = stage].stage = stage
         /\ [r EXCEPT !.stage = stage].known = r.known
         /\ [r EXCEPT !.stage = stage].since = r.since
         /\ [r EXCEPT !.stage = stage].key = r.key
         /\ [r EXCEPT !.stage = stage] # Away
  BY DEF Underway, Away

LEMMA SenderAt ==
  ASSUME LimitsInvariant, NEW s \in Senders, sender[s].stage # "away"
  PROVE  /\ sender[s] \in Underway /\ sender[s].known \subseteq 1..numbered /\ sender[s] # Away
         /\ now \in 0..MaxTicks
  <1>1. sender[s] \in {Away} \cup Underway /\ sender[s] # Away
    BY DEF LimitsInvariant, LimitsTyped, Away
  <1> QED  BY <1>1 DEF LimitsInvariant, LimitsTyped, Spaced

LEMMA Arrives ==
  ASSUME LimitsInvariant, NEW s \in Senders, NEW bucket \in Buckets, NEW caller \in Callers,
         NEW post \in Posts \cup {[form |-> "none"]}, Arrive(s, bucket, caller, post)
  PROVE  LimitsInvariant'
  <1>1. PICK r : r = [stage |-> IF LimitPerMinute[bucket] <= 0 THEN "passed" ELSE "arrived",
                      key |-> [bucket |-> bucket, caller |-> caller,
                               window |-> now \div MinuteTicks],
                      post |-> post, since |-> now, at |-> 0, known |-> DOMAIN submitted]
    OBVIOUS
  <1>2. now \in 0..MaxTicks /\ MaxTicks \in Nat /\ DOMAIN submitted \subseteq 1..numbered
        /\ numbered \in Nat
    BY LimitAssumption DEF LimitsInvariant, LimitsTyped
  <1>3. now \div 2 \in Windows
    BY <1>2 DEF Windows, MinuteTicks
  <1>4. [bucket |-> bucket, caller |-> caller, window |-> now \div MinuteTicks] \in Keys
    BY <1>3 DEF Keys, MinuteTicks
  <1>5. r \in Underway /\ r # Away
    <2>1. DOMAIN submitted \in SUBSET Nat /\ 0 \in 0..MaxTicks
      BY <1>2
    <2>2. r.stage \in {"passed", "arrived"}
      BY <1>1
    <2>3. r \in Underway
      BY <1>1, <1>2, <1>4, <2>1 DEF Underway
    <2> QED  BY <2>2, <2>3 DEF Away
  <1>6. LimitPerMinute[bucket] \in Int
    BY LimitAssumption
  <1>7. /\ r.stage = "arrived" => /\ r.since = now /\ r.key.window = now \div 2
                                  /\ LimitPerMinute[r.key.bucket] > 0
        /\ r.stage \notin {"counted", "checked"} /\ r.known \subseteq 1..numbered
    BY <1>1, <1>2, <1>6 DEF MinuteTicks
  <1>8. /\ sender' = [sender EXCEPT ![s] = r]
        /\ UNCHANGED <<now, counter, passes, submitted, numbered>>
    BY <1>1 DEF Arrive, Becomes
  <1> QED  BY <1>5, <1>7, <1>8, SenderMoves

LEMMA Answered ==
  ASSUME LimitsInvariant, NEW s \in Senders,
         FailOpen(s) \/ UploadGoesOn(s) \/ CheckForm(s) \/ RequestDies(s)
  PROVE  LimitsInvariant'
  <1>1. sender[s].stage # "away" /\ UNCHANGED <<now, counter, passes, submitted, numbered>>
    BY DEF FailOpen, UploadGoesOn, CheckForm, RequestDies, Is
  <1>2. PICK r \in {Away, [sender[s] EXCEPT !.stage = "passed"],
                    [sender[s] EXCEPT !.stage = "counting"]} : sender' = [sender EXCEPT ![s] = r]
    BY DEF FailOpen, UploadGoesOn, CheckForm, RequestDies, Becomes
  <1>3. CASE r = Away
    BY <1>1, <1>2, <1>3, SenderMoves DEF Away
  <1>4. ASSUME NEW stage \in {"passed", "counting"}, r = [sender[s] EXCEPT !.stage = stage]
        PROVE  LimitsInvariant'
    <2>1. sender[s] \in Underway /\ sender[s].known \subseteq 1..numbered
      BY <1>1, SenderAt
    <2>2. PICK old \in Underway : old = sender[s]
      BY <2>1
    <2>3. stage \in {"arrived", "counted", "passed", "counting", "checked"}
      OBVIOUS
    <2>4. r = [old EXCEPT !.stage = stage]
      BY <1>4, <2>2
    <2>5. r \in Underway /\ r.stage = stage /\ r.known = old.known
      BY <2>3, <2>4, StageChanges
    <2>6. /\ r.stage \notin {"counted", "arrived", "checked"}
          /\ r.known \subseteq 1..numbered /\ r \in {Away} \cup Underway
      BY <1>4, <2>1, <2>2, <2>5
    <2> QED  BY <1>1, <1>2, <2>6, SenderMoves
  <1> QED  BY <1>2, <1>3, <1>4

\* The submission's count of the recent ones.
LEMMA Counts ==
  ASSUME LimitsInvariant, NEW s \in Senders, CountRecent(s)
  PROVE  LimitsInvariant'
  <1>1. Is(s, "counting") /\ UNCHANGED <<now, counter, passes, submitted, numbered>>
    BY DEF CountRecent
  <1>2. /\ sender[s] \in Underway /\ sender[s].known \subseteq 1..numbered
        /\ now \in 0..MaxTicks /\ numbered \in Nat /\ DOMAIN submitted \subseteq 1..numbered
        /\ MaxPerDay \in Int
    BY <1>1, SenderAt, LimitAssumption DEF Is, LimitsInvariant, LimitsTyped
  <1>3. CASE sender' = [sender EXCEPT ![s] = Away]
    <2>1. Away.stage = "away" /\ Away \in {Away} \cup Underway
      BY DEF Away
    <2>2. Away.stage \notin {"counted", "arrived", "checked"}
      BY <2>1
    <2> QED  BY <1>1, <1>3, <2>1, <2>2, SenderMoves
  <1>4. CASE /\ sender' = [sender EXCEPT ![s] = [sender[s] EXCEPT !.stage = "checked", !.at = now]]
             /\ ~(/\ MaxPerDay > 0
                  /\ Cardinality(Recent(sender[s].post.mailbox, sender[s].key.caller,
                                        DOMAIN submitted)) >= MaxPerDay)
    <2>1. PICK r : r = [sender[s] EXCEPT !.stage = "checked", !.at = now]
      OBVIOUS
    <2>2. /\ r \in Underway /\ r.stage = "checked" /\ r.known = sender[s].known
          /\ r.at = now /\ r.post = sender[s].post /\ r.key = sender[s].key
      BY <1>2, <2>1 DEF Underway
    <2>3. Recent(sender[s].post.mailbox, sender[s].key.caller, DOMAIN submitted) =
            Before(DOMAIN submitted, submitted, Canonical[r.post.mailbox], r.key.caller, r.at)
      BY <2>2 DEF Recent, Before, SameSubmitter
    <2>4. IsFiniteSet(1..numbered)
          /\ Before(DOMAIN submitted, submitted, Canonical[r.post.mailbox], r.key.caller, r.at)
               \subseteq 1..numbered
      <3>1. 1 \in Int /\ numbered \in Int
        BY <1>2
      <3>2. IsFiniteSet(1..numbered)
        BY <3>1, FS_Interval
      <3>3. Before(DOMAIN submitted, submitted, Canonical[r.post.mailbox], r.key.caller, r.at)
              \subseteq DOMAIN submitted
        BY DEF Before
      <3> QED  BY <1>2, <3>2, <3>3
    <2>5. IsFiniteSet(Before(DOMAIN submitted, submitted, Canonical[r.post.mailbox],
                             r.key.caller, r.at))
      BY <2>4, FS_Subset
    <2>6. Cardinality(Before(DOMAIN submitted, submitted, Canonical[r.post.mailbox],
                             r.key.caller, r.at)) \in Nat
      BY <2>5, FS_CardinalityType
    <2>7. /\ Before(r.known, submitted, Canonical[r.post.mailbox], r.key.caller, r.at)
               \subseteq Before(DOMAIN submitted, submitted, Canonical[r.post.mailbox],
                                r.key.caller, r.at)
      BY DEF Before
    <2>8. /\ IsFiniteSet(Before(r.known, submitted, Canonical[r.post.mailbox], r.key.caller, r.at))
          /\ Cardinality(Before(r.known, submitted, Canonical[r.post.mailbox], r.key.caller, r.at))
               <= Cardinality(Before(DOMAIN submitted, submitted, Canonical[r.post.mailbox],
                                     r.key.caller, r.at))
      BY <2>5, <2>7, FS_Subset
    <2>9. Cardinality(Before(r.known, submitted, Canonical[r.post.mailbox], r.key.caller, r.at))
            \in Nat
      BY <2>8, FS_CardinalityType
    <2>10. Few(r.known, submitted, Canonical[r.post.mailbox], r.key.caller, r.at)
      BY <1>2, <1>4, <2>3, <2>6, <2>8, <2>9 DEF Few
    <2> QED  BY <1>1, <1>2, <1>4, <2>1, <2>2, <2>10, SenderMoves
  <1> QED  BY <1>3, <1>4 DEF CountRecent, Becomes

\* A submission is stored or deleted.
LEMMA RowsMove ==
  ASSUME LimitsInvariant,
         (\E s \in Senders : Store(s)) \/ \E i \in DOMAIN submitted : DeleteFeedback(i)
  PROVE  LimitsInvariant'
  <1>1. /\ numbered \in Nat /\ DOMAIN submitted \subseteq 1..numbered /\ MaxPerDay \in Int
        /\ sender \in [Senders -> {Away} \cup Underway] /\ now \in Nat /\ numbered + 1 \in Nat
    BY LimitAssumption DEF LimitsInvariant, LimitsTyped
  <1>2. CASE \E i \in DOMAIN submitted : DeleteFeedback(i)
    <2>1. PICK i \in DOMAIN submitted : DeleteFeedback(i)
      BY <1>2
    <2>2. /\ UNCHANGED <<now, counter, sender, numbered, passes>>
          /\ DOMAIN submitted' = DOMAIN submitted \ {i}
          /\ \A j \in DOMAIN submitted' : submitted'[j] = submitted[j]
      BY <2>1 DEF DeleteFeedback
    <2>3. LimitsTyped'
      BY <1>1, <2>2 DEF LimitsInvariant, LimitsTyped
    <2>4. Fresh' /\ OneFirst' /\ Metered'
      BY <2>2 DEF LimitsInvariant, Fresh, OneFirst, Metered, CountedOn, Count, Is
    <2>5. Spaced'
      <3>1. PICK rows : rows = submitted'
        OBVIOUS
      <3>2. ASSUME NEW known \in SUBSET (1..numbered), NEW mailbox, NEW caller, NEW at,
                   Few(known, submitted, mailbox, caller, at)
            PROVE  Few(known, rows, mailbox, caller, at)
        BY <1>1, <2>2, <3>1, <3>2, FewStays
      <3>3. ASSUME NEW u \in Senders
            PROVE  /\ sender[u] # Away => sender[u].known \subseteq 1..numbered
                   /\ sender[u].stage = "checked" =>
                        Few(sender[u].known, rows, Canonical[sender[u].post.mailbox],
                            sender[u].key.caller, sender[u].at)
        <4>1. sender[u].stage = "checked" => sender[u] # Away
          BY DEF Away
        <4> QED  BY <3>2, <4>1 DEF LimitsInvariant, Spaced, Is
      <3>4. ASSUME NEW j \in DOMAIN rows
            PROVE  /\ rows[j].known \subseteq 1..numbered
                   /\ Few(rows[j].known, rows, rows[j].mailbox, rows[j].caller, rows[j].at)
        <4>1. j \in DOMAIN submitted /\ rows[j] = submitted[j]
          BY <2>2, <3>1
        <4> QED  BY <3>2, <4>1 DEF LimitsInvariant, Spaced
      <3> QED  BY <2>2, <3>1, <3>3, <3>4 DEF Spaced, Is
    <2> QED  BY <2>3, <2>4, <2>5 DEF LimitsInvariant
  <1>3. CASE \E s \in Senders : Store(s)
    <2>1. PICK s \in Senders : Store(s)
      BY <1>3
    <2>2. /\ Is(s, "checked") /\ UNCHANGED <<now, counter, passes>> /\ numbered' = numbered + 1
          /\ sender' = [sender EXCEPT ![s] = Away]
      BY <2>1 DEF Store, Becomes
    <2>3. PICK row : row = [mailbox |-> Canonical[sender[s].post.mailbox],
                            caller |-> sender[s].key.caller, at |-> sender[s].at,
                            known |-> sender[s].known]
      OBVIOUS
    <2>4. PICK rows : rows = [i \in DOMAIN submitted \cup {numbered + 1} |->
                                IF i = numbered + 1 THEN row ELSE submitted[i]]
      OBVIOUS
    <2>5. submitted' = rows
      BY <2>1, <2>3, <2>4 DEF Store
    <2>6. /\ DOMAIN rows = DOMAIN submitted \cup {numbered + 1} /\ rows[numbered + 1] = row
          /\ \A i \in DOMAIN submitted : rows[i] = submitted[i] /\ i # numbered + 1
      BY <1>1, <2>4
    <2>7. /\ sender[s].known \subseteq 1..numbered
          /\ Few(sender[s].known, submitted, Canonical[sender[s].post.mailbox],
                 sender[s].key.caller, sender[s].at)
      BY <2>2, SenderAt DEF Is, LimitsInvariant, Spaced
    <2>8. ASSUME NEW known \in SUBSET (1..numbered), NEW mailbox, NEW caller, NEW at,
                 Few(known, submitted, mailbox, caller, at)
          PROVE  Few(known, rows, mailbox, caller, at)
      <3>1. \A j \in known : j # numbered + 1
        BY <1>1
      <3>2. \A j \in known : j \in DOMAIN rows => j \in DOMAIN submitted /\ rows[j] = submitted[j]
        BY <2>6, <3>1
      <3> QED  BY <1>1, <2>8, <3>2, FewStays
    <2>9. 1..numbered \subseteq 1..numbered' /\ numbered' \in Nat
      BY <1>1, <2>2
    <2>10. Away.stage = "away" /\ sender'[s] = Away
           /\ \A u \in Senders : u # s => sender'[u] = sender[u]
      BY <1>1, <2>2 DEF Away
    <2>11. LimitsTyped'
      <3>1. DOMAIN submitted' \subseteq 1..numbered'
        BY <1>1, <2>2, <2>5, <2>6
      <3> QED  BY <1>1, <2>2, <2>9, <3>1 DEF LimitsInvariant, LimitsTyped
    <2>12. Fresh' /\ OneFirst' /\ Metered'
      <3>1. \A u \in Senders : \A k : CountedOn(u, k)' => CountedOn(u, k)
        BY <2>10 DEF CountedOn, Is
      <3>2. Fresh'
        BY <2>2, <2>10 DEF LimitsInvariant, Fresh, Is
      <3> QED  BY <2>2, <3>1, <3>2 DEF LimitsInvariant, OneFirst, Metered, Count
    <2>13. Spaced'
      <3>1. \A u \in Senders :
              /\ sender'[u] # Away => sender'[u].known \subseteq 1..numbered'
              /\ sender'[u].stage = "checked" =>
                   Few(sender'[u].known, rows, Canonical[sender'[u].post.mailbox],
                       sender'[u].key.caller, sender'[u].at)
        <4> SUFFICES ASSUME NEW u \in Senders, u # s
                     PROVE  /\ sender[u] # Away => sender[u].known \subseteq 1..numbered'
                            /\ sender[u].stage = "checked" =>
                                 Few(sender[u].known, rows, Canonical[sender[u].post.mailbox],
                                     sender[u].key.caller, sender[u].at)
          BY <2>10
        <4>1. sender[u] # Away => sender[u].known \subseteq 1..numbered
          BY DEF LimitsInvariant, Spaced
        <4>2. sender[u].stage = "checked" => sender[u] # Away
          BY <2>10
        <4> QED  BY <2>8, <2>9, <4>1, <4>2 DEF LimitsInvariant, Spaced, Is
      <3>2. ASSUME NEW i \in DOMAIN rows
            PROVE  /\ rows[i].known \subseteq 1..numbered'
                   /\ Few(rows[i].known, rows, rows[i].mailbox, rows[i].caller, rows[i].at)
        <4>1. CASE i \in DOMAIN submitted
          BY <2>6, <2>8, <2>9, <4>1 DEF LimitsInvariant, Spaced
        <4>2. CASE i = numbered + 1
          <5>1. /\ row.known = sender[s].known /\ row.caller = sender[s].key.caller
                /\ row.mailbox = Canonical[sender[s].post.mailbox] /\ row.at = sender[s].at
            BY <2>3
          <5> QED  BY <2>6, <2>7, <2>8, <2>9, <4>2, <5>1
        <4> QED  BY <2>6, <4>1, <4>2
      <3> QED  BY <2>5, <3>1, <3>2 DEF Spaced, Is
    <2> QED  BY <2>11, <2>12, <2>13 DEF LimitsInvariant
  <1> QED  BY <1>2, <1>3

\* The calls to Redis.
LEMMA RedisAnswers ==
  ASSUME LimitsInvariant, NEW s \in Senders, Incr(s) \/ SetLife(s)
  PROVE  LimitsInvariant'
  <1>1. PICK key \in Keys : key = sender[s].key
    BY FreshIsLive DEF Incr, SetLife
  <1>2. /\ sender[s] \in Underway /\ now <= 2 * key.window + 2 /\ now >= 2 * key.window
        /\ now \in Nat /\ key.window \in Nat /\ 2 * key.window + 3 <= Forever
        /\ LimitPerMinute[key.bucket] \in Nat \ {0} /\ Forever \in Nat
        /\ sender[s].known \subseteq 1..numbered /\ sender[s].stage \in {"arrived", "counted"}
        /\ sender \in [Senders -> {Away} \cup Underway] /\ passes \in [Keys -> Nat]
    BY <1>1, FreshIsLive, SenderAt DEF Incr, SetLife, Is, Forever, LimitsInvariant, LimitsTyped
  <1>3. /\ UNCHANGED <<now, submitted, numbered>>
        /\ \A k \in DOMAIN counter : counter[k] \in Counter
    BY DEF Incr, SetLife, LimitsInvariant, LimitsTyped
  <1>4. PICK r \in {Away, [sender[s] EXCEPT !.stage = "passed"],
                    [sender[s] EXCEPT !.stage = "counted"]} : sender' = [sender EXCEPT ![s] = r]
    BY <1>1 DEF Incr, SetLife, Judged, Becomes
  <1>5. /\ r \in {Away} \cup Underway
        /\ r # Away => r.known = sender[s].known
        /\ r.stage = "counted" => r.key = key /\ r.since = sender[s].since
        /\ r.stage \in {"away", "passed", "counted"}
    <2>1. CASE r = Away
      BY <2>1 DEF Away
    <2>2. ASSUME NEW stage \in {"passed", "counted"}, r = [sender[s] EXCEPT !.stage = stage]
          PROVE  /\ r \in Underway /\ r.stage = stage /\ r.known = sender[s].known
                 /\ r.key = key /\ r.since = sender[s].since
      <3>1. PICK old \in Underway : old = sender[s]
        BY <1>2
      <3>2. stage \in {"arrived", "counted", "passed", "counting", "checked"}
        OBVIOUS
      <3>3. r = [old EXCEPT !.stage = stage]
        BY <2>2, <3>1
      <3>4. /\ r \in Underway /\ r.stage = stage /\ r.known = old.known
            /\ r.key = old.key /\ r.since = old.since
        <4>1. /\ [old EXCEPT !.stage = stage] \in Underway
              /\ [old EXCEPT !.stage = stage].stage = stage
              /\ [old EXCEPT !.stage = stage].known = old.known
              /\ [old EXCEPT !.stage = stage].since = old.since
              /\ [old EXCEPT !.stage = stage].key = old.key
          <5>1. old \in Underway
            BY <3>1
          <5> QED  BY <5>1, <3>2, StageChanges, ZenonT(40)
        <4> QED  BY <3>3, <4>1
      <3> QED  BY <1>1, <3>1, <3>4
    <2> QED  BY <1>4, <2>1, <2>2
  <1>6. sender'[s] = r /\ \A u \in Senders : u # s => sender'[u] = sender[u]
    BY <1>2, <1>4
  \* What the call leaves in Redis and in the books.
  <1>7. /\ \A k \in DOMAIN counter' : counter'[k] \in Counter
        /\ counter' = [k \in DOMAIN counter' |-> counter'[k]]
        /\ DOMAIN counter' = DOMAIN counter \cup {key}
        /\ \A k \in DOMAIN counter : k # key => counter'[k] = counter[k]
        /\ counter'[key].until >= 2 * key.window + 3
        /\ passes' \in [Keys -> Nat] /\ \A k \in Keys : k # key => passes'[k] = passes[k]
        /\ \/ /\ Is(s, "arrived") /\ counter'[key].count = Count(key) + 1
              /\ \/ Count(key) = 0 /\ r.stage = "counted" /\ passes'[key] = passes[key]
                 \/ Count(key) > 0 /\ r.stage # "counted" /\ passes'[key] = passes[key]
                 \/ /\ Count(key) > 0 /\ r.stage # "counted" /\ passes'[key] = passes[key] + 1
                    /\ Count(key) + 1 <= LimitPerMinute[key.bucket]
           \/ /\ Is(s, "counted") /\ counter'[key].count = Count(key) /\ Count(key) > 0
              /\ r.stage # "counted" /\ passes'[key] \in {passes[key], passes[key] + 1}
    <2>1. CASE Incr(s)
      <3>1. PICK old : old = IF key \in DOMAIN counter THEN counter[key]
                                                       ELSE [count |-> 0, until |-> Forever]
        OBVIOUS
      <3>2. /\ old \in [count: Nat, until: Nat] /\ old.count = Count(key)
            /\ old.until >= 2 * key.window + 3
        <4>1. CASE key \in DOMAIN counter
          BY <1>1, <1>3, <3>1, <4>1 DEF Counter, Count, LimitsInvariant, Metered
        <4>2. CASE key \notin DOMAIN counter
          BY <1>2, <3>1, <4>2 DEF Count
        <4> QED  BY <4>1, <4>2
      <3>3. /\ counter' = [k \in DOMAIN counter \cup {key} |->
                            IF k = key THEN [old EXCEPT !.count = old.count + 1] ELSE counter[k]]
            /\ IF old.count + 1 = 1
                 THEN Becomes(s, [sender[s] EXCEPT !.stage = "counted"]) /\ UNCHANGED passes
                 ELSE Judged(s, old.count + 1)
            /\ Is(s, "arrived")
        BY <1>1, <2>1, <3>1 DEF Incr
      <3>4. /\ counter'[key] = [old EXCEPT !.count = old.count + 1]
            /\ counter'[key].count = Count(key) + 1 /\ counter'[key].until = old.until
            /\ counter'[key] \in Counter /\ DOMAIN counter' = DOMAIN counter \cup {key}
            /\ \A k \in DOMAIN counter : k # key => counter'[k] = counter[k]
            /\ counter' = [k \in DOMAIN counter' |-> counter'[k]]
        BY <3>2, <3>3 DEF Counter
      <3>5. /\ passes' \in [Keys -> Nat] /\ \A k \in Keys : k # key => passes'[k] = passes[k]
            /\ \/ Count(key) = 0 /\ r.stage = "counted" /\ passes'[key] = passes[key]
               \/ Count(key) > 0 /\ r.stage # "counted" /\ passes'[key] = passes[key]
               \/ /\ Count(key) > 0 /\ r.stage # "counted" /\ passes'[key] = passes[key] + 1
                  /\ Count(key) + 1 <= LimitPerMinute[key.bucket]
        <4>1. CASE old.count = 0
          <5>1. sender' = [sender EXCEPT ![s] = [sender[s] EXCEPT !.stage = "counted"]]
                /\ passes' = passes
            BY <3>3, <4>1 DEF Becomes
          <5>2. r = [sender[s] EXCEPT !.stage = "counted"]
            BY <1>2, <1>6, <5>1
          <5> QED  BY <1>2, <3>2, <4>1, <5>1, <5>2, StageChanges
        <4>2. CASE old.count # 0
          <5>1. Judged(s, old.count + 1)
            BY <3>2, <3>3, <4>2
          <5>2. CASE old.count + 1 > LimitPerMinute[key.bucket]
            <6>1. sender' = [sender EXCEPT ![s] = Away] /\ passes' = passes
              BY <1>1, <5>1, <5>2 DEF Judged, Becomes
            <6>2. r = Away
              BY <1>2, <1>6, <6>1
            <6> QED  BY <1>2, <3>2, <4>2, <6>1, <6>2 DEF Away
          <5>3. CASE ~(old.count + 1 > LimitPerMinute[key.bucket])
            <6>1. /\ sender' = [sender EXCEPT ![s] = [sender[s] EXCEPT !.stage = "passed"]]
                  /\ passes' = [passes EXCEPT ![key] = @ + 1]
              BY <1>1, <5>1, <5>3 DEF Judged, Becomes
            <6>2. r.stage = "passed"
              BY <1>2, <1>6, <6>1, StageChanges
            <6> QED  BY <1>2, <3>2, <4>2, <5>3, <6>1, <6>2
          <5> QED  BY <5>2, <5>3
        <4> QED  BY <4>1, <4>2
      <3>6. \A k \in DOMAIN counter' : counter'[k] \in Counter
        BY <1>3, <3>4
      <3> QED  BY <3>2, <3>3, <3>4, <3>5, <3>6
    <2>2. CASE SetLife(s)
      <3>1. /\ Is(s, "counted") /\ Judged(s, 1)
            /\ counter' = [k \in DOMAIN counter |->
                             IF k = key THEN [counter[k] EXCEPT !.until = now + 3]
                                        ELSE counter[k]]
        BY <1>1, <2>2 DEF SetLife, CounterLife
      <3>2. CountedOn(s, key)
        BY <1>1, <3>1 DEF CountedOn
      <3>3. Count(key) >= 1 /\ key \in DOMAIN counter /\ counter[key] \in Counter
            /\ Count(key) = counter[key].count
        <4>1. passes[key] + 1 <= Count(key) /\ passes[key] \in Nat
          BY <1>2, <3>2 DEF LimitsInvariant, Metered
        <4> QED  BY <1>3, <4>1 DEF Count, Counter
      <3>4. /\ counter'[key] = [counter[key] EXCEPT !.until = now + 3]
            /\ counter'[key].count = Count(key) /\ counter'[key].until = now + 3
            /\ counter'[key] \in Counter /\ DOMAIN counter' = DOMAIN counter \cup {key}
            /\ \A k \in DOMAIN counter : k # key => counter'[k] = counter[k]
            /\ counter' = [k \in DOMAIN counter' |-> counter'[k]]
        <4>1. /\ DOMAIN counter' = DOMAIN counter /\ key \in DOMAIN counter
              /\ counter'[key] = [counter[key] EXCEPT !.until = now + 3]
              /\ \A k \in DOMAIN counter : k # key => counter'[k] = counter[k]
              /\ counter' = [k \in DOMAIN counter' |-> counter'[k]]
          BY <3>1, <3>3
        <4>2. PICK old \in Counter : old = counter[key]
          BY <3>3
        <4>3. PICK new : new = [old EXCEPT !.until = now + 3]
          OBVIOUS
        <4>4. new \in Counter /\ new.count = old.count /\ new.until = now + 3
          BY <1>2, <4>3 DEF Counter
        <4>5. DOMAIN counter' = DOMAIN counter \cup {key}
          BY <4>1
        <4> QED  BY <3>3, <4>1, <4>2, <4>3, <4>4, <4>5
      <3>5. /\ passes' \in [Keys -> Nat] /\ \A k \in Keys : k # key => passes'[k] = passes[k]
            /\ passes'[key] \in {passes[key], passes[key] + 1} /\ r.stage # "counted"
        <4>1. CASE sender' = [sender EXCEPT ![s] = Away] /\ passes' = passes
          <5>1. r = Away
            BY <1>2, <1>6, <4>1
          <5> QED  BY <1>2, <4>1, <5>1 DEF Away
        <4>2. CASE /\ sender' = [sender EXCEPT ![s] = [sender[s] EXCEPT !.stage = "passed"]]
                   /\ passes' = [passes EXCEPT ![key] = @ + 1]
          <5>1. r.stage = "passed"
            BY <1>2, <1>6, <4>2, StageChanges
          <5> QED  BY <1>2, <4>2, <5>1
        <4> QED  BY <1>1, <3>1, <4>1, <4>2 DEF Judged, Becomes
      <3>6. \A k \in DOMAIN counter' : counter'[k] \in Counter
        BY <1>3, <3>4
      <3>7. now + 3 >= 2 * key.window + 3
        BY <1>2
      <3>8. Count(key) > 0
        <4>1. Count(key) \in Nat
          BY <3>3 DEF Counter
        <4> QED  BY <3>3, <4>1
      <3> QED  BY <3>1, <3>4, <3>5, <3>6, <3>7, <3>8
    <2> QED  BY <2>1, <2>2
  <1>8. /\ Count(key)' = counter'[key].count /\ Count(key) \in Nat
        /\ \A k \in Keys : k # key => Count(k)' = Count(k)
    BY <1>1, <1>3, <1>7 DEF Count, Counter
  <1>9. \A u \in Senders : \A k \in Keys :
          CountedOn(u, k)' => CountedOn(u, k) \/ (u = s /\ k = key /\ r.stage = "counted")
    BY <1>5, <1>6 DEF CountedOn, Is
  <1>10. LimitsTyped'
    <2>1. sender' \in [Senders -> {Away} \cup Underway]
      <3>1. r \in {Away} \cup Underway
        BY <1>5
      <3>2. sender' = [sender EXCEPT ![s] = r]
        BY <1>4
      <3>3. sender \in [Senders -> {Away} \cup Underway]
        BY <1>2
      <3> QED  BY <3>1, <3>2, <3>3
    <2> QED  BY <1>3, <1>7, <2>1 DEF LimitsInvariant, LimitsTyped
  <1>11. Fresh'
    BY <1>1, <1>3, <1>5, <1>6, <1>2 DEF LimitsInvariant, Fresh, Is
  <1>12. Spaced'
    <2>1. r.stage # "checked"
      BY <1>5
    <2>2. ASSUME NEW u \in Senders
          PROVE  /\ sender'[u] # Away => sender'[u].known \subseteq 1..numbered
                 /\ sender'[u].stage = "checked" => u # s
      <3>1. CASE u = s
        <4>1. sender'[u] = r
          BY <1>6, <3>1
        <4>2. r # Away => r.known = sender[s].known
          BY <1>5
        <4>3. sender[s].known \subseteq 1..numbered
          BY <1>2
        <4> QED  BY <2>1, <4>1, <4>2, <4>3
      <3>2. CASE u # s
        BY <1>6, <3>2 DEF LimitsInvariant, Spaced
      <3> QED  BY <3>1, <3>2
    <2>3. ASSUME NEW u \in Senders, sender'[u].stage = "checked"
          PROVE  sender'[u] = sender[u] /\ Is(u, "checked")
      BY <1>6, <2>2, <2>3 DEF Is
    <2>4. \A u \in Senders : Is(u, "checked")' =>
            Few(sender'[u].known, submitted, Canonical[sender'[u].post.mailbox],
                sender'[u].key.caller, sender'[u].at)
      BY <2>3 DEF LimitsInvariant, Spaced, Is
    <2> QED  BY <1>3, <2>2, <2>4 DEF LimitsInvariant, Spaced
  <1>13. Count(key) = 0 => passes[key] = 0 /\ \A u \in Senders : ~CountedOn(u, key)
    BY <1>2 DEF LimitsInvariant, Metered
  <1>14. OneFirst'
    <2>1. CASE r.stage = "counted"
      BY <1>7, <1>9, <1>13, <2>1 DEF LimitsInvariant, OneFirst
    <2>2. CASE r.stage # "counted"
      BY <1>9, <2>2 DEF LimitsInvariant, OneFirst
    <2> QED  BY <2>1, <2>2
  <1>15. Metered'
    <2> SUFFICES ASSUME NEW k \in Keys
                 PROVE  /\ k \in DOMAIN counter' => counter'[k].until >= 2 * k.window + 3
                        /\ now <= 2 * k.window + 2 =>
                             /\ passes'[k] <= Count(k)'
                             /\ \A u \in Senders : CountedOn(u, k)' => passes'[k] + 1 <= Count(k)'
                        /\ LimitPerMinute[k.bucket] > 0 =>
                             /\ passes'[k] <= LimitPerMinute[k.bucket]
                             /\ \A u \in Senders :
                                  CountedOn(u, k)' => passes'[k] + 1 <= LimitPerMinute[k.bucket]
      BY <1>3 DEF Metered
    <2>1. CASE k # key
      BY <1>7, <1>8, <1>9, <2>1 DEF LimitsInvariant, Metered
    <2>2. CASE k = key
      <3>1. /\ passes[key] \in Nat /\ passes[key] <= Count(key)
            /\ passes[key] <= LimitPerMinute[key.bucket]
            /\ \A u \in Senders : CountedOn(u, key) =>
                 passes[key] + 1 <= Count(key) /\ passes[key] + 1 <= LimitPerMinute[key.bucket]
        BY <1>2 DEF LimitsInvariant, Metered
      <3>2. CASE Is(s, "counted")
        <4>1. CountedOn(s, key) /\ \A u \in Senders : CountedOn(u, key) => u = s
          BY <1>1, <3>2 DEF CountedOn, LimitsInvariant, OneFirst
        <4>2. ~Is(s, "arrived")
          BY <3>2 DEF Is
        <4>3. \A u \in Senders : ~CountedOn(u, key)'
          BY <1>6, <1>7, <1>9, <4>1, <4>2 DEF CountedOn, Is
        <4> QED  BY <1>2, <1>7, <1>8, <2>2, <3>1, <4>1, <4>2, <4>3
      <3>3. CASE Is(s, "arrived")
        <4>1. ~Is(s, "counted")
          BY <3>3 DEF Is
        <4> QED  BY <1>2, <1>7, <1>8, <1>9, <1>13, <2>2, <3>1, <4>1
      <3> QED  BY <1>2, <3>2, <3>3 DEF Is
    <2> QED  BY <2>1, <2>2
  <1> QED  BY <1>10, <1>11, <1>12, <1>14, <1>15 DEF LimitsInvariant

LEMMA TimePasses ==
  ASSUME LimitsInvariant, Tick
  PROVE  LimitsInvariant'
  <1>1. /\ now' = now + 1 /\ now \in Nat /\ now < MaxTicks /\ MaxTicks \in Nat
        /\ UNCHANGED <<sender, submitted, numbered, passes>>
        /\ counter' = [k \in {k \in DOMAIN counter : counter[k].until > now + 1} |-> counter[k]]
    BY LimitAssumption DEF Tick, LimitsInvariant, LimitsTyped
  <1>2. /\ DOMAIN counter' = {k \in DOMAIN counter : counter[k].until > now + 1}
        /\ \A k \in DOMAIN counter' : counter'[k] = counter[k]
        /\ counter' = [k \in DOMAIN counter' |-> counter'[k]]
    BY <1>1
  <1>3. LimitsTyped'
    BY <1>1, <1>2 DEF LimitsInvariant, LimitsTyped
  <1>4. Fresh'
    BY <1>1 DEF Tick, LimitsInvariant, Fresh, Is
  <1>5. \A u \in Senders : \A k : CountedOn(u, k)' <=> CountedOn(u, k)
    BY <1>1 DEF CountedOn, Is
  <1>6. OneFirst'
    BY <1>5 DEF LimitsInvariant, OneFirst
  <1>7. Metered'
    <2>1. ASSUME NEW k \in Keys, now + 1 <= 2 * k.window + 2
          PROVE  Count(k)' = Count(k)
      <3>1. k \in DOMAIN counter => counter[k].until >= 2 * k.window + 3
                                    /\ counter[k].until \in Nat
        BY DEF LimitsInvariant, Metered, LimitsTyped, Counter
      <3>2. k.window \in Nat
        BY LimitAssumption DEF Keys, Windows, MinuteTicks
      <3> QED  BY <1>1, <1>2, <2>1, <3>1, <3>2 DEF Count
    <2>2. \A k \in Keys : k.window \in Nat
      BY LimitAssumption DEF Keys, Windows, MinuteTicks
    <2> QED  BY <1>1, <1>2, <1>5, <2>1, <2>2 DEF LimitsInvariant, Metered
  <1>8. Spaced'
    BY <1>1 DEF LimitsInvariant, Spaced, Is
  <1> QED  BY <1>3, <1>4, <1>6, <1>7, <1>8 DEF LimitsInvariant

LEMMA LimitsStep ==
  ASSUME LimitsInvariant, [LimitsNext]_limitVars
  PROVE  LimitsInvariant'
  <1>1. CASE UNCHANGED limitVars
    BY <1>1 DEF limitVars, LimitsInvariant, LimitsTyped, Fresh, OneFirst, Metered, Spaced,
                CountedOn, Count, Is
  <1>2. ASSUME NEW s \in Senders, SenderStep(s)
        PROVE  LimitsInvariant'
    <2>1. "upload" \in Buckets /\ "feedback" \in Buckets
      BY DEF Buckets
    <2> QED  BY <1>2, <2>1, Arrives, Answered, Counts, RowsMove, RedisAnswers DEF SenderStep
  <1> QED  BY <1>1, <1>2, RowsMove, TimePasses DEF LimitsNext

\* For any number of callers, requests side by side, limits and ticks: Redis
\* never lets more requests into a minute than its limit, and more submissions
\* of one visitor in a day than allowed were under way together.
THEOREM LimitsAreKept == LimitsSpec => []LimitsHold
  <1>1. LimitsInvariant => LimitsHold
    <2> SUFFICES ASSUME LimitsInvariant PROVE LimitsHold
      OBVIOUS
    <2>1. MinutesAreBounded
      <3>1. \A k \in Keys : LimitPerMinute[k.bucket] \in Int
        BY LimitAssumption DEF Keys
      <3> QED  BY <3>1 DEF LimitsInvariant, Metered, MinutesAreBounded
    <2>2. RepeatsOverlap
      BY DEF LimitsInvariant, Spaced, Few, Before, RepeatsOverlap
    <2> QED  BY <2>1, <2>2 DEF LimitsHold
  <1> QED  BY <1>1, LimitsStart, LimitsStep, PTL DEF LimitsSpec

-----------------------------------------------------------------------------
(* The content of the site.                                                 *)

\* A row that is published, or replied to, has its time.
WellDated(kind, fields) ==
  /\ kind \in {"announcement", "post"} =>
       /\ {"status", "dated"} \subseteq DOMAIN fields
       /\ fields["status"] = "published" => fields["dated"] = TRUE
  /\ kind = "message" =>
       /\ {"reply", "dated"} \subseteq DOMAIN fields
       /\ fields["reply"] # "none" => fields["dated"] = TRUE

\* What a handler is about to write sets the time with what the time is of, and
\* never takes it away.
SetsTime(kind, dirty) ==
  /\ kind \in {"announcement", "post", "message"} =>
       ("dated" \in DOMAIN dirty => dirty["dated"] = TRUE)
  /\ kind \in {"announcement", "post"} =>
       ("status" \in DOMAIN dirty /\ dirty["status"] = "published" => "dated" \in DOMAIN dirty)
  /\ kind = "message" => ("reply" \in DOMAIN dirty => "dated" \in DOMAIN dirty)

RowsInv ==
  /\ items \in Nat /\ Items \subseteq 1..items
  /\ item = [i \in Items |-> item[i]]
  /\ \A i \in Items : /\ item[i] = [kind |-> item[i].kind, fields |-> item[i].fields]
                      /\ WellDated(item[i].kind, item[i].fields)

\* An id is never given twice, so a handler's row stays of its kind.
FormsInv ==
  /\ DOMAIN form = Forms /\ form = [f \in Forms |-> form[f]]
  /\ \A f \in Forms : form[f] # Blank =>
       /\ form[f].id \in 1..items
       /\ form[f].id \in Items => SetsTime(item[form[f].id].kind, form[f].dirty)

ContentInvariant == RowsInv /\ FormsInv

LEMMA ContentStart == ContentInit => ContentInvariant
  <1> SUFFICES ASSUME ContentInit PROVE ContentInvariant
    OBVIOUS
  <1>1. items \in Nat /\ Items = 1..items
    BY ContentAssumption, FS_CardinalityType DEF ContentInit, Items
  <1>2. \A i \in Items : item[i] = [kind |-> "tool",
                                    fields |-> [enabled |-> TRUE, maintenance |-> FALSE]]
    BY DEF ContentInit, Items
  <1>3. item = [i \in Items |-> item[i]]
    BY DEF ContentInit, Items
  <1>4. RowsInv
    BY <1>1, <1>2, <1>3 DEF RowsInv, WellDated
  <1>5. FormsInv
    BY DEF ContentInit, FormsInv
  <1> QED  BY <1>4, <1>5 DEF ContentInvariant

\* Rows only go or stay as they are.
LEMMA RowsGo ==
  ASSUME ContentInvariant, NEW S \in SUBSET Items, item' = Restrict(item, S),
         items' = items, form' = form
  PROVE  ContentInvariant'
  <1>1. Items' = S /\ \A i \in S : item'[i] = item[i]
    BY DEF Restrict, Items
  <1>2. item' = [i \in Items' |-> item'[i]]
    BY <1>1 DEF Restrict
  <1>3. RowsInv'
    BY <1>1, <1>2 DEF ContentInvariant, RowsInv
  <1>4. FormsInv'
    BY <1>1 DEF ContentInvariant, FormsInv
  <1> QED  BY <1>3, <1>4 DEF ContentInvariant

LEMMA RowComes ==
  ASSUME ContentInvariant, NEW kind, NEW fields, InsertItem(kind, fields), WellDated(kind, fields)
  PROVE  ContentInvariant'
  <1>1. items \in Nat /\ Items \subseteq 1..items /\ items + 1 \notin Items
    BY DEF ContentInvariant, RowsInv
  <1>2. /\ items' = items + 1 /\ form' = form
        /\ item' = [i \in Items \cup {items + 1} |->
                      IF i \in Items THEN item[i] ELSE [kind |-> kind, fields |-> fields]]
    BY DEF InsertItem
  <1>3. /\ Items' = Items \cup {items + 1} /\ \A i \in Items : item'[i] = item[i]
        /\ item'[items + 1] = [kind |-> kind, fields |-> fields]
        /\ item' = [i \in Items' |-> item'[i]]
    BY <1>1, <1>2 DEF Items
  <1>4. RowsInv'
    BY <1>1, <1>2, <1>3 DEF ContentInvariant, RowsInv
  <1>5. FormsInv'
    BY <1>1, <1>2, <1>3 DEF ContentInvariant, FormsInv
  <1> QED  BY <1>4, <1>5 DEF ContentInvariant

\* Which rows come has the time wherever one is due.
LEMMA CreatedIsDated ==
  /\ \A p \in Announcements : WellDated("announcement", NewAnnouncement(p))
  /\ \A p \in Faqs : WellDated("faq", NewFaq(p))
  /\ \A p \in PostForms : WellDated("post", NewPost(p))
  /\ \A p \in PostForms : WellDated("page", NewPage(p))
  /\ \A u \in Users, t \in Texts : WellDated("subscription", [user |-> u, text |-> t])
  /\ \A t \in Texts :
       WellDated("message", [text |-> t, read |-> FALSE, reply |-> "none", dated |-> FALSE])
  <1>1. ASSUME NEW p, "status" \in DOMAIN p, "dated" \notin DOMAIN p
        PROVE  /\ {"status", "dated"} \subseteq DOMAIN Over(Date(p.status = "published"), p)
               /\ Over(Date(p.status = "published"), p)["status"] = p["status"]
               /\ p["status"] = "published" =>
                    Over(Date(p.status = "published"), p)["dated"] = TRUE
    <2>1. PICK date : date = Date(p.status = "published")
      OBVIOUS
    <2>2. DOMAIN date = {"dated"}
      BY <2>1 DEF Date
    <2>3. p["status"] = "published" => date["dated"] = TRUE
      BY <2>1 DEF Date
    <2>4. PICK f : f = Over(date, p)
      OBVIOUS
    <2>5. DOMAIN f = DOMAIN p \cup {"dated"} /\ f["status"] = p["status"]
          /\ f["dated"] = date["dated"]
      BY <1>1, <2>2, <2>4 DEF Over
    <2> QED  BY <1>1, <2>1, <2>3, <2>4, <2>5
  <1>2. ASSUME NEW p \in Announcements PROVE WellDated("announcement", NewAnnouncement(p))
    <2>1. "status" \in DOMAIN p /\ "dated" \notin DOMAIN p
      BY DEF Announcements
    <2> QED  BY <1>1, <2>1 DEF NewAnnouncement, WellDated
  <1>3. ASSUME NEW p \in PostForms PROVE WellDated("post", NewPost(p))
    <2>1. PICK q : q = [p EXCEPT !.slug = Slug(p)]
      OBVIOUS
    <2>2. "status" \in DOMAIN q /\ "dated" \notin DOMAIN q /\ q.status = p.status
      BY <2>1 DEF PostForms
    <2>3. NewPost(p) = Over(Date(q.status = "published"), q)
      BY <2>1, <2>2 DEF NewPost
    <2> QED  BY <1>1, <2>2, <2>3 DEF WellDated
  <1>4. \A fields : /\ WellDated("faq", fields) /\ WellDated("page", fields)
                    /\ WellDated("subscription", fields)
    BY DEF WellDated
  <1>5. ASSUME NEW t
        PROVE  WellDated("message", [text |-> t, read |-> FALSE, reply |-> "none", dated |-> FALSE])
    BY DEF WellDated
  <1> QED  BY <1>2, <1>3, <1>4, <1>5

\* What a handler assigns, judged by what it loaded.
LEMMA AssignedSetsTime ==
  ASSUME NEW kind, NEW seen, NEW p \in Payloads(kind), NEW dirty,
         dirty = Restrict(Assigned(kind, seen, p),
                          {x \in DOMAIN Assigned(kind, seen, p) :
                             x = "dated" \/ Assigned(kind, seen, p)[x] # seen[x]})
  PROVE  SetsTime(kind, dirty)
  <1>1. PICK new : new = Assigned(kind, seen, p)
    OBVIOUS
  <1>2. /\ DOMAIN dirty = {x \in DOMAIN new : x = "dated" \/ new[x] # seen[x]}
        /\ \A x \in DOMAIN dirty : dirty[x] = new[x]
    BY <1>1 DEF Restrict
  <1>3. PICK date : date = Date(TRUE)
    OBVIOUS
  <1>4. DOMAIN date = {"dated"} /\ date["dated"] = TRUE
    BY <1>3 DEF Date
  \* An announcement or a post: q is what the form says.
  <1>5. ASSUME NEW q, "dated" \notin DOMAIN q, q["status"] = p["status"],
               new = IF Publishes(seen, p) THEN Over(date, q) ELSE q,
               kind \in {"announcement", "post"}
        PROVE  SetsTime(kind, dirty)
    <2>1. CASE Publishes(seen, p)
      <3>1. new = Over(date, q)
        BY <1>5, <2>1
      <3>2. "dated" \in DOMAIN new /\ new["dated"] = TRUE
        BY <1>4, <3>1 DEF Over
      <3> QED  BY <1>2, <1>5, <3>2 DEF SetsTime
    <2>2. CASE ~Publishes(seen, p)
      <3>1. new = q
        BY <1>5, <2>2
      <3>2. "dated" \notin DOMAIN dirty
        BY <1>2, <1>5, <3>1
      <3>3. "status" \in DOMAIN dirty => dirty["status"] # "published"
        BY <1>2, <1>5, <2>2, <3>1 DEF Publishes
      <3> QED  BY <1>5, <3>2, <3>3 DEF SetsTime
    <2> QED  BY <2>1, <2>2
  <1>6. CASE kind = "announcement"
    <2>1. p \in [status: Statuses, text: Texts]
      BY <1>6 DEF Payloads, Announcements
    <2>2. new = IF Publishes(seen, p) THEN Over(date, p) ELSE p
      BY <1>1, <1>3, <1>6 DEF Assigned, AssignAnnouncement
    <2> QED  BY <1>5, <1>6, <2>1, <2>2
  <1>7. CASE kind = "post"
    <2>1. p \in [status: Statuses, text: Texts, slug: Slugs \cup {"none"}]
      BY <1>7 DEF Payloads, PostForms
    <2>2. PICK q : q = WithoutSlug(p)
      OBVIOUS
    <2>3. "dated" \notin DOMAIN q /\ q["status"] = p["status"]
      BY <2>1, <2>2 DEF WithoutSlug
    <2>4. new = IF Publishes(seen, p) THEN Over(date, q) ELSE q
      BY <1>1, <1>3, <1>7, <2>2 DEF Assigned, AssignPost
    <2> QED  BY <1>5, <1>7, <2>3, <2>4
  <1>8. CASE kind = "message"
    <2>1. p \in [read: BOOLEAN] \cup [reply: Texts]
      BY <1>8 DEF Payloads
    <2>2. new = IF "read" \in DOMAIN p THEN p ELSE Over([read |-> TRUE, dated |-> TRUE], p)
      BY <1>1, <1>8 DEF Assigned, AssignMessage
    <2>3. CASE "read" \in DOMAIN p
      <3>1. DOMAIN p = {"read"}
        BY <2>1, <2>3
      <3> QED  BY <1>2, <1>8, <2>2, <2>3, <3>1 DEF SetsTime
    <2>4. CASE "read" \notin DOMAIN p
      <3>1. PICK both : both = [read |-> TRUE, dated |-> TRUE]
        OBVIOUS
      <3>2. DOMAIN both = {"read", "dated"} /\ both["dated"] = TRUE
        BY <3>1
      <3>3. "dated" \in DOMAIN new /\ new["dated"] = TRUE
        BY <2>2, <2>4, <3>1, <3>2 DEF Over
      <3> QED  BY <1>2, <1>8, <3>3 DEF SetsTime
    <2> QED  BY <2>3, <2>4
  <1>9. CASE kind \notin {"announcement", "post", "message"}
    BY <1>9 DEF SetsTime
  <1> QED  BY <1>6, <1>7, <1>8, <1>9

\* What a handler writes keeps the row in order, however old what it loaded is.
LEMMA CommitKeepsTime ==
  ASSUME NEW kind, NEW fields, NEW dirty, WellDated(kind, fields), SetsTime(kind, dirty)
  PROVE  WellDated(kind, Over(dirty, fields))
  <1>1. PICK new : new = Over(dirty, fields)
    OBVIOUS
  <1>2. /\ DOMAIN new = DOMAIN fields \cup DOMAIN dirty
        /\ \A x \in DOMAIN new : new[x] = IF x \in DOMAIN dirty THEN dirty[x] ELSE fields[x]
    BY <1>1 DEF Over
  <1>3. CASE kind \in {"announcement", "post"}
    <2>1. "status" \in DOMAIN new /\ "dated" \in DOMAIN new
      BY <1>2, <1>3 DEF WellDated
    <2>2. new["status"] = "published" => new["dated"] = TRUE
      BY <1>2, <1>3, <2>1 DEF WellDated, SetsTime
    <2> QED  BY <1>1, <1>3, <2>1, <2>2 DEF WellDated
  <1>4. CASE kind = "message"
    <2>1. "reply" \in DOMAIN new /\ "dated" \in DOMAIN new
      BY <1>2, <1>4 DEF WellDated
    <2>2. new["reply"] # "none" => new["dated"] = TRUE
      BY <1>2, <1>4, <2>1 DEF WellDated, SetsTime
    <2> QED  BY <1>1, <1>4, <2>1, <2>2 DEF WellDated
  <1>5. CASE kind \notin {"announcement", "post", "message"}
    BY <1>5 DEF WellDated
  <1> QED  BY <1>3, <1>4, <1>5

LEMMA Loads ==
  ASSUME ContentInvariant, NEW f \in Forms, NEW i \in Items, NEW p \in Payloads(item[i].kind),
         LoadItem(f, i, p)
  PROVE  ContentInvariant'
  <1>1. PICK new : new = Assigned(item[i].kind, item[i].fields, p)
    OBVIOUS
  <1>2. PICK dirty : dirty = Restrict(new, {x \in DOMAIN new :
                                              x = "dated" \/ new[x] # item[i].fields[x]})
    OBVIOUS
  <1>3. PICK r : r = [stage |-> "assigned", id |-> i, dirty |-> dirty]
    OBVIOUS
  <1>4. UNCHANGED <<item, items>> /\ form' = [form EXCEPT ![f] = r]
    BY <1>1, <1>2, <1>3 DEF LoadItem
  <1>5. SetsTime(item[i].kind, dirty)
    <2>1. PICK kind, seen : kind = item[i].kind /\ seen = item[i].fields
      OBVIOUS
    <2> QED  BY <1>1, <1>2, <2>1, AssignedSetsTime
  <1>6. /\ DOMAIN form' = Forms /\ form' = [g \in Forms |-> form'[g]] /\ form'[f] = r
        /\ \A g \in Forms : g # f => form'[g] = form[g]
    BY <1>4 DEF ContentInvariant, FormsInv
  <1>7. RowsInv'
    BY <1>4 DEF ContentInvariant, RowsInv, Items
  <1>8. FormsInv'
    <2>1. i \in 1..items /\ r.id = i /\ r.dirty = dirty
      BY <1>3 DEF ContentInvariant, RowsInv
    <2> QED  BY <1>4, <1>5, <1>6, <2>1 DEF ContentInvariant, FormsInv, Items
  <1> QED  BY <1>7, <1>8 DEF ContentInvariant

LEMMA Commits ==
  ASSUME ContentInvariant, NEW f \in Forms, CommitItem(f)
  PROVE  ContentInvariant'
  <1>1. PICK i, dirty : i = form[f].id /\ dirty = form[f].dirty
    OBVIOUS
  <1>2. /\ items' = items /\ form' = [form EXCEPT ![f] = Blank]
        /\ item' = item \/ (i \in Items /\ item' = [item EXCEPT ![i].fields = Over(dirty, @)])
    BY <1>1 DEF CommitItem
  <1>3. /\ DOMAIN form' = Forms /\ form' = [g \in Forms |-> form'[g]] /\ form'[f] = Blank
        /\ \A g \in Forms : g # f => form'[g] = form[g]
    BY <1>2 DEF ContentInvariant, FormsInv
  <1>4. CASE item' = item
    BY <1>2, <1>3, <1>4 DEF ContentInvariant, RowsInv, FormsInv, Items
  <1>5. CASE i \in Items /\ item' = [item EXCEPT ![i].fields = Over(dirty, @)]
    <2>1. PICK kind, fields : /\ item[i] = [kind |-> kind, fields |-> fields]
                              /\ WellDated(kind, fields)
      BY <1>5 DEF ContentInvariant, RowsInv
    <2>2. PICK new : new = Over(dirty, fields)
      OBVIOUS
    <2>3. SetsTime(kind, dirty)
      BY <1>1, <1>5, <2>1 DEF ContentInvariant, FormsInv, CommitItem
    <2>4. WellDated(kind, new)
      BY <2>1, <2>2, <2>3, CommitKeepsTime
    <2>5. /\ Items' = Items /\ item'[i] = [kind |-> kind, fields |-> new]
          /\ \A j \in Items : j # i => item'[j] = item[j]
          /\ item' = [j \in Items' |-> item'[j]]
      <3>1. PICK row : row = [item[i] EXCEPT !.fields = Over(dirty, @)]
        OBVIOUS
      <3>2. row = [kind |-> kind, fields |-> new]
        BY <2>1, <2>2, <3>1
      <3>3. item' = [item EXCEPT ![i] = row]
        BY <1>5, <3>1
      <3>4. Items' = Items /\ item'[i] = row /\ \A j \in Items : j # i => item'[j] = item[j]
        BY <1>5, <3>3 DEF Items
      <3>5. item' = [j \in Items' |-> item'[j]]
        BY <3>3, <3>4 DEF Items
      <3> QED  BY <3>2, <3>4, <3>5
    <2>6. RowsInv'
      BY <1>2, <2>4, <2>5 DEF ContentInvariant, RowsInv
    <2>7. \A j \in Items : item'[j].kind = item[j].kind
      BY <2>1, <2>5
    <2>8. FormsInv'
      BY <1>2, <1>3, <2>5, <2>7 DEF ContentInvariant, FormsInv
    <2> QED  BY <2>6, <2>8 DEF ContentInvariant
  <1> QED  BY <1>2, <1>4, <1>5

LEMMA ContentStep ==
  ASSUME ContentInvariant, [ContentNext]_contentVars
  PROVE  ContentInvariant'
  <1>1. CASE UNCHANGED contentVars
    BY <1>1 DEF contentVars, ContentInvariant, RowsInv, FormsInv, Items
  <1>2. CASE CreateStep
    BY <1>2, RowComes, CreatedIsDated
       DEF CreateStep, CreateAnnouncement, CreateFaq, CreateBlog, CreatePage,
           CreateSubscription, MessageArrives
  <1>3. CASE \E i \in Items : DeleteItem(i)
    <2>1. PICK i \in Items : DeleteItem(i)
      BY <1>3
    <2> QED  BY <2>1, RowsGo DEF DeleteItem
  <1>4. CASE \E u \in Users : UserGoes(u)
    <2>1. PICK u \in Users : UserGoes(u)
      BY <1>4
    <2>2. PICK gone : gone = {i \in HasKind("subscription") : item[i].fields.user = u}
      OBVIOUS
    <2> QED  BY <2>1, <2>2, RowsGo DEF UserGoes
  <1> QED  BY <1>1, <1>2, <1>3, <1>4, Loads, Commits DEF ContentNext

\* For any number of handlers side by side, rows and texts: whatever is
\* published has its time, and a reply its own, though each handler decided
\* from the row it had loaded.
THEOREM PublishedIsAlwaysDated == ContentSpec => []PublishedIsDated
  <1>1. ContentInvariant => PublishedIsDated
    BY DEF ContentInvariant, RowsInv, WellDated, PublishedIsDated, HasKind, Dated
  <1> QED  BY <1>1, ContentStart, ContentStep, PTL DEF ContentSpec

-----------------------------------------------------------------------------
(* The settings and the start.                                              *)

\* What the steps after the first want, and what is there of it.
Wants == [i \in 2..4 |-> Wanted(Steps[i])]
Stored == [i \in 2..4 |-> There(Steps[i])]

LEMMA StepsAre ==
  /\ Len(Steps) = 4 /\ Steps[1] = "admin" /\ 1..4 = {1, 2, 3, 4} /\ 2..4 = {2, 3, 4}
  /\ \A i \in 2..4 : /\ Stored[i] = There(Steps[i]) /\ Wants[i] = Wanted(Steps[i])
                     /\ Stored[i] = IF i = 3 THEN Present ELSE seeded[Steps[i]]
                     /\ Steps[i] \in {"tools", "settings", "traffic"}
                     /\ i # 3 => Steps[i] \in {"tools", "traffic"}
                     /\ i = 3 <=> Steps[i] = "settings"
                     /\ Steps[i] # "admin"
  /\ \A i, j \in 2..4 : Steps[i] = Steps[j] => i = j
  <1>1. Len(Steps) = 4
    BY DEF Steps
  <1>2. /\ Steps[1] = "admin" /\ Steps[2] = "tools" /\ Steps[3] = "settings"
        /\ Steps[4] = "traffic"
    BY DEF Steps
  <1>3. 1..4 = {1, 2, 3, 4} /\ 2..4 = {2, 3, 4}
    OBVIOUS
  <1>4. \A i \in 2..4 : Stored[i] = There(Steps[i]) /\ Wants[i] = Wanted(Steps[i])
    BY DEF Stored, Wants
  <1>5. \A i \in 2..4 : i = 3 <=> Steps[i] = "settings"
    BY <1>2, <1>3
  <1>6. \A i \in 2..4 : Stored[i] = IF i = 3 THEN Present ELSE seeded[Steps[i]]
    BY <1>4, <1>5 DEF There
  <1> QED  BY <1>1, <1>2, <1>3, <1>4, <1>5, <1>6

Done(i) == IF i = 1 THEN AdminMissing = {} ELSE Wants[i] \subseteq Stored[i]

\* A start whose write would come too late.
Late(s) == IF starter[s].missing = {"account"} THEN owner # "none"
           ELSE owner = "none" \/ owners # starter[s].found
Blocked(s) == IF starter[s].step = 1 THEN Late(s)
              ELSE starter[s].missing \cap Stored[starter[s].step] # {}

\* A start that will see to step i: nobody has stored what it is about to.
Able(s, i) == /\ starter[s] # Out /\ starter[s].step <= i
              /\ starter[s].missing = {} \/ ~Blocked(s)

\* Step i is done, or somebody will see to it.
Promised(i) == (i = 1 /\ touched) \/ Done(i) \/ \E s \in Starters : Able(s, i)

\* What is known of a start that is under way.
Tracked(s) ==
  /\ starter[s] = [step |-> starter[s].step, missing |-> starter[s].missing,
                   found |-> starter[s].found]
  /\ starter[s].step \in 1..4 /\ starts > 0
  /\ starter[s].missing # {} /\ starter[s].step # 1 =>
       Wants[starter[s].step] \subseteq Stored[starter[s].step] \cup starter[s].missing

SeedsInv ==
  /\ starts \in Nat
  /\ DOMAIN seeded = {"tools", "traffic"}
  /\ DOMAIN starter = Starters
  /\ \A s \in Starters : starter[s] # Out => Tracked(s)
  /\ calm /\ starts > 0 => \A i \in 1..4 : Promised(i)

\* An update whose document the row has kept since, but for what came later.
Follows(e) ==
  \A p \in DOMAIN setting[editor[e].category] :
    \/ stamp[editor[e].category][p] > editor[e].since
    \/ /\ p \in DOMAIN editor[e].base
       /\ editor[e].base[p] = setting[editor[e].category][p]

EditsInv ==
  /\ edits \in Nat /\ DOMAIN stamp = Present
  /\ \A c \in Present : DOMAIN stamp[c] = DOMAIN setting[c]
  /\ DOMAIN editor = Editors
  /\ \A e \in Editors : editor[e] # Closed =>
       /\ editor[e].since \in Nat /\ editor[e].since <= edits
       /\ \A p \in DOMAIN editor[e].over : Len(p) \in Nat
       /\ ~editor[e].new => editor[e].category \in Present /\ Follows(e)

SettingsInvariant == SeedsInv /\ EditsInv

LEMMA SettingsStart == SettingsInit => SettingsInvariant
  <1> SUFFICES ASSUME SettingsInit PROVE SettingsInvariant
    OBVIOUS
  <1>1. /\ starts = 0 /\ DOMAIN seeded = {"tools", "traffic"}
        /\ DOMAIN starter = Starters /\ \A s \in Starters : starter[s] = Out
    BY DEF SettingsInit
  <1>2. SeedsInv
    BY <1>1 DEF SeedsInv
  <1>3. /\ Present = {} /\ DOMAIN stamp = {} /\ edits = 0 /\ DOMAIN editor = Editors
        /\ \A e \in Editors : editor[e] = Closed
    BY DEF SettingsInit, Present
  <1>4. EditsInv
    BY <1>3 DEF EditsInv
  <1> QED  BY <1>2, <1>4 DEF SettingsInvariant

\* What a start is about to write is refused if and only if it is blocked.
LEMMA RefusedIsBlocked ==
  ASSUME NEW s \in Starters, starter[s].step \in 1..4
  PROVE  /\ starter[s].step = 1 => Refused(s) = Late(s)
         /\ starter[s].step # 1 => (Refused(s) <=>
              Steps[starter[s].step] # "traffic" /\ Blocked(s))
  <1>1. CASE starter[s].step = 1
    BY <1>1, StepsAre DEF Refused, Late
  <1>2. CASE starter[s].step # 1
    <2>1. starter[s].step \in 2..4
      BY <1>2
    <2>2. /\ Steps[starter[s].step] # "admin"
          /\ Stored[starter[s].step] = There(Steps[starter[s].step])
      BY <2>1, StepsAre
    <2> QED  BY <1>2, <2>2 DEF Refused, Blocked
  <1> QED  BY <1>1, <1>2

\* What updates and starts know stays true when rows only come.
LEMMA SeedsGrow ==
  ASSUME SeedsInv, UNCHANGED <<ownerVars, seeded, starter, starts>>, Present \subseteq Present',
         calm' => calm /\ (Present' = Present \/ Running = {})
  PROVE  SeedsInv'
  <1>1. \A i \in 2..4 : Stored[i] \subseteq Stored'[i]
    BY DEF Stored, There, Present
  <1>2. ASSUME NEW s \in Starters, starter[s] # Out
        PROVE  Tracked(s)'
    <2>1. Tracked(s)
      BY <1>2 DEF SeedsInv
    <2>2. starter[s].step # 1 => Stored[starter[s].step] \subseteq Stored'[starter[s].step]
      BY <1>1, <2>1, StepsAre DEF Tracked
    <2>3. Wants' = Wants
      BY DEF Wants, Wanted
    <2> QED  BY <2>1, <2>2, <2>3 DEF Tracked
  <1>3. ASSUME calm', starts > 0, NEW i \in 1..4
        PROVE  Promised(i)'
    <2>1. Promised(i) /\ touched' = touched /\ (i # 1 => i \in 2..4)
      BY <1>3 DEF SeedsInv, ownerVars
    <2>2. Done(i) => Done(i)'
      <3>1. AdminMissing' = AdminMissing /\ Wants' = Wants
        BY DEF ownerVars, AdminMissing, Wants, Wanted
      <3> QED  BY <1>1, <2>1, <3>1 DEF Done
    <2>3. ASSUME NEW s \in Starters, Able(s, i)
          PROVE  Able(s, i)'
      <3>1. Present' = Present
        BY <1>3, <2>3 DEF Running, Able
      <3>2. Stored' = Stored
        BY <3>1 DEF Stored, There
      <3>3. Blocked(s)' = Blocked(s)
        BY <3>2 DEF Blocked, Late, ownerVars
      <3> QED  BY <2>3, <3>3 DEF Able
    <2> QED  BY <2>1, <2>2, <2>3 DEF Promised
  <1> QED  BY <1>2, <1>3 DEF SeedsInv

\* A start has seen to its step.
LEMMA StepDone ==
  ASSUME SeedsInv, NEW s \in Starters, starter[s] # Out, NEW j \in 1..4, j = starter[s].step,
         starter' = [starter EXCEPT ![s] = NextStep(s)],
         \A i \in 2..4 : Stored[i] \subseteq Stored'[i] /\ (i # j => Stored'[i] = Stored[i]),
         Done(j)', j # 1 => UNCHANGED <<configured, owner, owners>>,
         DOMAIN seeded' = DOMAIN seeded, starts' = starts, calm' = calm, touched' = touched
  PROVE  SeedsInv'
  <1>1. PICK r : r = NextStep(s)
    OBVIOUS
  <1>2. r = IF j = 4 THEN Out ELSE [step |-> j + 1, missing |-> {}, found |-> 0]
    BY <1>1, StepsAre DEF NextStep
  <1>3. /\ DOMAIN starter' = Starters /\ starter'[s] = r
        /\ \A u \in Starters : u # s => starter'[u] = starter[u]
    BY <1>1 DEF SeedsInv
  <1>4. j < 4 => /\ r # Out /\ r.step = j + 1 /\ r.missing = {} /\ j + 1 \in 1..4
                 /\ r = [step |-> r.step, missing |-> r.missing, found |-> r.found]
    <2>1. (j < 4) => j # 4
      OBVIOUS
    <2>2. j + 1 # 0
      OBVIOUS
    <2> QED  BY <1>2, <2>1, <2>2 DEF Out
  <1>5. Wants' = Wants
    BY DEF Wants, Wanted
  <1>6. ASSUME NEW u \in Starters, starter'[u] # Out
        PROVE  Tracked(u)'
    <2>1. CASE u = s
      <3>1. j < 4
        BY <1>2, <1>3, <1>6, <2>1
      <3>2. starts > 0
        BY DEF SeedsInv, Tracked
      <3> QED  BY <1>3, <1>4, <2>1, <3>1, <3>2 DEF Tracked
    <2>2. CASE u # s
      <3>1. starter'[u] = starter[u] /\ Tracked(u)
        BY <1>3, <1>6, <2>2 DEF SeedsInv
      <3>2. starter[u].step # 1 => Stored[starter[u].step] \subseteq Stored'[starter[u].step]
        BY <3>1, StepsAre DEF Tracked
      <3> QED  BY <1>5, <3>1, <3>2 DEF Tracked
    <2> QED  BY <2>1, <2>2
  <1>7. ASSUME calm', starts' > 0, NEW i \in 1..4
        PROVE  Promised(i)'
    <2>1. Promised(i) /\ (i # 1 => i \in 2..4)
      BY <1>7 DEF SeedsInv
    <2>2. i # j /\ ~(i > j) /\ Done(i) => Done(i)'
      <3>1. j # 1 => AdminMissing' = AdminMissing
        BY DEF AdminMissing
      <3> QED  BY <1>5, <2>1, <3>1 DEF Done
    <2>3. i > j => Able(s, i)'
      BY <1>2, <1>3, <1>4 DEF Able
    <2>4. ASSUME NEW u \in Starters, Able(u, i), i # j, ~(i > j)
          PROVE  Able(u, i)'
      <3>1. starter[u] # Out /\ starter[u].step \in 1..4 /\ starter[u].step <= i
        BY <2>4 DEF Able, SeedsInv, Tracked
      <3>2. starter[u].step # j /\ u # s /\ j # 1
        BY <2>4, <3>1
      <3>3. starter'[u] = starter[u] /\ UNCHANGED <<owner, owners>>
        BY <1>3, <3>2
      <3>4. starter[u].step # 1 => Stored'[starter[u].step] = Stored[starter[u].step]
        BY <3>1, <3>2, StepsAre
      <3>5. Blocked(u)' = Blocked(u)
        BY <3>3, <3>4 DEF Blocked, Late
      <3> QED  BY <2>4, <3>3, <3>5 DEF Able
    <2> QED  BY <2>1, <2>2, <2>3, <2>4 DEF Promised
  <1> QED  BY <1>3, <1>6, <1>7 DEF SeedsInv

\* A start ends, not able to see to anything, or is not calm.
LEMMA StartEnds ==
  ASSUME SeedsInv, NEW s \in Starters, starter' = [starter EXCEPT ![s] = Out],
         UNCHANGED <<configured, owner, owners, touched>>,
         Stored' = Stored, DOMAIN seeded' = DOMAIN seeded, starts' = starts,
         calm' => calm /\ \A i \in 1..4 : ~Able(s, i)
  PROVE  SeedsInv'
  <1>1. /\ DOMAIN starter' = Starters /\ starter'[s] = Out
        /\ \A u \in Starters : u # s => starter'[u] = starter[u]
    BY DEF SeedsInv
  <1>2. Wants' = Wants /\ AdminMissing' = AdminMissing
    BY DEF Wants, Wanted, AdminMissing
  <1>3. \A u \in Starters : starter'[u] # Out => Tracked(u)'
    BY <1>1, <1>2 DEF SeedsInv, Tracked
  <1>4. ASSUME calm', starts' > 0, NEW i \in 1..4
        PROVE  Promised(i)'
    <2>1. Promised(i)
      BY <1>4 DEF SeedsInv
    <2>2. ASSUME NEW u \in Starters, Able(u, i) PROVE Able(u, i)'
      <3>1. u # s
        BY <1>4, <2>2
      <3> QED  BY <1>1, <2>2, <3>1 DEF Able, Blocked, Late
    <2> QED  BY <1>2, <2>1, <2>2 DEF Done, Promised
  <1> QED  BY <1>1, <1>3, <1>4 DEF SeedsInv

LEMMA StartBegins ==
  ASSUME SeedsInv, NEW s \in Starters, Starts(s)
  PROVE  SeedsInv'
  <1>1. PICK r : r = [step |-> 1, missing |-> {}, found |-> 0]
    OBVIOUS
  <1>2. /\ starter[s] = Out /\ starts' = starts + 1 /\ starts \in Nat
        /\ starter' = [starter EXCEPT ![s] = r]
        /\ UNCHANGED <<setting, seeded>>
    BY <1>1 DEF Starts, SeedsInv
  <1>3. /\ DOMAIN starter' = Starters /\ starter'[s] = r
        /\ \A u \in Starters : u # s => starter'[u] = starter[u]
    BY <1>2 DEF SeedsInv
  <1>4. Stored' = Stored /\ Wants' = Wants
    BY <1>2 DEF Stored, There, Present, Wants, Wanted
  <1>5. /\ r # Out /\ r.step = 1 /\ r.missing = {} /\ starts' > 0
        /\ r = [step |-> r.step, missing |-> r.missing, found |-> r.found]
    BY <1>1, <1>2 DEF Out
  <1>6. \A i \in 1..4 : Able(s, i)'
    BY <1>3, <1>5 DEF Able
  <1>7. ASSUME NEW u \in Starters, starter'[u] # Out
        PROVE  Tracked(u)'
    <2>1. CASE u = s
      BY <1>3, <1>5, <2>1 DEF Tracked
    <2>2. CASE u # s
      BY <1>2, <1>3, <1>4, <1>7, <2>2 DEF SeedsInv, Tracked
    <2> QED  BY <2>1, <2>2
  <1> QED  BY <1>2, <1>3, <1>6, <1>7 DEF SeedsInv, Promised

LEMMA Reads ==
  ASSUME SeedsInv, NEW s \in Starters, StepReads(s)
  PROVE  SeedsInv'
  <1>1. /\ starter[s] # Out /\ starter[s].missing = {} /\ starter[s].step \in 1..4
        /\ Tracked(s) /\ UNCHANGED <<setting, ownerVars, seeded, starts, calm>>
        /\ UNCHANGED <<configured, owner, owners, touched>>
    BY DEF StepReads, SeedsInv, Tracked, ownerVars
  <1>2. PICK j \in 1..4 : j = starter[s].step
    BY <1>1
  <1>3. PICK missing : missing = IF j = 1 THEN AdminMissing ELSE Wants[j] \ Stored[j]
    OBVIOUS
  <1>4. starter' = [starter EXCEPT ![s] = IF missing = {} THEN NextStep(s)
          ELSE [step |-> starter[s].step, missing |-> missing, found |-> owners]]
    <2>1. Missing(Steps[starter[s].step]) = missing
      <3>1. CASE j = 1
        BY <1>2, <1>3, <3>1, StepsAre DEF Missing
      <3>2. CASE j # 1
        <4>1. j \in 2..4
          BY <3>2
        <4> QED  BY <1>2, <1>3, <3>2, <4>1, StepsAre DEF Missing
      <3> QED  BY <3>1, <3>2
    <2> QED  BY <2>1 DEF StepReads
  <1>5. Stored' = Stored /\ Wants' = Wants /\ AdminMissing' = AdminMissing
    BY <1>1 DEF Stored, There, Present, Wants, Wanted, AdminMissing
  <1>6. CASE missing = {}
    <2>1. Done(j)'
      BY <1>3, <1>5, <1>6 DEF Done
    <2> QED  BY <1>1, <1>2, <1>4, <1>5, <1>6, <2>1, StepDone
  <1>7. CASE missing # {}
    <2>1. PICK r : r = [step |-> j, missing |-> missing, found |-> owners]
      OBVIOUS
    <2>2. starter' = [starter EXCEPT ![s] = r]
      <3>1. starter' = [starter EXCEPT ![s] =
             [step |-> starter[s].step, missing |-> missing, found |-> owners]]
        BY <1>4, <1>7
      <3> QED  BY <1>2, <2>1, <3>1
    <2>3. /\ DOMAIN starter' = Starters /\ starter'[s] = r
          /\ \A u \in Starters : u # s => starter'[u] = starter[u]
      BY <2>2 DEF SeedsInv
    <2>4. /\ r # Out /\ r.step = j /\ r.missing = missing /\ r.found = owners
          /\ r = [step |-> r.step, missing |-> r.missing, found |-> r.found]
      BY <1>7, <2>1 DEF Out
    <2>5. ~Blocked(s)'
      <3>1. CASE j = 1
        <4>1. missing = {"account"} => owner = "none"
          <5>1. {"promotion"} # {"account"} /\ {} # {"account"}
            OBVIOUS
          <5>2. missing = AdminMissing
            BY <1>3, <3>1
          <5> QED  BY <5>1, <5>2 DEF AdminMissing
        <4>2. missing # {"account"} => owner # "none"
          BY <1>3, <1>7, <3>1 DEF AdminMissing
        <4> QED  BY <1>1, <2>3, <2>4, <3>1, <4>1, <4>2 DEF Blocked, Late
      <3>2. CASE j # 1
        BY <1>3, <1>5, <2>3, <2>4, <3>2 DEF Blocked
      <3> QED  BY <3>1, <3>2
    <2>6. ASSUME NEW u \in Starters, NEW i \in 1..4, Able(u, i) PROVE Able(u, i)'
      <3>1. CASE u = s
        BY <1>2, <2>3, <2>4, <2>5, <2>6, <3>1 DEF Able
      <3>2. CASE u # s
        BY <1>1, <1>5, <2>3, <2>6, <3>2 DEF Able, Blocked, Late
      <3> QED  BY <3>1, <3>2
    <2>7. ASSUME NEW u \in Starters, starter'[u] # Out
          PROVE  Tracked(u)'
      <3>1. CASE u = s
        <4>1. j # 1 => Wants[j] \subseteq Stored[j] \cup missing
          BY <1>3
        <4> QED  BY <1>1, <1>5, <2>3, <2>4, <3>1, <4>1 DEF Tracked
      <3>2. CASE u # s
        BY <1>1, <1>5, <2>3, <2>7, <3>2 DEF SeedsInv, Tracked
      <3> QED  BY <3>1, <3>2
    <2>8. \A i \in 1..4 : Promised(i) => Promised(i)'
      BY <1>1, <1>5, <2>6 DEF Promised, Done
    <2> QED  BY <1>1, <2>3, <2>7, <2>8 DEF SeedsInv
  <1> QED  BY <1>6, <1>7

\* The rows a start found missing are all refused, or all stored; visits are
\* stored in either case.
LEMMA Inserts ==
  ASSUME SeedsInv, NEW s \in Starters, StepInserts(s)
  PROVE  SeedsInv'
  <1>1. starter[s] # Out /\ starter[s].missing # {}
        /\ UNCHANGED <<configured, touched, starts, calm>>
    BY DEF StepInserts, Out
  <1>2. PICK j \in 1..4 : j = starter[s].step
    BY <1>1 DEF SeedsInv, Tracked
  <1>3. PICK missing : missing = starter[s].missing
    OBVIOUS
  <1>4. j # 1 => j \in 2..4 /\ Wants[j] \subseteq Stored[j] \cup missing
    BY <1>1, <1>2, <1>3 DEF SeedsInv, Tracked
  <1>5. CASE Refused(s)
    <2>1. starter' = [starter EXCEPT ![s] = Out] /\ UNCHANGED <<setting, owner, owners, seeded>>
      BY <1>5 DEF StepInserts
    <2>2. Stored' = Stored
      BY <2>1 DEF Stored, There, Present
    <2>3. Blocked(s)
      BY <1>2, <1>5, RefusedIsBlocked DEF Blocked
    <2>4. \A i \in 1..4 : ~Able(s, i)
      BY <1>1, <2>3 DEF Able
    <2> QED  BY <1>1, <2>1, <2>2, <2>4, StartEnds
  <1>6. CASE ~Refused(s) /\ j = 1
    <2>1. /\ starter' = [starter EXCEPT ![s] = NextStep(s)] /\ owner' = "admin"
          /\ UNCHANGED <<setting, seeded>>
      BY <1>2, <1>6, StepsAre DEF StepInserts, Stores
    <2>2. Stored' = Stored
      BY <2>1 DEF Stored, There, Present
    <2>3. Done(j)'
      BY <1>6, <2>1 DEF Done, AdminMissing
    <2> QED  BY <1>1, <1>2, <1>6, <2>1, <2>2, <2>3, StepDone
  <1>7. CASE ~Refused(s) /\ j # 1
    <2>1. /\ starter' = [starter EXCEPT ![s] = NextStep(s)] /\ UNCHANGED <<owner, owners>>
          /\ IF Steps[j] = "settings"
               THEN /\ Present' = Present \cup missing
                    /\ UNCHANGED seeded
               ELSE /\ seeded' = [seeded EXCEPT ![Steps[j]] = @ \cup missing]
                    /\ UNCHANGED setting
      <3>1. Steps[j] # "admin" /\ Stores(Steps[j], missing)
            /\ starter' = [starter EXCEPT ![s] = NextStep(s)]
        BY <1>2, <1>3, <1>4, <1>7, StepsAre DEF StepInserts
      <3> QED  BY <3>1 DEF Stores, Present
    <2>2. /\ DOMAIN seeded' = DOMAIN seeded /\ Stored'[j] = Stored[j] \cup missing
          /\ \A i \in 2..4 : i # j => Stored'[i] = Stored[i]
      <3>1. CASE j = 3
        <4>1. Present' = Present \cup missing /\ seeded' = seeded
          BY <1>4, <1>7, <2>1, <3>1, StepsAre
        <4>2. \A i \in 2..4 : Stored'[i] = IF i = 3 THEN Present' ELSE seeded'[Steps[i]]
          BY StepsAre DEF Stored, There
        <4> QED  BY <1>4, <1>7, <3>1, <4>1, <4>2, StepsAre
      <3>2. CASE j # 3
        <4>1. seeded' = [seeded EXCEPT ![Steps[j]] = @ \cup missing] /\ Present' = Present
          BY <1>4, <1>7, <2>1, <3>2, StepsAre DEF Present
        <4>2. \A i \in 2..4 : Stored'[i] = IF i = 3 THEN Present' ELSE seeded'[Steps[i]]
          BY StepsAre DEF Stored, There
        <4>3. Steps[j] \in DOMAIN seeded
          BY <1>4, <1>7, <3>2, StepsAre DEF SeedsInv
        <4>4. seeded'[Steps[j]] = seeded[Steps[j]] \cup missing /\ DOMAIN seeded' = DOMAIN seeded
          BY <4>1, <4>3
        <4>5. \A i \in 2..4 : i # j /\ i # 3 => seeded'[Steps[i]] = seeded[Steps[i]]
          <5> SUFFICES ASSUME NEW i \in 2..4, i # j, i # 3
                       PROVE  seeded'[Steps[i]] = seeded[Steps[i]]
            OBVIOUS
          <5>1. Steps[i] # Steps[j] /\ Steps[i] \in DOMAIN seeded
            BY <1>4, <1>7, StepsAre DEF SeedsInv
          <5> QED  BY <4>1, <5>1
        <4> QED  BY <1>4, <1>7, <3>2, <4>1, <4>2, <4>4, <4>5, StepsAre
      <3> QED  BY <3>1, <3>2
    <2>3. Done(j)'
      <3>1. Wants' = Wants
        BY DEF Wants, Wanted
      <3> QED  BY <1>4, <1>7, <2>2, <3>1 DEF Done
    <2> QED  BY <1>1, <1>2, <1>7, <2>1, <2>2, <2>3, StepDone
  <1> QED  BY <1>5, <1>6, <1>7

\* Somebody else changes the account of ADMIN_EMAIL.
LEMMA OwnerMoves ==
  ASSUME SeedsInv, NEW standing, OwnerChanges(standing)
  PROVE  SeedsInv'
  <1>1. /\ UNCHANGED <<setting, seeded, starter, starts>>
        /\ calm' = (calm /\ \A s \in Running : ~Ensuring(s))
        /\ touched' = (touched \/ Running = {} \/ \E s \in Running : Looked(s))
    BY DEF OwnerChanges
  <1>2. Stored' = Stored /\ Wants' = Wants
    BY <1>1 DEF Stored, There, Present, Wants, Wanted
  <1>3. \A s \in Starters : starter'[s] # Out => Tracked(s)'
    BY <1>1, <1>2 DEF SeedsInv, Tracked
  <1>4. ASSUME calm', starts' > 0, NEW i \in 1..4
        PROVE  Promised(i)'
    <2>1. Promised(i) /\ calm
      BY <1>1, <1>4 DEF SeedsInv
    <2>2. ASSUME NEW s \in Starters, Able(s, i) PROVE Able(s, i)'
      <3>1. s \in Running /\ ~Ensuring(s)
        BY <1>1, <1>4, <2>2 DEF Running, Able
      <3>2. starter[s].missing # {} => Blocked(s)' = Blocked(s)
        BY <1>1, <1>2, <3>1 DEF Ensuring, Blocked
      <3> QED  BY <1>1, <2>2, <3>2 DEF Able
    <2>3. CASE i # 1
      BY <1>2, <2>1, <2>2, <2>3 DEF Promised, Done
    <2>4. CASE i = 1 /\ touched'
      BY <2>4 DEF Promised
    <2>5. CASE i = 1 /\ ~touched'
      <3>1. PICK s \in Running : ~Looked(s)
        BY <1>1, <2>5
      <3>2. s \in Starters /\ starter[s] # Out /\ Tracked(s)
        BY <3>1 DEF Running, SeedsInv
      <3>3. starter[s].step <= 1 /\ starter[s].missing = {}
        BY <3>1, <3>2 DEF Looked, Tracked
      <3>4. Able(s, i)'
        BY <1>1, <2>5, <3>2, <3>3 DEF Able
      <3> QED  BY <3>2, <3>4 DEF Promised
    <2> QED  BY <2>3, <2>4, <2>5
  <1> QED  BY <1>1, <1>3, <1>4 DEF SeedsInv

\* A path is itself in the way of a leaf there.
LEMMA Mentioned ==
  ASSUME NEW over, \A p \in DOMAIN over : Len(p) \in Nat, NEW p \in DOMAIN over
  PROVE  Touches(over, p)
  <1>1. Len(p) \in Nat
    OBVIOUS
  <1>2. Len(p) <= Len(p)
    BY <1>1
  <1> QED  BY <1>2 DEF Touches, Clash, IsPrefix

\* Updates know what they know while the categories they are about are as they
\* were.
LEMMA RowsAdded ==
  ASSUME EditsInv, Present \subseteq Present', DOMAIN stamp' = Present',
         \A c \in Present : setting'[c] = setting[c] /\ stamp'[c] = stamp[c],
         \A c \in Present' : DOMAIN stamp'[c] = DOMAIN setting'[c],
         edits' \in {edits, edits + 1}, DOMAIN editor' = Editors,
         \A e \in Editors : editor'[e] # Closed => editor'[e] = editor[e]
  PROVE  EditsInv'
  <1>1. edits' \in Nat /\ edits <= edits' /\ edits \in Nat
    BY DEF EditsInv
  <1>2. ASSUME NEW e \in Editors, editor'[e] # Closed
        PROVE  /\ editor'[e].since \in Nat /\ editor'[e].since <= edits'
               /\ \A p \in DOMAIN editor'[e].over : Len(p) \in Nat
               /\ ~editor'[e].new => editor'[e].category \in Present' /\ Follows(e)'
    <2>1. editor'[e] = editor[e]
      BY <1>2
    <2>2. editor[e].since \in Nat /\ editor[e].since <= edits'
      BY <1>1, <1>2, <2>1 DEF EditsInv
    <2>3. ~editor[e].new => editor[e].category \in Present /\ Follows(e)
      BY <1>2, <2>1 DEF EditsInv
    <2>4. ~editor[e].new => Follows(e)'
      BY <2>1, <2>3 DEF Follows
    <2>5. \A p \in DOMAIN editor[e].over : Len(p) \in Nat
      BY <1>2, <2>1 DEF EditsInv
    <2> QED  BY <2>1, <2>2, <2>3, <2>4, <2>5
  <1> QED  BY <1>1, <1>2 DEF EditsInv

\* A document that an update writes: what the update does not mention and what
\* has not changed since it loaded the document is there as before.
LEMMA Writes ==
  ASSUME EditsInv, NEW e \in Editors, editor[e] # Closed,
         NEW c, NEW over, NEW doc, c = editor[e].category, over = editor[e].over,
         editor[e].new <=> c \notin Present,
         doc = DeepMerge(editor[e].base, over), Write(c, doc, over),
         edits' = edits + 1, editor' = [editor EXCEPT ![e] = Closed]
  PROVE  EditsInv' /\ SettledStays /\ Present' = Present \cup {c}
  <1>1. PICK old : old = IF c \in Present THEN setting[c] ELSE <<>>
    OBVIOUS
  <1>2. PICK stamps : stamps = [p \in DOMAIN doc |->
                                  IF p \in DOMAIN old /\ old[p] = doc[p] /\ p \notin DOMAIN over
                                    THEN stamp[c][p] ELSE edits + 1]
    OBVIOUS
  <1>3. /\ setting' = [d \in Present \cup {c} |-> IF d = c THEN doc ELSE setting[d]]
        /\ stamp' = [d \in Present \cup {c} |-> IF d = c THEN stamps ELSE stamp[d]]
    BY <1>1, <1>2 DEF Write
  <1>4. /\ Present' = Present \cup {c} /\ DOMAIN stamp' = Present'
        /\ setting'[c] = doc /\ stamp'[c] = stamps /\ DOMAIN stamps = DOMAIN doc
        /\ \A d \in Present : d # c => setting'[d] = setting[d] /\ stamp'[d] = stamp[d]
    BY <1>2, <1>3 DEF Present
  <1>5. /\ edits \in Nat /\ edits' \in Nat /\ editor'[e] = Closed /\ DOMAIN editor' = Editors
        /\ \A u \in Editors : u # e => editor'[u] = editor[u]
    BY DEF EditsInv
  <1>6. \A d \in Present' : DOMAIN stamp'[d] = DOMAIN setting'[d]
    BY <1>4 DEF EditsInv
  <1>7. ASSUME NEW u \in Editors, editor'[u] # Closed
        PROVE  /\ editor'[u].since \in Nat /\ editor'[u].since <= edits'
               /\ \A p \in DOMAIN editor'[u].over : Len(p) \in Nat
               /\ ~editor'[u].new => editor'[u].category \in Present' /\ Follows(u)'
    <2>1. u # e /\ editor'[u] = editor[u] /\ editor[u] # Closed
      BY <1>5, <1>7
    <2>2. /\ editor[u].since \in Nat /\ editor[u].since <= edits
          /\ \A p \in DOMAIN editor[u].over : Len(p) \in Nat
          /\ ~editor[u].new => editor[u].category \in Present /\ Follows(u)
      BY <2>1 DEF EditsInv
    <2>3. ASSUME ~editor[u].new PROVE Follows(u)'
      <3>1. CASE editor[u].category # c
        BY <1>4, <2>1, <2>2, <2>3, <3>1 DEF Follows
      <3>2. CASE editor[u].category = c
        <4>1. c \in Present /\ old = setting[c]
          BY <1>1, <2>2, <2>3, <3>2
        <4>2. ASSUME NEW p \in DOMAIN doc
              PROVE  \/ stamps[p] > editor[u].since
                     \/ p \in DOMAIN editor[u].base /\ editor[u].base[p] = doc[p]
          <5>1. CASE p \in DOMAIN old /\ old[p] = doc[p] /\ p \notin DOMAIN over
            <6>1. stamps[p] = stamp[c][p]
              BY <1>2, <5>1
            <6> QED  BY <2>2, <2>3, <3>2, <4>1, <5>1, <6>1 DEF Follows
          <5>2. CASE ~(p \in DOMAIN old /\ old[p] = doc[p] /\ p \notin DOMAIN over)
            <6>1. stamps[p] = edits + 1
              BY <1>2, <5>2
            <6> QED  BY <1>5, <2>2, <6>1
          <5> QED  BY <5>1, <5>2
        <4> QED  BY <1>4, <2>1, <3>2, <4>2 DEF Follows
      <3> QED  BY <3>1, <3>2
    <2> QED  BY <1>4, <1>5, <2>1, <2>2, <2>3
  <1>8. EditsInv'
    BY <1>4, <1>5, <1>6, <1>7 DEF EditsInv
  <1>9. SettledStays
    <2> SUFFICES ASSUME NEW d \in Present, NEW p \in DOMAIN setting[d],
                        p \notin DOMAIN setting'[d] \/ setting'[d][p] # setting[d][p]
                 PROVE  \E u \in Editors :
                          /\ editor[u] # Closed /\ editor'[u] = Closed
                          /\ editor[u].category = d
                          /\ Touches(editor[u].over, p) \/ stamp[d][p] > editor[u].since
      BY DEF SettledStays
    <2>1. d = c
      BY <1>4
    <2>2. ~editor[e].new /\ Follows(e) /\ \A q \in DOMAIN over : Len(q) \in Nat
      BY <2>1 DEF EditsInv
    <2>3. Touches(over, p) \/ stamp[d][p] > editor[e].since
      <3> SUFFICES ASSUME ~Touches(over, p), ~(stamp[d][p] > editor[e].since)
                   PROVE  FALSE
        OBVIOUS
      <3>1. p \in DOMAIN editor[e].base /\ editor[e].base[p] = setting[d][p]
        BY <2>1, <2>2 DEF Follows
      <3>2. p \notin DOMAIN over
        BY <2>2, Mentioned
      <3>3. p \in DOMAIN doc /\ doc[p] = editor[e].base[p]
        BY <3>1, <3>2 DEF DeepMerge
      <3> QED  BY <1>4, <2>1, <3>1, <3>3
    <2> QED  BY <1>5, <2>1, <2>3
  <1> QED  BY <1>4, <1>8, <1>9

\* Where no document loses anything.
LEMMA NothingLost ==
  ASSUME \A c \in Present : setting'[c] = setting[c]
  PROVE  SettledStays
  BY DEF SettledStays

LEMMA LoadsSetting ==
  ASSUME SettingsInvariant, NEW e \in Editors, NEW category, NEW over,
         \A p \in DOMAIN over : Len(p) \in Nat, LoadSetting(e, category, over)
  PROVE  SettingsInvariant' /\ SettledStays
  <1>1. PICK base : base = IF category \in Present THEN setting[category] ELSE <<>>
    OBVIOUS
  <1>2. PICK new \in BOOLEAN : new = (category \notin Present)
    OBVIOUS
  <1>3. PICK r : r = [stage |-> "loaded", category |-> category, over |-> over, new |-> new,
                      base |-> base, since |-> edits]
    OBVIOUS
  <1>4. /\ editor' = [editor EXCEPT ![e] = r]
        /\ UNCHANGED <<setting, stamp, edits, ownerVars, seeded, starter, starts, calm>>
    BY <1>1, <1>2, <1>3 DEF LoadSetting
  <1>5. /\ editor'[e] = r /\ DOMAIN editor' = Editors
        /\ \A u \in Editors : u # e => editor'[u] = editor[u]
    BY <1>4 DEF SettingsInvariant, EditsInv
  <1>6. r.over = over /\ r.base = base /\ r.since = edits /\ r.category = category
        /\ (~r.new => category \in Present)
    BY <1>2, <1>3
  <1>7. ASSUME NEW u \in Editors, editor'[u] # Closed
        PROVE  /\ editor'[u].since \in Nat /\ editor'[u].since <= edits
               /\ \A p \in DOMAIN editor'[u].over : Len(p) \in Nat
               /\ ~editor'[u].new => editor'[u].category \in Present /\ Follows(u)'
    <2>1. CASE u = e
      <3>1. edits \in Nat
        BY DEF SettingsInvariant, EditsInv
      <3>2. ~r.new => \A p \in DOMAIN setting[category] :
                        p \in DOMAIN base /\ base[p] = setting[category][p]
        BY <1>1, <1>6
      <3>3. ~r.new => Follows(u)'
        BY <1>4, <1>5, <1>6, <2>1, <3>2 DEF Follows
      <3> QED  BY <1>5, <1>6, <2>1, <3>1, <3>3
    <2>2. CASE u # e
      <3>1. editor'[u] = editor[u] /\ editor[u] # Closed
        BY <1>5, <1>7, <2>2
      <3>2. Follows(u) => Follows(u)'
        BY <1>4, <3>1 DEF Follows
      <3> QED  BY <3>1, <3>2 DEF SettingsInvariant, EditsInv
    <2> QED  BY <2>1, <2>2
  <1>8. EditsInv'
    BY <1>4, <1>5, <1>7 DEF SettingsInvariant, EditsInv, Present
  <1>9. SeedsInv'
    BY <1>4, SeedsGrow DEF SettingsInvariant, Present
  <1> QED  BY <1>4, <1>8, <1>9, NothingLost DEF SettingsInvariant

LEMMA CommitsSetting ==
  ASSUME SettingsInvariant, NEW e \in Editors, CommitSetting(e)
  PROVE  SettingsInvariant' /\ SettledStays
  <1>1. PICK c, over, doc : /\ c = editor[e].category /\ over = editor[e].over
                            /\ doc = DeepMerge(editor[e].base, over)
    OBVIOUS
  <1>2. /\ editor[e] # Closed /\ edits' = edits + 1 /\ editor' = [editor EXCEPT ![e] = Closed]
        /\ UNCHANGED <<ownerVars, seeded, starter, starts>>
        /\ calm' = (calm /\ ~(editor[e].new /\ c \notin Present /\ Running # {}))
    BY <1>1 DEF CommitSetting
  <1>3. /\ DOMAIN editor' = Editors /\ editor'[e] = Closed
        /\ \A u \in Editors : u # e => editor'[u] = editor[u]
    BY <1>2 DEF SettingsInvariant, EditsInv
  <1>4. CASE UNCHANGED <<setting, stamp>>
    <2>1. Present' = Present
      BY <1>4 DEF Present
    <2>2. EditsInv'
      BY <1>2, <1>3, <1>4, <2>1, RowsAdded DEF SettingsInvariant, EditsInv
    <2>3. SeedsInv'
      BY <1>2, <2>1, SeedsGrow DEF SettingsInvariant
    <2> QED  BY <1>4, <2>2, <2>3, NothingLost DEF SettingsInvariant
  <1>5. CASE /\ ~(IF editor[e].new THEN c \in Present ELSE doc = editor[e].base)
             /\ Write(c, doc, over)
    <2>1. editor[e].new <=> c \notin Present
      BY <1>1, <1>2, <1>5 DEF SettingsInvariant, EditsInv
    <2>2. EditsInv' /\ SettledStays /\ Present' = Present \cup {c}
      BY <1>1, <1>2, <1>5, <2>1, Writes DEF SettingsInvariant
    <2>3. calm' => calm /\ (Present' = Present \/ Running = {})
      BY <1>2, <2>1, <2>2
    <2>4. SeedsInv'
      BY <1>2, <2>2, <2>3, SeedsGrow DEF SettingsInvariant
    <2> QED  BY <2>2, <2>4 DEF SettingsInvariant
  <1> QED  BY <1>1, <1>4, <1>5 DEF CommitSetting

\* The documents while a start is under way.
LEMMA StartsEdit ==
  ASSUME EditsInv, NEW s \in Starters,
         Starts(s) \/ StepReads(s) \/ StepInserts(s) \/ StartDies(s)
  PROVE  EditsInv' /\ SettledStays
  <1>1. UNCHANGED <<edits, editor>>
    BY DEF Starts, StepReads, StepInserts, StartDies
  <1>2. CASE UNCHANGED <<setting, stamp>>
    <2>1. EditsInv'
      BY <1>1, <1>2 DEF EditsInv, Follows, Present
    <2> QED  BY <1>2, <2>1, NothingLost
  <1>3. ASSUME NEW missing,
               setting' = [c \in Present \cup missing |->
                             IF c \in Present THEN setting[c] ELSE DefaultSettings[c]],
               stamp' = [c \in Present \cup missing |->
                           IF c \in Present THEN stamp[c]
                           ELSE [p \in DOMAIN DefaultSettings[c] |-> edits + 1]]
        PROVE  EditsInv' /\ SettledStays
    <2>1. /\ Present' = Present \cup missing /\ DOMAIN stamp' = Present'
          /\ \A c \in Present : setting'[c] = setting[c] /\ stamp'[c] = stamp[c]
      BY <1>3 DEF Present
    <2>2. \A c \in Present' : DOMAIN stamp'[c] = DOMAIN setting'[c]
      BY <1>3, <2>1 DEF EditsInv
    <2>3. EditsInv'
      BY <1>1, <2>1, <2>2, RowsAdded DEF EditsInv
    <2> QED  BY <2>1, <2>3, NothingLost
  <1>4. UNCHANGED <<setting, stamp>> \/ \E missing :
          /\ setting' = [c \in Present \cup missing |->
                           IF c \in Present THEN setting[c] ELSE DefaultSettings[c]]
          /\ stamp' = [c \in Present \cup missing |->
                         IF c \in Present THEN stamp[c]
                         ELSE [p \in DOMAIN DefaultSettings[c] |-> edits + 1]]
    BY DEF Starts, StepReads, StepInserts, StartDies, Stores
  <1> QED  BY <1>2, <1>3, <1>4

LEMMA SettingsStep ==
  ASSUME SettingsInvariant, [SettingsNext]_settingVars
  PROVE  SettingsInvariant' /\ [SettledStays]_settingVars
  <1>1. CASE UNCHANGED settingVars
    <2>1. SeedsInv'
      BY <1>1, SeedsGrow DEF settingVars, SettingsInvariant, Present
    <2>2. EditsInv'
      BY <1>1 DEF settingVars, SettingsInvariant, EditsInv, Follows, Present
    <2> QED  BY <1>1, <2>1, <2>2 DEF SettingsInvariant
  <1>2. ASSUME NEW e \in Editors,
               NEW kind \in {"logo", "favicon", "other"}, NEW type \in {"image", "other"},
               NEW size \in {"none", "some", "too_much"}, UploadAsset(e, kind, type, size)
        PROVE  SettingsInvariant' /\ SettledStays
    <2>1. PICK over : over = [p \in {<<kind>>} |-> AssetValue]
      OBVIOUS
    <2>2. \A p \in DOMAIN over : Len(p) \in Nat
      <3>1. Len(<<kind>>) \in Nat
        OBVIOUS
      <3>2. DOMAIN over = {<<kind>>}
        BY <2>1
      <3> QED  BY <3>1, <3>2
    <2> QED  BY <1>2, <2>1, <2>2, LoadsSetting DEF UploadAsset
  <1>3. ASSUME NEW e \in Editors, NEW pair \in Overrides, LoadSetting(e, pair[1], pair[2])
        PROVE  SettingsInvariant' /\ SettledStays
    <2>1. \A p \in DOMAIN pair[2] : Len(p) \in Nat
      <3>1. \A p : p \in Seq(STRING) => Len(p) \in Nat
        OBVIOUS
      <3> QED  BY <3>1, SettingsAssumption
    <2> QED  BY <1>3, <2>1, LoadsSetting
  <1>4. ASSUME NEW s \in Starters,
               Starts(s) \/ StepReads(s) \/ StepInserts(s) \/ StartDies(s)
        PROVE  SettingsInvariant' /\ SettledStays
    <2>1. EditsInv' /\ SettledStays
      BY <1>4, StartsEdit DEF SettingsInvariant
    <2>2. ASSUME StartDies(s) PROVE SeedsInv'
      <3>1. /\ starter' = [starter EXCEPT ![s] = Out] /\ ~calm'
            /\ UNCHANGED <<setting, configured, owner, owners, touched, seeded, starts>>
        BY <2>2 DEF StartDies, ownerVars
      <3>2. Stored' = Stored
        BY <3>1 DEF Stored, There, Present
      <3> QED  BY <3>1, <3>2, StartEnds DEF SettingsInvariant
    <2>3. SeedsInv'
      BY <1>4, <2>2, StartBegins, Reads, Inserts DEF SettingsInvariant
    <2> QED  BY <2>1, <2>3 DEF SettingsInvariant
  <1>5. ASSUME NEW standing, OwnerChanges(standing)
        PROVE  SettingsInvariant' /\ SettledStays
    <2>1. UNCHANGED <<setting, stamp, edits, editor>>
      BY <1>5 DEF OwnerChanges
    <2>2. EditsInv'
      BY <2>1 DEF SettingsInvariant, EditsInv, Follows, Present
    <2> QED  BY <1>5, <2>1, <2>2, OwnerMoves, NothingLost DEF SettingsInvariant
  <1> QED  BY <1>1, <1>2, <1>3, <1>4, <1>5, CommitsSetting DEF SettingsNext

\* For any number of updates and starts side by side: an update takes away or
\* changes only what it mentions and what was set after it had read the document.
THEOREM SettledChangesAlwaysStay == SettingsSpec => SettledChangesStay
  <1> QED  BY SettingsStart, SettingsStep, PTL DEF SettingsSpec, SettledChangesStay

\* For any number of processes starting side by side: when none is, everything a
\* start wants is there, unless one died, or somebody got in the way of a write
\* (services/admin_bootstrap.py:360); the account of ADMIN_EMAIL is, unless it
\* was changed after a start had looked at it.
THEOREM StartsAlwaysSeed == SettingsSpec => []StartsSeed
  <1>1. SettingsInvariant => StartsSeed
    <2> SUFFICES ASSUME SettingsInvariant, calm, Running = {}, starts > 0
                 PROVE  /\ touched \/ AdminMissing = {}
                        /\ \A i \in 2..Len(Steps) : Wanted(Steps[i]) \subseteq There(Steps[i])
      BY DEF StartsSeed
    <2>1. \A s \in Starters, i \in 1..4 : ~Able(s, i)
      BY DEF Able, Running
    <2>2. \A i \in 1..4 : (i = 1 /\ touched) \/ Done(i)
      BY <2>1 DEF SettingsInvariant, SeedsInv, Promised
    <2>3. touched \/ AdminMissing = {}
      BY <2>2 DEF Done
    <2>4. \A i \in 2..4 : Wants[i] \subseteq Stored[i]
      BY <2>2 DEF Done
    <2> QED  BY <2>3, <2>4, StepsAre
  <1> QED  BY <1>1, SettingsStart, SettingsStep, PTL DEF SettingsSpec

-----------------------------------------------------------------------------
(* The error log.                                                           *)

ErrorRows == [fp: Fingerprints, count: Nat, resolved: BOOLEAN]
Writing == [stage: {"writing"}, fp: Fingerprints, row: Nat, count: Nat]

ErrorsTyped ==
  /\ logged \in Nat /\ DOMAIN log \subseteq 1..logged
  /\ log \in [DOMAIN log -> ErrorRows]
  /\ capture \in [Captures -> {Waiting} \cup Writing]
  /\ happened \in [Fingerprints -> Nat] /\ forgotten \in [Fingerprints -> Nat]
  /\ lost \in [Fingerprints -> [Reasons -> Nat]]
  /\ \A fp \in Fingerprints : IsFiniteSet(InHand(fp))

\* A capture that saw a row counts in that row or in none.
SeesItsOwn ==
  \A c \in Captures : capture[c] # Waiting =>
    /\ capture[c].row <= logged
    /\ capture[c].row \in DOMAIN log => log[capture[c].row].fp = capture[c].fp

\* While first captures run one at a time, there is one who may insert, and no
\* row, or a row and nobody who may insert.
OneRow ==
  \A fp \in Fingerprints : fp \notin overlapped =>
    /\ \A i, j \in RowsOf(fp) : i = j
    /\ \A c \in InHand(fp) : capture[c].row = 0 =>
         /\ RowsOf(fp) = {}
         /\ \A d \in InHand(fp) : capture[d].row = 0 => d = c
    /\ lost[fp]["doubled"] = 0

Balanced(fp) ==
  happened[fp] = InLog(fp) + forgotten[fp] + LostTo(fp) + Cardinality(InHand(fp))

ErrorsInvariant == ErrorsTyped /\ SeesItsOwn /\ OneRow /\ \A fp \in Fingerprints : Balanced(fp)

LEMMA RowsAreFinite ==
  ASSUME ErrorsTyped
  PROVE  /\ IsFiniteSet(DOMAIN log)
         /\ \A fp : IsFiniteSet(RowsOf(fp)) /\ RowsOf(fp) \subseteq DOMAIN log
         /\ \A i \in DOMAIN log : log[i] \in ErrorRows /\ i \in Nat \ {0} /\ i <= logged
<1>1. IsFiniteSet(DOMAIN log)
  <2>1. logged \in Nat /\ DOMAIN log \subseteq 1..logged
    BY DEF ErrorsTyped
  <2>2. IsFiniteSet(1..logged)
    BY <2>1, FS_Interval
  <2> QED  BY <2>1, <2>2, FS_Subset
<1>2. \A fp : RowsOf(fp) \subseteq DOMAIN log
  BY DEF RowsOf
<1>3. \A fp : IsFiniteSet(RowsOf(fp))
  BY <1>1, <1>2, FS_Subset
<1> QED
  BY <1>1, <1>2, <1>3 DEF ErrorsTyped

\* Occurrences, for the log l: the same as long as the rows that count are.
CountIn(l, ids) == SumFunctionOnSet([i \in DOMAIN l |-> l[i].count], ids)

LEMMA CountSame ==
  ASSUME NEW l, NEW k, NEW ids, IsFiniteSet(ids), ids \subseteq DOMAIN l, ids \subseteq DOMAIN k,
         \A i \in ids : l[i].count \in Nat /\ k[i].count = l[i].count
  PROVE  CountIn(k, ids) = CountIn(l, ids)
<1>1. PICK f : f = [i \in DOMAIN l |-> l[i].count]
  OBVIOUS
<1>2. PICK g : g = [i \in DOMAIN k |-> k[i].count]
  OBVIOUS
<1>3. \A i \in ids : f[i] \in Nat /\ g[i] = f[i]
  BY <1>1, <1>2
<1>4. SumFunctionOnSet(g, ids) = SumFunctionOnSet(f, ids)
  BY <1>3, SumOfSame
<1> QED
  BY <1>1, <1>2, <1>4 DEF CountIn

LEMMA CountIsNatural ==
  ASSUME NEW l, NEW ids, IsFiniteSet(ids), ids \subseteq DOMAIN l, \A i \in ids : l[i].count \in Nat
  PROVE  CountIn(l, ids) \in Nat
<1>1. PICK f : f = [i \in DOMAIN l |-> l[i].count]
  OBVIOUS
<1>2. PICK g : g = [i \in ids |-> l[i].count]
  OBVIOUS
<1>3. g \in [ids -> Nat] /\ \A i \in ids : f[i] = g[i] /\ g[i] \in Nat
  BY <1>1, <1>2
<1>4. SumFunctionOnSet(g, ids) \in Nat
  BY <1>3, SumIsNatural
<1>5. SumFunctionOnSet(f, ids) = SumFunctionOnSet(g, ids)
  BY <1>3, SumOfSame
<1> QED
  BY <1>1, <1>4, <1>5 DEF CountIn

LEMMA CountOneMore ==
  ASSUME NEW l, NEW ids, IsFiniteSet(ids), NEW x \in DOMAIN l, x \notin ids, ids \subseteq DOMAIN l,
         \A i \in ids \cup {x} : l[i].count \in Nat
  PROVE  CountIn(l, ids \cup {x}) = l[x].count + CountIn(l, ids)
<1>1. PICK f : f = [i \in DOMAIN l |-> l[i].count]
  OBVIOUS
<1>2. \A i \in ids \cup {x} : f[i] \in Nat
  BY <1>1
<1>3. SumFunctionOnSet(f, ids \cup {x}) = f[x] + SumFunctionOnSet(f, ids)
  BY <1>2, SumOneMore
<1> QED
  BY <1>1, <1>3 DEF CountIn

LEMMA CountOfParts ==
  ASSUME NEW l, NEW ids, IsFiniteSet(ids), NEW part \in SUBSET ids, ids \subseteq DOMAIN l,
         \A i \in ids : l[i].count \in Nat
  PROVE  CountIn(l, ids) = CountIn(l, part) + CountIn(l, ids \ part)
<1>1. PICK f : f = [i \in DOMAIN l |-> l[i].count]
  OBVIOUS
<1>2. \A i \in ids : f[i] \in Nat
  BY <1>1
<1>3. SumFunctionOnSet(f, ids) = SumFunctionOnSet(f, part) + SumFunctionOnSet(f, ids \ part)
  BY <1>2, SumOfParts
<1> QED
  BY <1>1, <1>3 DEF CountIn

LEMMA AtMostOne ==
  ASSUME NEW S, \A i, j \in S : i = j
  PROVE  Cardinality(S) \in {0, 1}
<1>1. CASE S = {}
  BY <1>1, FS_EmptySet
<1>2. ASSUME NEW i \in S
      PROVE  Cardinality(S) = 1
  <2>1. S = {i}
    OBVIOUS
  <2> QED  BY <2>1, FS_Singleton
<1> QED
  BY <1>1, <1>2

RowsIn(l, fp) == {i \in DOMAIN l : l[i].fp = fp}

LEMMA InLogIs ==
  /\ \A fp : RowsOf(fp) = RowsIn(log, fp) /\ RowsOf(fp)' = RowsIn(log', fp)
  /\ \A fp : InLog(fp) = CountIn(log, RowsIn(log, fp)) /\ InLog(fp)' = CountIn(log', RowsIn(log', fp))
BY DEF RowsOf, RowsIn, InLog, Occurrences, CountIn

LEMMA InLogIsNatural ==
  ASSUME ErrorsTyped, NEW fp \in Fingerprints
  PROVE  InLog(fp) \in Nat
<1>1. PICK R : R = RowsOf(fp)
  OBVIOUS
<1>2. IsFiniteSet(R) /\ R \subseteq DOMAIN log /\ \A i \in R : log[i].count \in Nat
  BY <1>1, RowsAreFinite DEF ErrorRows
<1>3. CountIn(log, R) \in Nat
  BY <1>2, CountIsNatural
<1> QED
  BY <1>1, <1>3, InLogIs

\* The rows keep what they are of and what they have counted.
SameRows == /\ DOMAIN log' = DOMAIN log
            /\ \A i \in DOMAIN log : log'[i].fp = log[i].fp /\ log'[i].count = log[i].count

LEMMA SameRowsCount ==
  ASSUME ErrorsTyped, SameRows, NEW fp \in Fingerprints
  PROVE  RowsOf(fp)' = RowsOf(fp) /\ InLog(fp)' = InLog(fp)
<1>1. PICK R : R = RowsIn(log, fp)
  OBVIOUS
<1>2. RowsIn(log', fp) = R
  BY <1>1 DEF SameRows, RowsIn
<1>3. /\ IsFiniteSet(R) /\ R \subseteq DOMAIN log /\ R \subseteq DOMAIN log'
      /\ \A i \in R : log[i].count \in Nat /\ log'[i].count = log[i].count
  BY <1>1, InLogIs, RowsAreFinite DEF ErrorRows, SameRows
<1>4. CountIn(log', R) = CountIn(log, R)
  BY <1>3, CountSame
<1> QED
  BY <1>1, <1>2, <1>4, InLogIs

LEMMA LosesOne ==
  ASSUME ErrorsTyped, NEW fp \in Fingerprints, NEW why \in Reasons, Loses(fp, why)
  PROVE  /\ lost' \in [Fingerprints -> [Reasons -> Nat]]
         /\ LostTo(fp)' = LostTo(fp) + 1 /\ LostTo(fp) \in Nat
         /\ \A f \in Fingerprints : f # fp => LostTo(f)' = LostTo(f) /\ lost'[f] = lost[f]
         /\ why # "doubled" => lost'[fp]["doubled"] = lost[fp]["doubled"]
<1>1. lost \in [Fingerprints -> [Reasons -> Nat]]
  BY DEF ErrorsTyped
<1>2. PICK l : l = lost[fp]
  OBVIOUS
<1>3. l \in [Reasons -> Nat] /\ l["gone"] \in Nat /\ l["doubled"] \in Nat /\ l["database"] \in Nat
  BY <1>1, <1>2 DEF Reasons
<1>4. PICK m : m = [l EXCEPT ![why] = l[why] + 1]
  OBVIOUS
<1>5. lost' = [lost EXCEPT ![fp] = m]
  BY <1>2, <1>4 DEF Loses
<1>6. m \in [Reasons -> Nat]
  BY <1>3, <1>4
<1>7. lost' \in [Fingerprints -> [Reasons -> Nat]] /\ lost'[fp] = m
      /\ \A f \in Fingerprints : f # fp => lost'[f] = lost[f]
  BY <1>1, <1>5, <1>6
<1>8. m["gone"] + m["doubled"] + m["database"] = l["gone"] + l["doubled"] + l["database"] + 1
  BY <1>3, <1>4 DEF Reasons
<1>9. why # "doubled" => m["doubled"] = l["doubled"]
  BY <1>3, <1>4 DEF Reasons
<1> QED
  BY <1>2, <1>3, <1>7, <1>8, <1>9 DEF LostTo

LEMMA LostIsNatural ==
  ASSUME ErrorsTyped, NEW fp \in Fingerprints
  PROVE  LostTo(fp) \in Nat
<1>1. lost[fp] \in [Reasons -> Nat]
  BY DEF ErrorsTyped
<1> QED
  BY <1>1 DEF LostTo, Reasons

\* A capture takes an error in hand, or is done with it.
LEMMA HandTaken ==
  ASSUME ErrorsTyped, NEW c \in Captures, capture[c] = Waiting, NEW w \in Writing,
         capture' = [capture EXCEPT ![c] = w]
  PROVE  /\ capture' \in [Captures -> {Waiting} \cup Writing]
         /\ InHand(w.fp)' = InHand(w.fp) \cup {c}
         /\ \A f : IsFiniteSet(InHand(f)) => IsFiniteSet(InHand(f)')
         /\ \A f : f # w.fp => InHand(f)' = InHand(f)
         /\ Cardinality(InHand(w.fp)') = Cardinality(InHand(w.fp)) + 1
<1>1. capture \in [Captures -> {Waiting} \cup Writing]
  BY DEF ErrorsTyped
<1>2. w # Waiting /\ w.fp \in Fingerprints
  BY DEF Writing, Waiting
<1>3. capture'[c] = w /\ \A d \in Captures : d # c => capture'[d] = capture[d]
  BY <1>1
<1>4. InHand(w.fp)' = InHand(w.fp) \cup {c} /\ c \notin InHand(w.fp)
  BY <1>2, <1>3 DEF InHand
<1>5. \A f : f # w.fp => InHand(f)' = InHand(f)
  BY <1>2, <1>3 DEF InHand
<1>6. IsFiniteSet(InHand(w.fp))
  BY <1>2 DEF ErrorsTyped
<1>7. Cardinality(InHand(w.fp)') = Cardinality(InHand(w.fp)) + 1 /\ IsFiniteSet(InHand(w.fp)')
  BY <1>4, <1>6, FS_AddElement
<1> QED
  BY <1>1, <1>4, <1>5, <1>7

LEMMA HandFreed ==
  ASSUME ErrorsTyped, NEW c \in Captures, capture[c] # Waiting, capture' = [capture EXCEPT ![c] = Waiting],
         NEW fp, fp = capture[c].fp
  PROVE  /\ capture' \in [Captures -> {Waiting} \cup Writing]
         /\ capture[c] \in Writing /\ fp \in Fingerprints
         /\ c \in InHand(fp)
         /\ \A f : InHand(f)' = InHand(f) \ {c}
         /\ \A f \in Fingerprints : IsFiniteSet(InHand(f)')
         /\ \A f : f # fp => InHand(f)' = InHand(f)
         /\ Cardinality(InHand(fp)) \in Nat
         /\ Cardinality(InHand(fp)) = Cardinality(InHand(fp)') + 1
         /\ Cardinality(InHand(fp)') \in Nat
<1>1. capture \in [Captures -> {Waiting} \cup Writing]
  BY DEF ErrorsTyped
<1>2. fp \in Fingerprints
  BY <1>1 DEF Writing
<1>3. capture'[c] = Waiting /\ \A d \in Captures : d # c => capture'[d] = capture[d]
  BY <1>1
<1>4. \A f : InHand(f)' = InHand(f) \ {c}
  BY <1>3 DEF InHand
<1>5. c \in InHand(fp) /\ \A f : f # fp => c \notin InHand(f)
  BY <1>2 DEF InHand
<1>6. \A f \in Fingerprints : IsFiniteSet(InHand(f))
  BY DEF ErrorsTyped
<1>7. \A f \in Fingerprints : IsFiniteSet(InHand(f)')
  BY <1>4, <1>6, FS_RemoveElement
<1>8. /\ Cardinality(InHand(fp)') = Cardinality(InHand(fp)) - 1
      /\ Cardinality(InHand(fp)) \in Nat /\ Cardinality(InHand(fp)') \in Nat
  BY <1>2, <1>4, <1>5, <1>6, <1>7, FS_RemoveElement, FS_CardinalityType
<1>9. \A f : f # fp => InHand(f)' = InHand(f)
  BY <1>4, <1>5
<1>10. capture' \in [Captures -> {Waiting} \cup Writing] /\ capture[c] \in Writing
  BY <1>1
<1> QED
  BY <1>2, <1>4, <1>5, <1>7, <1>8, <1>9, <1>10

\* A capture that starts: its error is lost to two rows, or in hand.
LEMMA CaptureKeeps ==
  ASSUME ErrorsInvariant, NEW c \in Captures, NEW fp \in Fingerprints, Capture(c, fp)
  PROVE  ErrorsInvariant'
<1>1. capture[c] = Waiting /\ UNCHANGED <<log, logged, resolving, forgotten>>
  BY DEF Capture
<1>2. /\ \A f \in Fingerprints : happened[f] \in Nat /\ forgotten[f] \in Nat /\ InLog(f) \in Nat /\ LostTo(f) \in Nat
      /\ \A f \in Fingerprints : IsFiniteSet(InHand(f)) /\ Cardinality(InHand(f)) \in Nat
  BY InLogIsNatural, LostIsNatural, FS_CardinalityType DEF ErrorsInvariant, ErrorsTyped
<1>3. /\ happened' \in [Fingerprints -> Nat] /\ happened'[fp] = happened[fp] + 1
      /\ \A f \in Fingerprints : f # fp => happened'[f] = happened[f]
  BY DEF Capture, ErrorsInvariant, ErrorsTyped
<1>4. \A f : RowsOf(f)' = RowsOf(f) /\ InLog(f)' = InLog(f)
  BY <1>1, InLogIs
<1>5. IsFiniteSet(RowsOf(fp)) /\ RowsOf(fp) \subseteq DOMAIN log
  BY RowsAreFinite DEF ErrorsInvariant
<1>6. CASE Cardinality(RowsOf(fp)) > 1
  <2>1. Loses(fp, "doubled") /\ UNCHANGED <<capture, overlapped>>
    BY <1>6 DEF Capture
  <2>2. /\ lost' \in [Fingerprints -> [Reasons -> Nat]]
        /\ LostTo(fp)' = LostTo(fp) + 1
        /\ \A f \in Fingerprints : f # fp => LostTo(f)' = LostTo(f) /\ lost'[f] = lost[f]
    BY <2>1, LosesOne DEF ErrorsInvariant, Reasons
  <2>3. \A f : InHand(f)' = InHand(f)
    BY <2>1 DEF InHand
  <2>4. fp \in overlapped
    <3>1. fp \notin overlapped => \A i, j \in RowsOf(fp) : i = j
      BY DEF ErrorsInvariant, OneRow
    <3>2. (\A i, j \in RowsOf(fp) : i = j) => Cardinality(RowsOf(fp)) \in {0, 1}
      BY AtMostOne
    <3> QED  BY <1>6, <3>1, <3>2
  <2>5. ErrorsTyped'
    BY <1>1, <1>3, <2>1, <2>2, <2>3 DEF ErrorsInvariant, ErrorsTyped
  <2>6. SeesItsOwn'
    BY <1>1, <2>1 DEF ErrorsInvariant, SeesItsOwn
  <2>7. OneRow'
    BY <1>4, <2>1, <2>2, <2>3, <2>4 DEF ErrorsInvariant, OneRow
  <2>8. ASSUME NEW f \in Fingerprints
        PROVE  Balanced(f)'
    <3>1. Balanced(f)
      BY DEF ErrorsInvariant
    <3>2. PICK one : one = IF f = fp THEN 1 ELSE 0
      OBVIOUS
    <3>3. /\ happened'[f] = happened[f] + one /\ LostTo(f)' = LostTo(f) + one
          /\ happened[f] \in Nat /\ LostTo(f) \in Nat
      BY <1>2, <1>3, <2>2, <3>2
    <3>4. /\ forgotten'[f] = forgotten[f] + 0 /\ InLog(f)' = InLog(f) + 0
          /\ Cardinality(InHand(f))' = Cardinality(InHand(f)) + 0
          /\ forgotten[f] \in Nat /\ InLog(f) \in Nat /\ Cardinality(InHand(f)) \in Nat
      BY <1>1, <1>2, <1>4, <2>3
    <3> QED  BY <3>1, <3>2, <3>3, <3>4 DEF Balanced
  <2> QED  BY <2>5, <2>6, <2>7, <2>8 DEF ErrorsInvariant
<1>7. CASE ~ (Cardinality(RowsOf(fp)) > 1)
  <2>1. PICK row : row = IF RowsOf(fp) = {} THEN 0 ELSE CHOOSE i \in RowsOf(fp) : TRUE
    OBVIOUS
  <2>2. PICK w : w = [stage |-> "writing", fp |-> fp, row |-> row,
                      count |-> IF row = 0 THEN 0 ELSE log[row].count]
    OBVIOUS
  <2>3. /\ capture' = [capture EXCEPT ![c] = w]
        /\ overlapped' = overlapped \cup
             {f \in {fp} : \E d \in Captures :
                capture[d] # Waiting /\ capture[d].fp = fp /\ capture[d].row = 0}
        /\ lost' = lost
    BY <1>7, <2>1, <2>2 DEF Capture
  <2>4. /\ RowsOf(fp) = {} => row = 0
        /\ RowsOf(fp) # {} => row \in RowsOf(fp)
    BY <2>1
  <2>5. /\ row \in Nat /\ row <= logged
        /\ row \in DOMAIN log => log[row].fp = fp /\ log[row].count \in Nat
        /\ row = 0 <=> RowsOf(fp) = {}
        /\ row # 0 => row \in DOMAIN log
    <3>1. \A i \in DOMAIN log : i \in Nat /\ i # 0 /\ i <= logged /\ log[i].count \in Nat
      BY RowsAreFinite DEF ErrorsInvariant, ErrorRows
    <3>2. \A i \in RowsOf(fp) : i \in DOMAIN log /\ log[i].fp = fp
      BY DEF RowsOf
    <3>3. logged \in Nat
      BY DEF ErrorsInvariant, ErrorsTyped
    <3> QED  BY <2>4, <3>1, <3>2, <3>3
  <2>6. w \in Writing /\ w.fp = fp /\ w.row = row
    BY <2>2, <2>5 DEF Writing
  <2>7. /\ capture' \in [Captures -> {Waiting} \cup Writing]
        /\ InHand(fp)' = InHand(fp) \cup {c}
        /\ \A f : IsFiniteSet(InHand(f)) => IsFiniteSet(InHand(f)')
        /\ \A f : f # fp => InHand(f)' = InHand(f)
        /\ Cardinality(InHand(fp)') = Cardinality(InHand(fp)) + 1
    BY <1>1, <2>3, <2>6, HandTaken DEF ErrorsInvariant
  <2>8. capture'[c] = w /\ \A d \in Captures : d # c => capture'[d] = capture[d]
    BY <2>3 DEF ErrorsInvariant, ErrorsTyped
  <2>9. ErrorsTyped'
    BY <1>1, <1>2, <1>3, <2>3, <2>7 DEF ErrorsInvariant, ErrorsTyped
  <2>10. SeesItsOwn'
    BY <1>1, <2>5, <2>6, <2>8 DEF ErrorsInvariant, SeesItsOwn
  <2>11. OneRow'
    <3> SUFFICES ASSUME NEW f \in Fingerprints, f \notin overlapped'
                 PROVE  /\ \A i, j \in RowsOf(f) : i = j
                        /\ \A e \in InHand(f)' : capture'[e].row = 0 =>
                             /\ RowsOf(f) = {}
                             /\ \A d \in InHand(f)' : capture'[d].row = 0 => d = e
                        /\ lost[f]["doubled"] = 0
      BY <1>4, <2>3 DEF OneRow
    <3>1. f \notin overlapped
      BY <2>3
    <3>2. /\ \A i, j \in RowsOf(f) : i = j
          /\ \A e \in InHand(f) : capture[e].row = 0 =>
               /\ RowsOf(f) = {}
               /\ \A d \in InHand(f) : capture[d].row = 0 => d = e
          /\ lost[f]["doubled"] = 0
      BY <3>1 DEF ErrorsInvariant, OneRow
    <3>3. \A e \in InHand(f) : e \in Captures /\ e # c /\ capture'[e] = capture[e]
      BY <1>1, <2>8 DEF InHand
    <3>4. CASE f # fp
      BY <2>7, <3>2, <3>3, <3>4
    <3>5. CASE f = fp
      <4>1. \A d \in InHand(f) : capture[d].row # 0
        BY <2>3, <3>5 DEF InHand
      <4> QED  BY <2>5, <2>6, <2>7, <2>8, <3>2, <3>3, <3>5, <4>1
    <3> QED  BY <3>4, <3>5
  <2>12. ASSUME NEW f \in Fingerprints
         PROVE  Balanced(f)'
    <3>1. Balanced(f)
      BY DEF ErrorsInvariant
    <3>2. LostTo(f)' = LostTo(f)
      BY <2>3 DEF LostTo
    <3>3. PICK one : one = IF f = fp THEN 1 ELSE 0
      OBVIOUS
    <3>4. Cardinality(InHand(f))' = Cardinality(InHand(f)) + one
      BY <1>2, <2>7, <3>3
    <3>5. /\ happened'[f] = happened[f] + one /\ forgotten'[f] = forgotten[f] + 0
          /\ InLog(f)' = InLog(f) + 0 /\ LostTo(f)' = LostTo(f) + 0
          /\ happened[f] \in Nat /\ LostTo(f) \in Nat
          /\ forgotten[f] \in Nat /\ InLog(f) \in Nat /\ Cardinality(InHand(f)) \in Nat
      BY <1>1, <1>2, <1>3, <1>4, <3>2, <3>3
    <3> QED  BY <3>1, <3>3, <3>4, <3>5 DEF Balanced
  <2> QED  BY <2>9, <2>10, <2>11, <2>12 DEF ErrorsInvariant
<1> QED
  BY <1>6, <1>7

\* A capture ends: it counted its error in a row, inserted one, or lost it.
LEMMA CaptureEnds ==
  ASSUME ErrorsInvariant, NEW c \in Captures, Record(c) \/ CaptureFails(c)
  PROVE  ErrorsInvariant'
<1>1. PICK fp : fp = capture[c].fp
  OBVIOUS
<1>2. PICK row : row = capture[c].row
  OBVIOUS
<1>3. /\ capture[c] # Waiting /\ capture' = [capture EXCEPT ![c] = Waiting]
      /\ UNCHANGED <<resolving, happened, forgotten, overlapped>>
  BY DEF Record, CaptureFails
<1>4. /\ capture' \in [Captures -> {Waiting} \cup Writing]
      /\ capture[c] \in Writing /\ fp \in Fingerprints
      /\ c \in InHand(fp)
      /\ \A f : InHand(f)' = InHand(f) \ {c}
      /\ \A f \in Fingerprints : IsFiniteSet(InHand(f)')
      /\ \A f : f # fp => InHand(f)' = InHand(f)
      /\ Cardinality(InHand(fp)) \in Nat
      /\ Cardinality(InHand(fp)) = Cardinality(InHand(fp)') + 1
      /\ Cardinality(InHand(fp)') \in Nat
  BY <1>1, <1>3, HandFreed DEF ErrorsInvariant
<1>5. /\ capture'[c] = Waiting
      /\ \A d \in Captures : capture'[d] # Waiting => d # c /\ capture'[d] = capture[d]
  BY <1>3 DEF ErrorsInvariant, ErrorsTyped
<1>6. /\ \A f \in Fingerprints : happened[f] \in Nat /\ forgotten[f] \in Nat /\ InLog(f) \in Nat /\ LostTo(f) \in Nat
      /\ \A f \in Fingerprints : Cardinality(InHand(f)) \in Nat
  BY InLogIsNatural, LostIsNatural, FS_CardinalityType DEF ErrorsInvariant, ErrorsTyped
<1>7. row \in Nat /\ row <= logged /\ (row \in DOMAIN log => log[row].fp = fp)
  BY <1>1, <1>2, <1>3, <1>4 DEF Writing, ErrorsInvariant, SeesItsOwn
<1>8. /\ IsFiniteSet(DOMAIN log) /\ logged \in Nat
      /\ \A f : IsFiniteSet(RowsOf(f)) /\ RowsOf(f) \subseteq DOMAIN log
      /\ \A i \in DOMAIN log : log[i] \in ErrorRows /\ i \in Nat \ {0} /\ i <= logged
  BY RowsAreFinite DEF ErrorsInvariant, ErrorsTyped
<1>9. \A f \in Fingerprints : \A d \in InHand(f)' : d \in InHand(f) /\ capture'[d] = capture[d]
  BY <1>4, <1>5 DEF InHand
\* What it makes of the balance.
<1> DEFINE Ledger == \A f \in Fingerprints :
      \E inLog \in Nat, dropped \in Nat :
        /\ inLog + dropped = IF f = fp THEN 1 ELSE 0
        /\ InLog(f)' = InLog(f) + inLog /\ LostTo(f)' = LostTo(f) + dropped
<1>10. ASSUME Ledger, NEW f \in Fingerprints
       PROVE  Balanced(f)'
  <2>1. PICK inLog \in Nat, dropped \in Nat :
          /\ inLog + dropped = IF f = fp THEN 1 ELSE 0
          /\ InLog(f)' = InLog(f) + inLog /\ LostTo(f)' = LostTo(f) + dropped
    BY <1>10
  <2>2. PICK held \in Int : held = IF f = fp THEN -1 ELSE 0
    OBVIOUS
  <2>3. Cardinality(InHand(f))' = Cardinality(InHand(f)) + held
    BY <1>4, <1>6, <2>2
  <2>4. 0 = inLog + 0 + dropped + held
    BY <2>1, <2>2
  <2>5. happened'[f] = happened[f] + 0 /\ forgotten'[f] = forgotten[f] + 0 /\ Balanced(f)
    BY <1>3, <1>6 DEF ErrorsInvariant
  <2>6. happened[f] = InLog(f) + forgotten[f] + LostTo(f) + Cardinality(InHand(f))
    BY <2>5 DEF Balanced
  <2>7. /\ happened[f] \in Nat /\ forgotten[f] \in Nat /\ InLog(f) \in Nat
        /\ LostTo(f) \in Nat /\ Cardinality(InHand(f)) \in Nat
    BY <1>6
  <2>8. happened'[f] = InLog(f)' + forgotten'[f] + LostTo(f)' + Cardinality(InHand(f))'
    BY <2>1, <2>3, <2>4, <2>5, <2>6, <2>7
  <2> QED  BY <2>8 DEF Balanced
<1>11. CASE UNCHANGED <<log, logged>> /\ \E why \in Reasons \ {"doubled"} : Loses(fp, why)
  <2>1. PICK why \in Reasons \ {"doubled"} : Loses(fp, why)
    BY <1>11
  <2>2. /\ lost' \in [Fingerprints -> [Reasons -> Nat]]
        /\ LostTo(fp)' = LostTo(fp) + 1
        /\ \A f \in Fingerprints : f # fp => LostTo(f)' = LostTo(f) /\ lost'[f] = lost[f]
        /\ lost'[fp]["doubled"] = lost[fp]["doubled"]
    BY <1>4, <2>1, LosesOne DEF ErrorsInvariant
  <2>3. \A f : RowsOf(f)' = RowsOf(f) /\ InLog(f)' = InLog(f)
    BY <1>11, InLogIs
  <2>4. Ledger
    <3> SUFFICES ASSUME NEW f \in Fingerprints
                 PROVE  \E inLog \in Nat, dropped \in Nat :
                          /\ inLog + dropped = IF f = fp THEN 1 ELSE 0
                          /\ InLog(f)' = InLog(f) + inLog /\ LostTo(f)' = LostTo(f) + dropped
      OBVIOUS
    <3>1. PICK dropped \in Nat : dropped = IF f = fp THEN 1 ELSE 0
      OBVIOUS
    <3>2. InLog(f)' = InLog(f) + 0 /\ LostTo(f)' = LostTo(f) + dropped /\ 0 + dropped = IF f = fp THEN 1 ELSE 0
      BY <1>6, <2>2, <2>3, <3>1
    <3> QED  BY <3>2
  <2>5. ErrorsTyped'
    BY <1>3, <1>4, <1>11, <2>2 DEF ErrorsInvariant, ErrorsTyped
  <2>6. SeesItsOwn'
    BY <1>5, <1>11 DEF ErrorsInvariant, SeesItsOwn
  <2>7. OneRow'
    BY <1>3, <1>9, <2>2, <2>3 DEF ErrorsInvariant, OneRow
  <2> QED  BY <1>10, <2>4, <2>5, <2>6, <2>7 DEF ErrorsInvariant
<1>12. CASE row # 0 /\ row \in DOMAIN log /\ log' = [log EXCEPT ![row] = Counted(c, log[row])] /\ UNCHANGED <<logged, lost>>
  <2>1. PICK r : r = Counted(c, log[row])
    OBVIOUS
  <2>2. r \in ErrorRows /\ r.fp = fp /\ r.count = log[row].count + 1 /\ log[row].count \in Nat
    <3>1. PICK q \in ErrorRows : q = log[row]
      BY <1>8, <1>12
    <3>2. q.fp \in Fingerprints /\ q.count \in Nat /\ q.count + 1 \in Nat
      BY DEF ErrorRows
    <3>3. r = [q EXCEPT !.count = q.count + 1, !.resolved = FALSE]
      BY <2>1, <3>1 DEF Counted
    <3>4. r \in ErrorRows /\ r.fp = q.fp /\ r.count = q.count + 1
      BY <3>2, <3>3 DEF ErrorRows
    <3> QED  BY <1>7, <1>12, <3>1, <3>2, <3>4
  <2>3. log' = [log EXCEPT ![row] = r]
    BY <1>12, <2>1
  <2>4. /\ DOMAIN log' = DOMAIN log /\ log'[row] = r
        /\ \A i \in DOMAIN log : i # row => log'[i] = log[i]
        /\ log' \in [DOMAIN log' -> ErrorRows]
    BY <1>12, <2>2, <2>3 DEF ErrorsInvariant, ErrorsTyped
  <2>5. \A f : RowsOf(f)' = RowsOf(f)
    BY <1>7, <1>12, <2>2, <2>4 DEF RowsOf
  <2>6. ASSUME NEW f \in Fingerprints, f # fp
        PROVE  InLog(f)' = InLog(f)
    <3>1. PICK R : R = RowsOf(f)
      OBVIOUS
    <3>2. /\ IsFiniteSet(R) /\ R \subseteq DOMAIN log /\ R \subseteq DOMAIN log'
          /\ \A i \in R : log[i].count \in Nat /\ log'[i].count = log[i].count
      <4>1. row \notin R
        BY <1>7, <2>6, <3>1 DEF RowsOf
      <4> QED  BY <1>8, <2>4, <3>1, <4>1 DEF ErrorRows
    <3>3. CountIn(log', R) = CountIn(log, R)
      BY <3>2, CountSame
    <3> QED  BY <2>5, <3>1, <3>3, InLogIs
  <2>7. InLog(fp)' = InLog(fp) + 1
    <3>1. PICK R : R = RowsOf(fp) \ {row}
      OBVIOUS
    <3>2. /\ IsFiniteSet(R) /\ R \subseteq DOMAIN log /\ R \subseteq DOMAIN log' /\ row \notin R
          /\ RowsOf(fp) = R \cup {row}
          /\ \A i \in R : log[i].count \in Nat /\ log'[i].count = log[i].count
      <4>1. row \in RowsOf(fp)
        BY <1>7, <1>12 DEF RowsOf
      <4>2. IsFiniteSet(R)
        BY <1>8, <3>1, FS_RemoveElement
      <4> QED  BY <1>8, <2>4, <3>1, <4>1, <4>2 DEF ErrorRows
    <3>3. CountIn(log', R) = CountIn(log, R) /\ CountIn(log, R) \in Nat
      BY <3>2, CountSame, CountIsNatural
    <3>4. CountIn(log, R \cup {row}) = log[row].count + CountIn(log, R)
      BY <1>12, <2>2, <3>2, CountOneMore
    <3>5. CountIn(log', R \cup {row}) = r.count + CountIn(log', R)
      <4>1. row \in DOMAIN log' /\ \A i \in R \cup {row} : log'[i].count \in Nat
        BY <1>12, <2>2, <2>4, <3>2
      <4>2. CountIn(log', R \cup {row}) = log'[row].count + CountIn(log', R)
        BY <3>2, <4>1, CountOneMore
      <4> QED  BY <2>4, <4>2
    <3>6. InLog(fp) = CountIn(log, R \cup {row}) /\ InLog(fp)' = CountIn(log', R \cup {row})
      BY <2>5, <3>2, InLogIs
    <3> QED  BY <2>2, <3>3, <3>4, <3>5, <3>6
  <2>8. Ledger
    <3> SUFFICES ASSUME NEW f \in Fingerprints
                 PROVE  \E inLog \in Nat, dropped \in Nat :
                          /\ inLog + dropped = IF f = fp THEN 1 ELSE 0
                          /\ InLog(f)' = InLog(f) + inLog /\ LostTo(f)' = LostTo(f) + dropped
      OBVIOUS
    <3>1. PICK inLog \in Nat : inLog = IF f = fp THEN 1 ELSE 0
      OBVIOUS
    <3>2. LostTo(f)' = LostTo(f)
      BY <1>12 DEF LostTo
    <3>3. InLog(f)' = InLog(f) + inLog /\ LostTo(f)' = LostTo(f) + 0 /\ inLog + 0 = IF f = fp THEN 1 ELSE 0
      BY <1>6, <2>6, <2>7, <3>1, <3>2
    <3> QED  BY <3>3
  <2>9. ErrorsTyped'
    BY <1>3, <1>4, <1>12, <2>4 DEF ErrorsInvariant, ErrorsTyped
  <2>10. SeesItsOwn'
    BY <1>5, <1>7, <1>12, <2>2, <2>4 DEF ErrorsInvariant, SeesItsOwn
  <2>11. OneRow'
    BY <1>3, <1>9, <1>12, <2>5 DEF ErrorsInvariant, OneRow
  <2> QED  BY <1>10, <2>8, <2>9, <2>10, <2>11 DEF ErrorsInvariant
<1>13. CASE /\ row = 0 /\ logged' = logged + 1 /\ UNCHANGED lost
            /\ log' = [i \in DOMAIN log \cup {logged + 1} |->
                         IF i \in DOMAIN log THEN log[i]
                         ELSE [fp |-> fp, count |-> 1, resolved |-> FALSE]]
  <2>1. PICK id \in Nat : id = logged + 1
    BY <1>8
  <2>2. id \notin DOMAIN log
    BY <1>8, <2>1
  <2>3. PICK r : r = [fp |-> fp, count |-> 1, resolved |-> FALSE]
    OBVIOUS
  <2>4. r \in ErrorRows /\ r.fp = fp /\ r.count = 1
    BY <1>4, <2>3 DEF ErrorRows
  <2>5. /\ DOMAIN log' = DOMAIN log \cup {id} /\ log'[id] = r
        /\ \A i \in DOMAIN log : log'[i] = log[i]
    BY <1>13, <2>1, <2>2, <2>3
  <2>6. log' \in [DOMAIN log' -> ErrorRows] /\ DOMAIN log' \subseteq 1..logged' /\ logged' \in Nat
    <3>1. \A i \in DOMAIN log : log'[i] \in ErrorRows /\ i \in Nat \ {0} /\ i <= logged
      BY <1>8, <2>5
    <3>2. \A i \in DOMAIN log' : log'[i] \in ErrorRows
      BY <2>4, <2>5, <3>1
    <3>3. logged' = id
      BY <1>13, <2>1
    <3>4. \A i \in DOMAIN log' : i \in 1..id
      BY <1>8, <2>1, <2>5, <3>1
    <3>5. log' = [i \in DOMAIN log' |-> log'[i]]
      BY <1>13
    <3>6. log' \in [DOMAIN log' -> ErrorRows]
      BY <3>2, <3>5
    <3> QED  BY <3>3, <3>4, <3>6
  <2>7. RowsOf(fp)' = RowsOf(fp) \cup {id} /\ \A f : f # fp => RowsOf(f)' = RowsOf(f)
    BY <2>4, <2>5 DEF RowsOf
  <2>8. ASSUME NEW f \in Fingerprints
        PROVE  CountIn(log', RowsOf(f)) = InLog(f)
    <3>1. PICK R : R = RowsOf(f)
      OBVIOUS
    <3>2. /\ IsFiniteSet(R) /\ R \subseteq DOMAIN log /\ R \subseteq DOMAIN log'
          /\ \A i \in R : log[i].count \in Nat /\ log'[i].count = log[i].count
      BY <1>8, <2>5, <3>1 DEF ErrorRows
    <3>3. CountIn(log', R) = CountIn(log, R)
      BY <3>2, CountSame
    <3> QED  BY <3>1, <3>3, InLogIs
  <2>9. \A f \in Fingerprints : f # fp => InLog(f)' = InLog(f)
    BY <2>7, <2>8, InLogIs
  <2>10. InLog(fp)' = InLog(fp) + 1
    <3>1. PICK R : R = RowsOf(fp)
      OBVIOUS
    <3>2. /\ IsFiniteSet(R) /\ R \subseteq DOMAIN log' /\ id \notin R /\ id \in DOMAIN log'
          /\ \A i \in R \cup {id} : log'[i].count \in Nat
      BY <1>8, <2>2, <2>4, <2>5, <3>1 DEF ErrorRows
    <3>3. CountIn(log', R \cup {id}) = log'[id].count + CountIn(log', R)
      BY <3>2, CountOneMore
    <3>4. InLog(fp)' = CountIn(log', R \cup {id})
      BY <2>7, <3>1, InLogIs
    <3> QED  BY <1>4, <1>6, <2>4, <2>5, <2>8, <3>1, <3>3, <3>4
  <2>11. Ledger
    <3> SUFFICES ASSUME NEW f \in Fingerprints
                 PROVE  \E inLog \in Nat, dropped \in Nat :
                          /\ inLog + dropped = IF f = fp THEN 1 ELSE 0
                          /\ InLog(f)' = InLog(f) + inLog /\ LostTo(f)' = LostTo(f) + dropped
      OBVIOUS
    <3>1. PICK inLog \in Nat : inLog = IF f = fp THEN 1 ELSE 0
      OBVIOUS
    <3>2. LostTo(f)' = LostTo(f)
      BY <1>13 DEF LostTo
    <3>3. InLog(f)' = InLog(f) + inLog /\ LostTo(f)' = LostTo(f) + 0 /\ inLog + 0 = IF f = fp THEN 1 ELSE 0
      BY <1>6, <2>9, <2>10, <3>1, <3>2
    <3> QED  BY <3>3
  <2>12. ErrorsTyped'
    BY <1>3, <1>4, <1>13, <2>6 DEF ErrorsInvariant, ErrorsTyped
  <2>13. SeesItsOwn'
    <3>1. \A d \in Captures : capture[d] # Waiting =>
            /\ capture[d].row <= logged /\ capture[d].row \in Nat
            /\ capture[d].row \in DOMAIN log => log[capture[d].row].fp = capture[d].fp
      BY DEF ErrorsInvariant, ErrorsTyped, SeesItsOwn, Writing
    <3>2. \A d \in Captures : capture[d] # Waiting => capture[d].row # id /\ capture[d].row <= logged'
      BY <1>8, <1>13, <2>1, <3>1
    <3> QED  BY <1>5, <2>5, <3>1, <3>2 DEF SeesItsOwn
  <2>14. OneRow'
    <3> SUFFICES ASSUME NEW f \in Fingerprints, f \notin overlapped
                 PROVE  /\ \A i, j \in RowsOf(f)' : i = j
                        /\ \A e \in InHand(f)' : capture'[e].row = 0 =>
                             /\ RowsOf(f)' = {}
                             /\ \A d \in InHand(f)' : capture'[d].row = 0 => d = e
                        /\ lost[f]["doubled"] = 0
      BY <1>3, <1>13 DEF OneRow
    <3>1. /\ \A i, j \in RowsOf(f) : i = j
          /\ \A e \in InHand(f) : capture[e].row = 0 =>
               /\ RowsOf(f) = {}
               /\ \A d \in InHand(f) : capture[d].row = 0 => d = e
          /\ lost[f]["doubled"] = 0
      BY DEF ErrorsInvariant, OneRow
    <3>2. CASE f # fp
      BY <1>9, <2>7, <3>1, <3>2
    <3>3. CASE f = fp
      <4>1. RowsOf(fp) = {} /\ \A d \in InHand(fp) : capture[d].row = 0 => d = c
        BY <1>2, <1>4, <1>13, <3>1, <3>3
      <4>2. \A d \in InHand(fp)' : capture'[d].row # 0
        BY <1>4, <1>9, <4>1
      <4> QED  BY <2>7, <3>1, <3>3, <4>1, <4>2
    <3> QED  BY <3>2, <3>3
  <2> QED  BY <1>10, <2>11, <2>12, <2>13, <2>14 DEF ErrorsInvariant
<1>14. CASE Record(c)
  <2>1. CASE row = 0
    BY <1>1, <1>2, <1>13, <1>14, <2>1 DEF Record
  <2>2. CASE row # 0 /\ row \in DOMAIN log
    BY <1>1, <1>2, <1>12, <1>14, <2>2 DEF Record
  <2>3. CASE row # 0 /\ row \notin DOMAIN log
    <3>1. Loses(fp, "gone") /\ UNCHANGED <<log, logged>>
      BY <1>1, <1>2, <1>14, <2>3 DEF Record
    <3> QED  BY <1>11, <3>1 DEF Reasons
  <2> QED  BY <2>1, <2>2, <2>3
<1>15. CASE CaptureFails(c)
  <2>1. Loses(fp, "database") /\ UNCHANGED <<log, logged>>
    BY <1>1, <1>15 DEF CaptureFails
  <2> QED  BY <1>11, <2>1 DEF Reasons
<1> QED
  BY <1>14, <1>15

\* Removing rows forgets what they have counted; ids are never given out again.
LEMMA RemovalForgets ==
  ASSUME ErrorsInvariant, NEW ids, RemoveErrors(ids)
  PROVE  ErrorsInvariant'
<1>1. /\ log' = [i \in DOMAIN log \ ids |-> log[i]]
      /\ UNCHANGED <<logged, capture, resolving, happened, lost, overlapped>>
  BY DEF RemoveErrors
<1>2. /\ DOMAIN log' = DOMAIN log \ ids /\ \A i \in DOMAIN log' : log'[i] = log[i]
      /\ log' \in [DOMAIN log' -> ErrorRows]
  BY <1>1 DEF ErrorsInvariant, ErrorsTyped
<1>3. /\ \A f : IsFiniteSet(RowsOf(f)) /\ RowsOf(f) \subseteq DOMAIN log
      /\ \A i \in DOMAIN log : log[i].count \in Nat
  BY RowsAreFinite DEF ErrorsInvariant, ErrorRows
<1>4. /\ \A f \in Fingerprints : happened[f] \in Nat /\ forgotten[f] \in Nat /\ InLog(f) \in Nat /\ LostTo(f) \in Nat
      /\ \A f \in Fingerprints : Cardinality(InHand(f)) \in Nat
  BY InLogIsNatural, LostIsNatural, FS_CardinalityType DEF ErrorsInvariant, ErrorsTyped
<1>5. \A f : RowsOf(f)' = RowsOf(f) \ ids
  BY <1>2 DEF RowsOf
<1>6. \A f : InHand(f)' = InHand(f) /\ LostTo(f)' = LostTo(f)
  BY <1>1 DEF InHand, LostTo
<1>7. ASSUME NEW f \in Fingerprints
      PROVE  \E n \in Nat : InLog(f) = n + InLog(f)' /\ forgotten'[f] = forgotten[f] + n /\ InLog(f)' \in Nat
  <2>1. PICK R : R = RowsOf(f)
    OBVIOUS
  <2>2. PICK A \in SUBSET R : A = ids \cap R
    OBVIOUS
  <2>3. PICK B \in SUBSET R : B = R \ A
    OBVIOUS
  <2>4. IsFiniteSet(R) /\ R \subseteq DOMAIN log /\ \A i \in R : log[i].count \in Nat
    BY <1>3, <2>1
  <2>5. IsFiniteSet(A) /\ IsFiniteSet(B)
    BY <2>4, FS_Subset
  <2>6. CountIn(log, R) = CountIn(log, A) + CountIn(log, B)
    BY <2>3, <2>4, CountOfParts
  <2>7. CountIn(log, A) \in Nat /\ CountIn(log, B) \in Nat
    BY <2>4, <2>5, CountIsNatural
  <2>8. CountIn(log', B) = CountIn(log, B)
    <3>1. B \subseteq DOMAIN log /\ B \subseteq DOMAIN log'
          /\ \A i \in B : log[i].count \in Nat /\ log'[i].count = log[i].count
      BY <1>2, <2>2, <2>3, <2>4
    <3> QED  BY <2>5, <3>1, CountSame
  <2>9. RowsOf(f)' = B
    BY <1>5, <2>1, <2>2, <2>3
  <2>10. InLog(f) = CountIn(log, R) /\ InLog(f)' = CountIn(log', B)
    BY <2>1, <2>9, InLogIs
  <2>11. forgotten'[f] = forgotten[f] + CountIn(log, A)
    BY <2>1, <2>2 DEF RemoveErrors, Occurrences, CountIn
  <2> QED  BY <2>6, <2>7, <2>8, <2>10, <2>11
<1>8. ErrorsTyped'
  <2>1. forgotten' \in [Fingerprints -> Nat]
    <3>1. \A f \in Fingerprints : forgotten'[f] \in Nat
      BY <1>4, <1>7
    <3>2. forgotten' = [f \in Fingerprints |-> forgotten'[f]]
      BY DEF RemoveErrors
    <3> QED  BY <3>1, <3>2
  <2> QED  BY <1>1, <1>2, <1>6, <2>1 DEF ErrorsInvariant, ErrorsTyped
<1>9. SeesItsOwn'
  BY <1>1, <1>2 DEF ErrorsInvariant, SeesItsOwn
<1>10. OneRow'
  BY <1>1, <1>5, <1>6 DEF ErrorsInvariant, OneRow
<1>11. ASSUME NEW f \in Fingerprints
       PROVE  Balanced(f)'
  <2>1. PICK n \in Nat : InLog(f) = n + InLog(f)' /\ forgotten'[f] = forgotten[f] + n /\ InLog(f)' \in Nat
    BY <1>7
  <2>2. PICK m \in Int : m = 0 - n
    OBVIOUS
  <2>3. InLog(f)' = InLog(f) + m /\ 0 = m + n + 0 + 0 /\ n \in Int /\ forgotten'[f] = forgotten[f] + n
    BY <1>4, <2>1, <2>2
  <2>4. /\ happened'[f] = happened[f] + 0 /\ LostTo(f)' = LostTo(f) + 0
        /\ Cardinality(InHand(f))' = Cardinality(InHand(f)) + 0 /\ Balanced(f)
    BY <1>1, <1>4, <1>6 DEF ErrorsInvariant
  <2>5. happened[f] = InLog(f) + forgotten[f] + LostTo(f) + Cardinality(InHand(f))
    BY <2>4 DEF Balanced
  <2>6. /\ happened[f] \in Nat /\ forgotten[f] \in Nat /\ InLog(f) \in Nat
        /\ LostTo(f) \in Nat /\ Cardinality(InHand(f)) \in Nat
    BY <1>4
  <2>7. happened'[f] = InLog(f)' + forgotten'[f] + LostTo(f)' + Cardinality(InHand(f))'
    BY <2>1, <2>4, <2>5, <2>6
  <2> QED  BY <2>7 DEF Balanced
<1> QED
  BY <1>8, <1>9, <1>10, <1>11 DEF ErrorsInvariant

\* Resolving a row changes nothing that is counted.
LEMMA ResolvingKeepsCounts ==
  ASSUME ErrorsInvariant, log' \in [DOMAIN log' -> ErrorRows], SameRows,
         UNCHANGED <<logged, capture, happened, forgotten, lost, overlapped>>
  PROVE  ErrorsInvariant'
<1>1. \A f \in Fingerprints : RowsOf(f)' = RowsOf(f) /\ InLog(f)' = InLog(f)
  BY SameRowsCount DEF ErrorsInvariant
<1>2. \A f : InHand(f)' = InHand(f) /\ LostTo(f)' = LostTo(f)
  BY DEF InHand, LostTo
<1>3. ErrorsTyped'
  BY <1>2 DEF ErrorsInvariant, ErrorsTyped, SameRows
<1>4. SeesItsOwn'
  BY DEF ErrorsInvariant, SeesItsOwn, SameRows
<1>5. OneRow'
  BY <1>1, <1>2 DEF ErrorsInvariant, OneRow
<1>6. \A f \in Fingerprints : Balanced(f)'
  BY <1>1, <1>2 DEF ErrorsInvariant, Balanced
<1> QED
  BY <1>3, <1>4, <1>5, <1>6 DEF ErrorsInvariant

\* Every error that reached the handler of last resort is counted once: by a row,
\* by a row an admin removed, or by a capture under way, unless its row was
\* removed while the capture looked at it, the database failed it, or two rows of
\* its fingerprint made capture_exception fail, and that happens only after two
\* first captures of the fingerprint overlapped.
THEOREM EveryErrorIsCounted == ErrorsSpec => []ErrorsAreCounted
<1>1. ErrorsInit => ErrorsInvariant
  <2> SUFFICES ASSUME ErrorsInit PROVE ErrorsInvariant
    OBVIOUS
  <2>1. DOMAIN log = {} /\ \A f : RowsOf(f) = {} /\ InHand(f) = {}
    BY DEF ErrorsInit, RowsOf, InHand
  <2>2. \A f : IsFiniteSet(InHand(f)) /\ Cardinality(InHand(f)) = 0
    BY <2>1, FS_EmptySet
  <2>3. \A f \in Fingerprints : LostTo(f) = 0 /\ happened[f] = 0 /\ forgotten[f] = 0
    BY DEF ErrorsInit, LostTo, Reasons
  <2>4. \A f \in Fingerprints : InLog(f) = 0
    <3>1. \A g : SumFunctionOnSet(g, {}) = 0
      BY SumNothing
    <3> QED  BY <2>1, <3>1 DEF InLog, Occurrences
  <2>5. ErrorsTyped
    BY <2>1, <2>2 DEF ErrorsInit, ErrorsTyped, Waiting
  <2>6. SeesItsOwn /\ OneRow
    BY <2>1 DEF ErrorsInit, SeesItsOwn, OneRow, Reasons
  <2>7. \A f \in Fingerprints : Balanced(f)
    BY <2>2, <2>3, <2>4 DEF Balanced
  <2> QED  BY <2>5, <2>6, <2>7 DEF ErrorsInvariant
<1>2. ErrorsInvariant /\ [ErrorsNext]_errorVars => ErrorsInvariant'
  <2> SUFFICES ASSUME ErrorsInvariant, [ErrorsNext]_errorVars PROVE ErrorsInvariant'
    OBVIOUS
  <2>1. ASSUME UNCHANGED <<log, logged, capture, happened, forgotten, lost, overlapped>>
        PROVE  ErrorsInvariant'
    BY <2>1, ResolvingKeepsCounts DEF SameRows, ErrorsInvariant, ErrorsTyped
  <2>2. ASSUME NEW i \in DOMAIN resolving, NEW resolved \in BOOLEAN, ResolveError(i, resolved)
        PROVE  ErrorsInvariant'
    <3>1. /\ log \in [DOMAIN log -> ErrorRows]
          /\ UNCHANGED <<logged, capture, happened, forgotten, lost, overlapped>>
      BY <2>2 DEF ErrorsInvariant, ErrorsTyped, ResolveError
    <3>2. CASE log' = log
      BY <2>1, <3>1, <3>2
    <3>3. CASE i \in DOMAIN log /\ log' = [log EXCEPT ![i].resolved = resolved]
      <4>1. PICK q \in ErrorRows : q = log[i]
        BY <3>1, <3>3
      <4>2. PICK r : r = [q EXCEPT !.resolved = resolved]
        OBVIOUS
      <4>3. r \in ErrorRows /\ r.fp = q.fp /\ r.count = q.count
        BY <4>2 DEF ErrorRows
      <4>4. log' = [log EXCEPT ![i] = r]
        BY <3>3, <4>1, <4>2
      <4>5. SameRows /\ log' \in [DOMAIN log' -> ErrorRows]
        BY <3>1, <3>3, <4>1, <4>3, <4>4 DEF SameRows
      <4> QED  BY <3>1, <4>5, ResolvingKeepsCounts
    <3> QED  BY <2>2, <3>2, <3>3 DEF ResolveError
  <2>3. ASSUME NEW i \in DOMAIN log, LoadError(i)
        PROVE  ErrorsInvariant'
    BY <2>1, <2>3 DEF LoadError
  <2>4. CASE UNCHANGED errorVars
    BY <2>1, <2>4 DEF errorVars
  <2> QED
    BY <2>2, <2>3, <2>4, CaptureKeeps, CaptureEnds, RemovalForgets
       DEF ErrorsNext, DeleteError, ClearResolved
<1>3. ErrorsInvariant => ErrorsAreCounted
  <2> SUFFICES ASSUME ErrorsInvariant, NEW fp \in Fingerprints
               PROVE  /\ Balanced(fp)
                      /\ Cardinality(RowsOf(fp)) > 1 \/ lost[fp]["doubled"] > 0 => fp \in overlapped
    BY DEF ErrorsAreCounted, Balanced
  <2>1. Balanced(fp)
    BY DEF ErrorsInvariant
  <2>2. ASSUME fp \notin overlapped
        PROVE  ~ (Cardinality(RowsOf(fp)) > 1) /\ ~ (lost[fp]["doubled"] > 0)
    <3>1. (\A i, j \in RowsOf(fp) : i = j) /\ lost[fp]["doubled"] = 0
      BY <2>2 DEF ErrorsInvariant, OneRow
    <3>2. Cardinality(RowsOf(fp)) \in {0, 1}
      BY <3>1, AtMostOne
    <3> QED  BY <3>1, <3>2
  <2> QED  BY <2>1, <2>2
<1> QED
  BY <1>1, <1>2, <1>3, PTL DEF ErrorsSpec

=============================================================================
