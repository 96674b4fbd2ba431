-------------------------------- MODULE Limits --------------------------------
(***************************************************************************)
(* What keeps visitors from flooding the service: the per-minute counters   *)
(* in Redis (dependencies/rate_limit.py), and what a feedback submission has *)
(* to pass (api/v1/endpoints/feedback.py, services/feedback.py, captcha.py): *)
(* an image or nothing for an attachment, an empty trap field, a solved      *)
(* challenge, a known category and the limit per day.                        *)
(*                                                                           *)
(* Time runs in ticks of half a minute.  Between two ticks a request gets an *)
(* answer from Redis or does without.                                        *)
(***************************************************************************)
EXTENDS Integers, FiniteSets

CONSTANTS
  Callers,          \* client addresses; NoCaller where the server sees none
  NoCaller,
  Mailboxes,        \* e-mail addresses as visitors type them
  Canonical,        \* Canonical[m]: m stripped, in lower case
  Posts,            \* the forms visitors send: a subset of Post
  Senders,          \* how many requests are under way at a time
  LimitPerMinute,   \* LimitPerMinute[b], for a bucket b; <= 0 disables it
  MaxPerDay,        \* FEEDBACK_MAX_PER_DAY; <= 0 disables it
  Day,              \* ticks of a day (scaled)
  ChallengeLife,    \* FEEDBACK_CAPTCHA_TTL_MINUTES, in ticks (scaled)
  MaxTicks,         \* bound: ticks
  MaxSends,         \* bound: requests
  LimitUpsets       \* which failures may happen: {"redis", "request_dies"}

Buckets == {"upload", "feedback"}
MinuteTicks == 2

Post == [mailbox: Mailboxes,
         attachment: {"none", "image", "other_type", "empty", "large", "disguised"},
         trap: BOOLEAN, signed: BOOLEAN, age: 0..MaxTicks, solved: BOOLEAN,
         category: {"known", "unknown"}]

ASSUME LimitAssumption ==
  /\ NoCaller \in Callers
  /\ Canonical \in [Mailboxes -> Mailboxes]
  /\ Posts \subseteq Post
  /\ LimitPerMinute \in [Buckets -> Int] /\ MaxPerDay \in Int
  /\ {Day, ChallengeLife, MaxTicks, MaxSends} \subseteq Nat

VARIABLES
  now,        \* ticks since the start
  counter,    \* the keys in Redis: [bucket, caller, window] -> [count, until]
  sender,     \* what each request under way is doing
  submitted,  \* the rows of feedback, by id
  numbered,   \* ids given out
  sent,       \* requests so far (bound)
  passes      \* requests Redis let through, by key (history)

limitVars == <<now, counter, sender, submitted, numbered, sent, passes>>

Windows == 0..(MaxTicks \div MinuteTicks)
Keys == [bucket: Buckets, caller: Callers, window: Windows]
Forever == MaxTicks + 10

\* stage "arrived": the window of key is computed; "counted": INCR has answered;
\* "passed": the request is inside; "counting": its form is in order; "checked":
\* the day's submissions were few enough when they were counted, at time at.
Away == [stage |-> "away"]

LimitsInit ==
  /\ now = 0 /\ counter = <<>>
  /\ sender = [s \in Senders |-> Away]
  /\ submitted = <<>> /\ numbered = 0 /\ sent = 0
  /\ passes = [k \in Keys |-> 0]

Is(s, stage) == sender[s].stage = stage
Becomes(s, next) == sender' = [sender EXCEPT ![s] = next]

-----------------------------------------------------------------------------
(* The counters.                                                            *)

\* A request for an endpoint with a limit: time.time() // 60.
Arrive(s, bucket, caller, post) ==
  /\ Is(s, "away") /\ sent < MaxSends
  /\ sent' = sent + 1
  /\ Becomes(s, [stage |-> IF LimitPerMinute[bucket] <= 0 THEN "passed" ELSE "arrived",
                 key |-> [bucket |-> bucket, caller |-> caller,
                          window |-> now \div MinuteTicks],
                 post |-> post, since |-> now, at |-> 0,
                 known |-> DOMAIN submitted])
  /\ UNCHANGED <<now, counter, submitted, numbered, passes>>

\* A call to Redis fails: the request passes.
FailOpen(s) ==
  /\ Is(s, "arrived") \/ Is(s, "counted")
  /\ "redis" \in LimitUpsets
  /\ Becomes(s, [sender[s] EXCEPT !.stage = "passed"])
  /\ UNCHANGED <<now, counter, submitted, numbered, sent, passes>>

\* What the limiter answers once it has the count.
Judged(s, count) ==
  LET key == sender[s].key
  IN IF count > LimitPerMinute[key.bucket]
       THEN Becomes(s, Away) /\ UNCHANGED passes
       ELSE /\ Becomes(s, [sender[s] EXCEPT !.stage = "passed"])
            /\ passes' = [passes EXCEPT ![key] = @ + 1]

Incr(s) ==
  /\ Is(s, "arrived")
  /\ LET key   == sender[s].key
         old   == IF key \in DOMAIN counter THEN counter[key]
                                            ELSE [count |-> 0, until |-> Forever]
         count == old.count + 1
     IN /\ counter' = [k \in DOMAIN counter \cup {key} |->
                         IF k = key THEN [old EXCEPT !.count = count] ELSE counter[k]]
        /\ IF count = 1
             THEN Becomes(s, [sender[s] EXCEPT !.stage = "counted"]) /\ UNCHANGED passes
             ELSE Judged(s, count)
  /\ UNCHANGED <<now, submitted, numbered, sent>>

\* Mutant: the key lives as long as half a window.
CounterLifeMutant == 1

\* "Window key lives slightly longer than the window itself": 90 seconds.
CounterLife == 3

\* The first request of a window gives its key a life, in a second call.
SetLife(s) ==
  /\ Is(s, "counted")
  /\ counter' = [k \in DOMAIN counter |->
                   IF k = sender[s].key THEN [counter[k] EXCEPT !.until = now + CounterLife]
                                        ELSE counter[k]]
  /\ Judged(s, 1)
  /\ UNCHANGED <<now, submitted, numbered, sent>>

\* An upload is FileStore's from here on.
UploadGoesOn(s) ==
  /\ Is(s, "passed") /\ sender[s].key.bucket = "upload"
  /\ Becomes(s, Away)
  /\ UNCHANGED <<now, counter, submitted, numbered, sent, passes>>

-----------------------------------------------------------------------------
(* A submission.                                                            *)

\* validate_attachment, whose answers differ but let nothing be stored
GoodAttachment(post) == post.attachment \in {"none", "image"}

\* issue_challenge: signed by the server, with the time it ends; its age is that
\* of the form it came with
Expiry(s) == sender[s].since - sender[s].post.age + ChallengeLife

\* verify: nothing is remembered, so one challenge serves until it ends
Verified(s) ==
  /\ sender[s].post.signed
  /\ now <= Expiry(s)
  /\ sender[s].post.solved

\* Everything before the daily limit.  A filled trap field gets a decoy for an
\* answer, which is not stored.
InOrder(s) ==
  /\ GoodAttachment(sender[s].post)
  /\ ~sender[s].post.trap
  /\ Verified(s)
  /\ sender[s].post.category = "known"

CheckForm(s) ==
  /\ Is(s, "passed") /\ sender[s].key.bucket = "feedback"
  /\ Becomes(s, IF InOrder(s) THEN [sender[s] EXCEPT !.stage = "counting"] ELSE Away)
  /\ UNCHANGED <<now, counter, submitted, numbered, sent, passes>>

\* "a match on either identifier counts"
SameSubmitter(row, mailbox, caller) ==
  \/ row.mailbox = Canonical[mailbox]
  \/ caller # NoCaller /\ row.caller = caller

Recent(mailbox, caller, ids) ==
  {i \in ids : SameSubmitter(submitted[i], mailbox, caller) /\ submitted[i].at >= now - Day}

CountRecent(s) ==
  /\ Is(s, "counting")
  /\ Becomes(s, IF /\ MaxPerDay > 0
                   /\ Cardinality(Recent(sender[s].post.mailbox, sender[s].key.caller,
                                         DOMAIN submitted)) >= MaxPerDay
                THEN Away
                ELSE [sender[s] EXCEPT !.stage = "checked", !.at = now])
  /\ UNCHANGED <<now, counter, submitted, numbered, sent, passes>>

\* The row: created_at is when its transaction began, with the count (visitors
\* who are signed in, whose account is read first, are left out).
Store(s) ==
  /\ Is(s, "checked")
  /\ numbered' = numbered + 1
  /\ LET row == [mailbox |-> Canonical[sender[s].post.mailbox],
                 caller |-> sender[s].key.caller, at |-> sender[s].at,
                 known |-> sender[s].known]
     IN submitted' = [i \in DOMAIN submitted \cup {numbered + 1} |->
                        IF i = numbered + 1 THEN row ELSE submitted[i]]
  /\ Becomes(s, Away)
  /\ UNCHANGED <<now, counter, sent, passes>>

\* An admin deletes a submission (services/admin.py).
DeleteFeedback(i) ==
  /\ submitted' = [j \in DOMAIN submitted \ {i} |-> submitted[j]]
  /\ UNCHANGED <<now, counter, sender, numbered, sent, passes>>

-----------------------------------------------------------------------------
(* Time and failures.                                                       *)

\* Keys whose life is over go.
Tick ==
  /\ now < MaxTicks
  /\ \A s \in Senders : (Is(s, "arrived") \/ Is(s, "counted")) => sender[s].since = now
  /\ now' = now + 1
  /\ counter' = [k \in {k \in DOMAIN counter : counter[k].until > now + 1} |-> counter[k]]
  /\ UNCHANGED <<sender, submitted, numbered, sent, passes>>

RequestDies(s) ==
  /\ "request_dies" \in LimitUpsets /\ ~Is(s, "away")
  /\ Becomes(s, Away)
  /\ UNCHANGED <<now, counter, submitted, numbered, sent, passes>>

SenderStep(s) ==
  \/ \E caller \in Callers : \/ Arrive(s, "upload", caller, [form |-> "none"])
                             \/ \E post \in Posts : Arrive(s, "feedback", caller, post)
  \/ FailOpen(s) \/ Incr(s) \/ SetLife(s) \/ UploadGoesOn(s)
  \/ CheckForm(s) \/ CountRecent(s) \/ Store(s) \/ RequestDies(s)

LimitsNext ==
  \/ \E s \in Senders : SenderStep(s)
  \/ \E i \in DOMAIN submitted : DeleteFeedback(i)
  \/ Tick

LimitsSpec == LimitsInit /\ [][LimitsNext]_limitVars

-----------------------------------------------------------------------------
(* Properties.                                                              *)

\* Redis never lets more requests of one caller into one minute than the limit,
\* whatever dies between the two calls of the limiter and however many requests
\* run side by side (dependencies/rate_limit.py:43): a counter that ended before
\* its minute would start again at one.
MinutesAreBounded ==
  \A k \in Keys : passes[k] <= LimitPerMinute[k.bucket] \/ LimitPerMinute[k.bucket] <= 0

\* More than MaxPerDay submissions of one address or caller within a day were
\* under way together: of those already stored when the request for one of them
\* arrived, fewer than MaxPerDay were its submitter's and of the day before
\* (services/feedback.py:162, where the count and the insert are two steps).
RepeatsOverlap ==
  MaxPerDay > 0 =>
    \A i \in DOMAIN submitted :
      Cardinality({j \in submitted[i].known \cap DOMAIN submitted :
                     /\ submitted[j].at >= submitted[i].at - Day
                     /\ \/ submitted[j].mailbox = submitted[i].mailbox
                        \/ submitted[i].caller # NoCaller
                           /\ submitted[j].caller = submitted[i].caller}) < MaxPerDay

\* Both limits, each at its own place.
LimitsHold == MinutesAreBounded /\ RepeatsOverlap
=============================================================================
