----------------------------- MODULE RateLimiter -----------------------------
(***************************************************************************)
(* SessionRateLimiter (src/rate-limit/rate-limiter.ts).  A call of acquire *)
(* looks at its session's bucket but waits on one made for the call, whose *)
(* size is the effective limit; a limit may be a fraction (Limits / Scale  *)
(* messages per minute).  Minute and Warmup are in ticks of their own: the *)
(* model keeps their order, not their ratio.                               *)
(*                                                                         *)
(* The limiter is enabled.  With enabled: false acquire and canAcquire     *)
(* allow everything at once, and leave nothing behind.                     *)
(***************************************************************************)
EXTENDS TokenBucket, SessionIds

CONSTANTS
  Senders,    \* the calls of acquire, each made once
  Limits,     \* maxMessagesPerMinute * Scale; a run has one of them
  Scale,
  ColdOf10,   \* coldContactMultiplier * 10
  Minute,     \* ticks per minute
  Warmup      \* warmupPeriodDays, in ticks

ASSUME LimiterAssumption ==
  /\ Limits \subseteq Nat \ {0}
  /\ Scale \in Nat \ {0} /\ Minute \in Nat \ {0} /\ Warmup \in Nat \ {0}
  /\ ColdOf10 \in 1..10

VARIABLES
  limit,     \* maxMessagesPerMinute * Scale
  buckets,   \* the bucket of each session, NoBucket without an entry
  metadata,  \* createdAt as an age, and isWarmup; age -1 is no entry
  sender     \* per call of acquire, where it is, its session and its bucket

limiterVars == <<limit, buckets, metadata, sender>>

OneToken == Scale * Minute
NoBucket == NewBucket(0, 0, 0)
NoMetadata == [age |-> -1, isWarmup |-> TRUE]

Settled == {"done", "aborted", "rejected"}

LimiterInit ==
  /\ limit \in Limits
  /\ buckets = [s \in Sessions |-> NoBucket]
  /\ metadata = [s \in Sessions |-> NoMetadata]
  /\ sender \in [Senders ->
       {[pc |-> "idle", session |-> s, bucket |-> NoBucket] : s \in Sessions}]

-----------------------------------------------------------------------------
BucketOf(s) ==
  IF buckets[s] # NoBucket THEN buckets[s]
  ELSE NewBucket(limit * Minute, limit, limit * Minute)

MetadataOf(s) ==
  IF metadata[s] # NoMetadata THEN metadata[s] ELSE [age |-> 0, isWarmup |-> TRUE]

\* calculateEffectiveLimit with what it does to the metadata: the factor is
\* 0.3 at the start of the warm-up and 1 at its end.
Warming(m) == m.isWarmup /\ m.age < Warmup
\* Mutant: the days left of the warm-up are taken for its progress.
EffectiveLimitByDaysLeft(m, isColdContact) ==
  LET cold == IF isColdContact THEN ColdOf10 ELSE 10
      warm == IF Warming(m) THEN 3 * Warmup + 7 * (Warmup - m.age) ELSE 10 * Warmup
      floor == (limit * cold * warm) \div (Scale * 100 * Warmup)
  IN IF floor < 1 THEN 1 ELSE floor

EffectiveLimit(m, isColdContact) ==
  LET cold == IF isColdContact THEN ColdOf10 ELSE 10
      warm == IF Warming(m) THEN 3 * Warmup + 7 * m.age ELSE 10 * Warmup
      floor == (limit * cold * warm) \div (Scale * 100 * Warmup)
  IN IF floor < 1 THEN 1 ELSE floor
SeenMetadata(s) == [MetadataOf(s) EXCEPT !.isWarmup = Warming(MetadataOf(s))]

\* The bucket of one call: never more in it than in the session's own.
ScaledBucket(s, isColdContact) ==
  LET effective == EffectiveLimit(MetadataOf(s), isColdContact) IN
  NewBucket(effective * OneToken, effective * Scale,
            Least(Refill(BucketOf(s)).tokens, effective * OneToken))

\* What acquire and canAcquire leave of the session before anything waits.
Look(s) ==
  /\ buckets' = [buckets EXCEPT ![s] = Refill(BucketOf(s))]
  /\ metadata' = [metadata EXCEPT ![s] = SeenMetadata(s)]

\* canAcquire: what it answers, and what it leaves.
MayAcquire(s) == CanTake(ScaledBucket(s, FALSE), OneToken)
TokensRemaining(s) == Refill(ScaledBucket(s, FALSE)).tokens
CanAcquire(s) == Look(s) /\ UNCHANGED <<limit, sender>>

\* Mutant: a refused attempt moves lastRefill and adds nothing.
AttemptForgetful(c, b, aborted) ==
  sender' = [sender EXCEPT ![c] =
    IF BeyondCapacity(b, OneToken) THEN [@ EXCEPT !.pc = "rejected"]
    ELSE IF CanTake(b, OneToken)
         THEN [@ EXCEPT !.pc = "granted", !.bucket = Take(b, OneToken)]
    ELSE IF aborted THEN [@ EXCEPT !.pc = "aborted", !.bucket = NoBucket]
         ELSE [@ EXCEPT !.pc = "sleeping", !.bucket = [b EXCEPT !.idle = 0]]]

\* One turn of the loop of TokenBucket.acquire.  A signal that is up already is
\* noticed where there is no token: one that is there is taken first.
Attempt(c, b, aborted) ==
  sender' = [sender EXCEPT ![c] =
    IF BeyondCapacity(b, OneToken) THEN [@ EXCEPT !.pc = "rejected"]
    ELSE IF CanTake(b, OneToken)
         THEN [@ EXCEPT !.pc = "granted", !.bucket = Take(b, OneToken)]
    ELSE IF aborted THEN [@ EXCEPT !.pc = "aborted", !.bucket = NoBucket]
         ELSE [@ EXCEPT !.pc = "sleeping", !.bucket = Refill(b)]]

Acquire(c, isColdContact, aborted) ==
  /\ sender[c].pc = "idle"
  /\ Look(sender[c].session)
  /\ Attempt(c, ScaledBucket(sender[c].session, isColdContact), aborted)
  /\ UNCHANGED limit

Wake(c) ==
  /\ sender[c].pc = "sleeping"
  /\ Attempt(c, sender[c].bucket, FALSE)
  /\ UNCHANGED <<limit, buckets, metadata>>

\* The message is counted: metadata lost during the wait start anew.
Count(c) ==
  /\ sender[c].pc = "granted"
  /\ metadata' = [metadata EXCEPT ![sender[c].session] = MetadataOf(sender[c].session)]
  /\ sender' = [sender EXCEPT ![c].pc = "jitter"]
  /\ UNCHANGED <<limit, buckets>>

EndJitter(c) ==
  /\ sender[c].pc = "jitter"
  /\ sender' = [sender EXCEPT ![c].pc = "done", ![c].bucket = NoBucket]
  /\ UNCHANGED <<limit, buckets, metadata>>

\* The signal of the call is raised while it sleeps, for a token or for the jitter,
\* and the sleep ends at once; what it has counted and taken by then stays so.
Aborted(c) ==
  /\ sender' = [sender EXCEPT ![c].pc = "aborted", ![c].bucket = NoBucket]
  /\ UNCHANGED <<limit, buckets, metadata>>

AbortWait(c) == sender[c].pc = "sleeping" /\ Aborted(c)
AbortJitter(c) == sender[c].pc = "jitter" /\ Aborted(c)

\* Each LRU cache drops an entry on its own; reset drops both.
LoseBucket(s) ==
  /\ buckets[s] # NoBucket
  /\ buckets' = [buckets EXCEPT ![s] = NoBucket]
  /\ UNCHANGED <<limit, metadata, sender>>

LoseMetadata(s) ==
  /\ metadata[s] # NoMetadata
  /\ metadata' = [metadata EXCEPT ![s] = NoMetadata]
  /\ UNCHANGED <<limit, buckets, sender>>

ResetLimits(s) ==
  /\ buckets' = [buckets EXCEPT ![s] = NoBucket]
  /\ metadata' = [metadata EXCEPT ![s] = NoMetadata]
  /\ UNCHANGED <<limit, sender>>

LimiterTick ==
  /\ buckets' = [s \in Sessions |-> Elapse(buckets[s])]
  /\ metadata' = [s \in Sessions |->
       IF metadata[s].age \in 0..(Warmup - 1)
       THEN [metadata[s] EXCEPT !.age = @ + 1] ELSE metadata[s]]
  /\ sender' = [c \in Senders |-> [sender[c] EXCEPT !.bucket = Elapse(@)]]
  /\ UNCHANGED limit

\* The call gets on by itself.
SenderTimers(c) == Wake(c) \/ Count(c) \/ EndJitter(c)

SenderStep(c) ==
  \/ \E isColdContact, aborted \in BOOLEAN : Acquire(c, isColdContact, aborted)
  \/ SenderTimers(c)
  \/ AbortWait(c) \/ AbortJitter(c)

LimiterStep(s) == LoseBucket(s) \/ LoseMetadata(s) \/ ResetLimits(s)

LimiterNext ==
  \/ LimiterTick
  \/ \E s \in Sessions : LimiterStep(s) \/ CanAcquire(s)
  \/ \E c \in Senders : SenderStep(c)

-----------------------------------------------------------------------------
BucketOK(b) ==
  /\ b.max \in Nat /\ b.rate \in Nat
  /\ b.tokens \in 0..b.max
  /\ b.idle \in Nat

\* The limiter's data is well formed: no bucket is overdrawn or overfull,
\* whatever fractions come in and however seldom it is looked at.
LimiterTypeOK ==
  /\ limit \in Limits
  /\ \A s \in Sessions :
       /\ BucketOK(buckets[s])
       /\ metadata[s].age \in -1..Warmup
       /\ metadata[s].isWarmup \in BOOLEAN
  /\ \A c \in Senders :
       /\ sender[c].pc \in {"idle", "sleeping", "granted", "jitter"} \cup Settled
       /\ sender[c].session \in Sessions
       /\ BucketOK(sender[c].bucket)

\* No acquire is refused because its bucket could never hold a token: cold
\* contacts, the warm-up and a limit below one message per minute slow a
\* session down and never stop it (calculateEffectiveLimit).
NoAcquireIsRefused == \A c \in Senders : sender[c].pc # "rejected"

\* While a session keeps its metadata its limits only grow: the warm-up and its
\* end, noticed late or by another call, never take back what was allowed.
LimitOnlyGrows ==
  \A s \in Sessions :
    metadata[s] # NoMetadata /\ metadata'[s] # NoMetadata
      /\ metadata'[s].age >= metadata[s].age =>
        \A cold \in BOOLEAN :
          EffectiveLimit(metadata'[s], cold) >= EffectiveLimit(metadata[s], cold)

\* Every acquire ends, however often the waiter looks and finds too little: the
\* fractions of a token that came in between two looks are not lost.  A call only
\* waits where the limit is below one message a minute: no call takes from the
\* session's bucket (acquire, rate-limiter.ts:200-211).
EveryAcquireEnds ==
  \A c \in Senders : sender[c].pc = "sleeping" ~> sender[c].pc \in Settled
=============================================================================
