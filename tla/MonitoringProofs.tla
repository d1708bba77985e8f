--------------------------- MODULE MonitoringProofs ---------------------------
(***************************************************************************)
(* Proofs about the components the diagnostic engine is given, each for    *)
(* any set of sessions and any of its own settings.  Of the rate limiter   *)
(* and of the rotation monitor they show what one step keeps, which        *)
(* DiagnosticEngineProofs puts together; of the connection tracker, which  *)
(* has a specification of its own, what always holds.                      *)
(***************************************************************************)
EXTENDS ConnectionTracker, RotationMonitor, RateLimiter, FiniteSetTheorems, TLAPS

-----------------------------------------------------------------------------
(* The rate limiter: its buckets stay between empty and full, no call      *)
(* waits on a bucket that could never hold a token, and the limits only    *)
(* grow, for every limit, warm-up and number of calls.                     *)

Buckets == [tokens : Nat, max : Nat, rate : Nat, idle : Nat]
SoundBucket(b) == b \in Buckets /\ b.tokens <= b.max

Metas == [age : -1..Warmup, isWarmup : BOOLEAN]

\* A warm-up is only over when it is.
SoundMeta(m) == m \in Metas /\ (~m.isWarmup => m.age = Warmup)

SenderPcs == {"idle", "sleeping", "granted", "jitter"} \cup Settled
SenderStates == [pc : SenderPcs, session : Sessions, bucket : Buckets]

\* A call only waits on a bucket that can hold a token.
SoundSender(w) ==
  /\ w \in SenderStates
  /\ SoundBucket(w.bucket)
  /\ w.pc # "rejected"
  /\ w.pc = "sleeping" => w.bucket.max >= OneToken

SoundBuckets == {b \in Buckets : SoundBucket(b)}
SoundMetas == {m \in Metas : SoundMeta(m)}
SoundSenders == {w \in SenderStates : SoundSender(w)}

LimiterInv ==
  /\ limit \in Limits
  /\ buckets \in [Sessions -> SoundBuckets]
  /\ metadata \in [Sessions -> SoundMetas]
  /\ sender \in [Senders -> SoundSenders]

-----------------------------------------------------------------------------
(* Arithmetic *)

LEMMA TimesGrows ==
  ASSUME NEW a \in Nat, NEW x \in Int, NEW y \in Int, x <= y
  PROVE  a * x <= a * y
OBVIOUS

LEMMA TimesType ==
  ASSUME NEW a \in Nat, NEW b \in Nat
  PROVE  a * b \in Nat
OBVIOUS

LEMMA TimesPositive ==
  ASSUME NEW a \in Nat \ {0}, NEW b \in Nat \ {0}
  PROVE  a * b \in Nat \ {0}
OBVIOUS

LEMMA TimesAtLeast ==
  ASSUME NEW a \in Nat \ {0}, NEW b \in Nat
  PROVE  a * b >= b
OBVIOUS

LEMMA Divided ==
  ASSUME NEW x \in Int, NEW d \in Nat \ {0}
  PROVE  x \div d \in Int /\ d * (x \div d) <= x /\ x < d * (x \div d) + d
OBVIOUS

LEMMA QuotientsOrdered ==
  ASSUME NEW p \in Int, NEW q \in Int, NEW x \in Int, NEW y \in Int, NEW d \in Nat \ {0},
         d * p <= x, y < d * q + d, x <= y
  PROVE  p <= q
<1> SUFFICES ASSUME q + 1 <= p PROVE FALSE
  OBVIOUS
<1>1. d * (q + 1) <= d * p
  BY TimesGrows
<1>2. d * (q + 1) = d * q + d
  OBVIOUS
<1> QED BY <1>1, <1>2

LEMMA DividedGrows ==
  ASSUME NEW x \in Int, NEW y \in Int, x <= y, NEW d \in Nat \ {0}
  PROVE  x \div d <= y \div d
BY Divided, QuotientsOrdered

-----------------------------------------------------------------------------
(* Buckets *)

LEMMA OneTokenType == OneToken \in Nat \ {0}
BY LimiterAssumption, TimesPositive DEF OneToken

LEMMA NewBucketSound ==
  ASSUME NEW max \in Nat, NEW rate \in Nat, NEW initial \in Nat, initial <= max
  PROVE  SoundBucket(NewBucket(max, rate, initial)) /\ NewBucket(max, rate, initial).max = max
BY DEF NewBucket, SoundBucket, Buckets

LEMMA EmptiedBucket ==
  ASSUME NEW b \in Buckets, NEW t \in Nat, NEW r, r = [b EXCEPT !.tokens = t, !.idle = 0]
  PROVE  r \in Buckets /\ r.tokens = t /\ r.max = b.max
BY DEF Buckets

LEMMA RefillSound ==
  ASSUME NEW b, SoundBucket(b)
  PROVE  SoundBucket(Refill(b)) /\ Refill(b).max = b.max
<1>1. b \in Buckets /\ b.tokens \in Nat /\ b.max \in Nat /\ b.rate \in Nat /\ b.idle \in Nat
  BY DEF SoundBucket, Buckets
<1>2. b.idle * b.rate \in Nat
  BY <1>1, TimesType
<1>3. PICK t \in Nat : t = Least(b.max, b.tokens + b.idle * b.rate) /\ t <= b.max
  BY <1>1, <1>2 DEF Least
<1>4. Refill(b) = [b EXCEPT !.tokens = t, !.idle = 0]
  BY <1>3 DEF Refill
<1>5. Refill(b) \in Buckets /\ Refill(b).tokens = t /\ Refill(b).max = b.max
  BY <1>1, <1>4, EmptiedBucket
<1> QED BY <1>3, <1>5 DEF SoundBucket

LEMMA TakeSound ==
  ASSUME NEW b, SoundBucket(b), CanTake(b, OneToken)
  PROVE  SoundBucket(Take(b, OneToken))
<1>1. SoundBucket(Refill(b)) /\ OneToken \in Nat
  BY RefillSound, OneTokenType
<1>2. /\ Refill(b) \in Buckets /\ Refill(b).tokens \in Nat /\ Refill(b).max \in Nat
      /\ Refill(b).tokens <= Refill(b).max /\ Refill(b).tokens >= OneToken
  BY <1>1 DEF SoundBucket, Buckets, CanTake
<1> DEFINE r == Refill(b)
           t == r.tokens - OneToken
<1>3. t \in Nat /\ t <= r.max
  BY <1>1, <1>2
<1>4. Take(b, OneToken) = [r EXCEPT !.tokens = t]
  BY DEF Take
<1> HIDE DEF t, r
<1>5. r \in Buckets
  BY <1>2 DEF r
<1> QED BY <1>3, <1>4, <1>5 DEF SoundBucket, Buckets

LEMMA ElapseSound ==
  ASSUME NEW b, SoundBucket(b)
  PROVE  SoundBucket(Elapse(b)) /\ Elapse(b).max = b.max
<1>1. CASE Elapse(b) = b
  BY <1>1
<1>2. CASE Elapse(b) = [b EXCEPT !.idle = b.idle + 1]
  <2>1. b.idle + 1 \in Nat /\ b \in Buckets
    BY DEF SoundBucket, Buckets
  <2> QED BY <1>2, <2>1 DEF SoundBucket, Buckets
<1> QED BY <1>1, <1>2 DEF Elapse

-----------------------------------------------------------------------------
(* The effective limit *)

Cold(isColdContact) == IF isColdContact THEN ColdOf10 ELSE 10

\* The warm-up's factor is one line over its whole length, its end included.
Warm(m) == 3 * Warmup + 7 * m.age

Floored(n) == IF n < 1 THEN 1 ELSE n

LEMMA FactorsType ==
  ASSUME limit \in Limits, NEW isColdContact \in BOOLEAN
  PROVE  limit * Cold(isColdContact) \in Nat /\ Scale * 100 * Warmup \in Nat \ {0}
<1>1. limit \in Nat /\ Cold(isColdContact) \in Nat
  BY LimiterAssumption DEF Cold
<1>2. Scale \in Nat \ {0} /\ Warmup \in Nat \ {0}
  BY LimiterAssumption
<1>3. Scale * 100 \in Nat \ {0}
  BY <1>2, TimesPositive
<1> QED BY <1>1, <1>2, <1>3, TimesType, TimesPositive

LEMMA LimitIs ==
  ASSUME NEW m, SoundMeta(m), NEW isColdContact \in BOOLEAN
  PROVE  EffectiveLimit(m, isColdContact) =
           Floored((limit * Cold(isColdContact) * Warm(m)) \div (Scale * 100 * Warmup))
<1>1. /\ m.age \in Int /\ m.isWarmup \in BOOLEAN /\ m.age <= Warmup
      /\ ~m.isWarmup => m.age = Warmup
      /\ Warmup \in Nat
  BY LimiterAssumption DEF SoundMeta, Metas
<1>2. ~Warming(m) => m.age = Warmup
  BY <1>1 DEF Warming
<1>3. (IF Warming(m) THEN 3 * Warmup + 7 * m.age ELSE 10 * Warmup) = Warm(m)
  BY <1>1, <1>2 DEF Warm
<1> QED BY <1>3, Zenon DEF EffectiveLimit, Floored, Cold

LEMMA LimitType ==
  ASSUME limit \in Limits, NEW m, SoundMeta(m), NEW isColdContact \in BOOLEAN
  PROVE  EffectiveLimit(m, isColdContact) \in Nat \ {0}
<1> DEFINE x == limit * Cold(isColdContact) * Warm(m)
           d == Scale * 100 * Warmup
<1>1. limit * Cold(isColdContact) \in Nat /\ d \in Nat \ {0}
  BY FactorsType
<1>2. Warm(m) \in Int
  BY LimiterAssumption DEF Warm, SoundMeta, Metas
<1>3. x \in Int
  BY <1>1, <1>2
<1>4. EffectiveLimit(m, isColdContact) = Floored(x \div d)
  BY LimitIs
<1> HIDE DEF x, d
<1>5. x \div d \in Int
  BY <1>1, <1>3, Divided
<1> QED BY <1>4, <1>5 DEF Floored

LEMMA LimitGrows ==
  ASSUME limit \in Limits, NEW m, SoundMeta(m), NEW n, SoundMeta(n), m.age <= n.age,
         NEW isColdContact \in BOOLEAN
  PROVE  EffectiveLimit(n, isColdContact) >= EffectiveLimit(m, isColdContact)
<1> DEFINE a == limit * Cold(isColdContact)
           d == Scale * 100 * Warmup
           x == a * Warm(m)
           y == a * Warm(n)
<1>1. a \in Nat /\ d \in Nat \ {0}
  BY FactorsType
<1>2. Warm(m) \in Int /\ Warm(n) \in Int /\ Warm(m) <= Warm(n)
  BY LimiterAssumption DEF Warm, SoundMeta, Metas
<1>3. /\ EffectiveLimit(m, isColdContact) = Floored(x \div d)
      /\ EffectiveLimit(n, isColdContact) = Floored(y \div d)
  BY LimitIs
<1>4. x \in Int /\ y \in Int /\ x <= y
  <2> HIDE DEF a
  <2> QED BY <1>1, <1>2, TimesGrows
<1> HIDE DEF x, y, d
<1>5. x \div d \in Int /\ y \div d \in Int /\ x \div d <= y \div d
  BY <1>1, <1>4, Divided, DividedGrows
<1> QED BY <1>3, <1>5 DEF Floored

-----------------------------------------------------------------------------
(* What a session's entries may become *)

LEMMA NoBucketSound == SoundBucket(NoBucket)
BY NewBucketSound DEF NoBucket

LEMMA NoMetadataSound == NoMetadata \in SoundMetas
<1>1. -1 \in -1..Warmup
  BY LimiterAssumption
<1>2. NoMetadata \in Metas /\ NoMetadata.isWarmup
  BY <1>1 DEF NoMetadata, Metas
<1> QED BY <1>2 DEF SoundMetas, SoundMeta

LEMMA BucketOfSound ==
  ASSUME LimiterInv, NEW s \in Sessions
  PROVE  SoundBucket(BucketOf(s))
<1>1. limit \in Nat /\ Minute \in Nat
  BY LimiterAssumption DEF LimiterInv
<1>2. limit * Minute \in Nat
  BY <1>1, TimesType
<1>3. SoundBucket(NewBucket(limit * Minute, limit, limit * Minute))
  <2>1. limit * Minute <= limit * Minute
    BY <1>2
  <2> QED BY <1>1, <1>2, <2>1, NewBucketSound
<1>4. SoundBucket(buckets[s])
  BY DEF LimiterInv, SoundBuckets
<1> QED BY <1>3, <1>4 DEF BucketOf

LEMMA MetadataOfSound ==
  ASSUME LimiterInv, NEW s \in Sessions
  PROVE  SoundMeta(MetadataOf(s)) /\ SoundMeta(SeenMetadata(s))
<1>1. SoundMeta(metadata[s])
  BY DEF LimiterInv, SoundMetas
<1>2. SoundMeta([age |-> 0, isWarmup |-> TRUE])
  BY LimiterAssumption DEF SoundMeta, Metas
<1>3. SoundMeta(MetadataOf(s))
  BY <1>1, <1>2 DEF MetadataOf
<1> DEFINE m == MetadataOf(s)
<1>4. m.age \in -1..Warmup /\ m.isWarmup \in BOOLEAN /\ m \in Metas
  BY <1>3 DEF SoundMeta, Metas
<1>5. Warming(m) \in BOOLEAN /\ (~Warming(m) => m.age = Warmup)
  BY <1>3, <1>4, LimiterAssumption DEF Warming, SoundMeta
<1>6. PICK w \in BOOLEAN : w = Warming(m)
  BY <1>5
<1>7. SeenMetadata(s) = [m EXCEPT !.isWarmup = w]
  BY <1>6 DEF SeenMetadata
<1>8. ~w => m.age = Warmup
  BY <1>5, <1>6
<1>9. SoundMeta(SeenMetadata(s))
  <2> HIDE DEF m
  <2>1. SeenMetadata(s) \in Metas
    BY <1>4, <1>7 DEF Metas
  <2>2. SeenMetadata(s).isWarmup = w /\ SeenMetadata(s).age = m.age
    BY <1>4, <1>7 DEF Metas
  <2> QED BY <1>8, <2>1, <2>2 DEF SoundMeta
<1> QED BY <1>3, <1>9

LEMMA ScaledSound ==
  ASSUME LimiterInv, NEW s \in Sessions, NEW isColdContact \in BOOLEAN
  PROVE  /\ SoundBucket(ScaledBucket(s, isColdContact))
         /\ ScaledBucket(s, isColdContact).max >= OneToken
<1>1. limit \in Limits /\ SoundMeta(MetadataOf(s))
  BY MetadataOfSound DEF LimiterInv
<1>2. PICK effective \in Nat \ {0} : effective = EffectiveLimit(MetadataOf(s), isColdContact)
  BY <1>1, LimitType
<1>3. PICK max \in Nat : max = effective * OneToken /\ max >= OneToken
  BY OneTokenType, TimesType, TimesAtLeast
<1>4. effective * Scale \in Nat
  BY LimiterAssumption, TimesType
<1>5. Refill(BucketOf(s)).tokens \in Nat
  BY BucketOfSound, RefillSound DEF SoundBucket, Buckets
<1>6. PICK initial \in Nat : initial = Least(Refill(BucketOf(s)).tokens, max) /\ initial <= max
  BY <1>5 DEF Least
<1>7. ScaledBucket(s, isColdContact) = NewBucket(max, effective * Scale, initial)
  BY <1>2, <1>3, <1>6, Zenon DEF ScaledBucket
<1> QED BY <1>3, <1>4, <1>6, <1>7, NewBucketSound

LEMMA SenderMoves ==
  ASSUME NEW w \in SoundSenders, NEW pc \in SenderPcs \ {"rejected"}, NEW b, SoundBucket(b),
         pc = "sleeping" => b.max >= OneToken, NEW r, r = [w EXCEPT !.pc = pc, !.bucket = b]
  PROVE  r \in SoundSenders
<1>1. w \in SenderStates /\ b \in Buckets
  BY DEF SoundSenders, SoundBucket
<1>2. r \in SenderStates /\ r.pc = pc /\ r.bucket = b
  BY <1>1 DEF SenderStates
<1> QED BY <1>2 DEF SoundSenders, SoundSender

LEMMA AttemptSound ==
  ASSUME sender \in [Senders -> SoundSenders], NEW c \in Senders, NEW b, SoundBucket(b),
         b.max >= OneToken, NEW aborted \in BOOLEAN, Attempt(c, b, aborted)
  PROVE  sender' \in [Senders -> SoundSenders]
<1>1. b.max \in Nat /\ OneToken \in Nat
  BY OneTokenType DEF SoundBucket, Buckets
<1>2. ~BeyondCapacity(b, OneToken)
  BY <1>1 DEF BeyondCapacity
<1> DEFINE w == sender[c]
<1>3. w \in SoundSenders
  OBVIOUS
<1>4. CASE CanTake(b, OneToken)
  <2>1. SoundBucket(Take(b, OneToken))
    BY <1>4, TakeSound
  <2>2. PICK r : r = [w EXCEPT !.pc = "granted", !.bucket = Take(b, OneToken)]
    OBVIOUS
  <2>3. "granted" \in SenderPcs \ {"rejected"} /\ "granted" # "sleeping"
    BY DEF SenderPcs, Settled
  <2>4. r \in SoundSenders
    BY <1>3, <2>1, <2>2, <2>3, SenderMoves
  <2>5. sender' = [sender EXCEPT ![c] = r]
    BY <1>2, <1>4, <2>2 DEF Attempt
  <2> QED BY <2>4, <2>5
<1>5. CASE ~CanTake(b, OneToken) /\ ~aborted
  <2>1. SoundBucket(Refill(b)) /\ Refill(b).max >= OneToken
    BY RefillSound
  <2>2. PICK r : r = [w EXCEPT !.pc = "sleeping", !.bucket = Refill(b)]
    OBVIOUS
  <2>3. "sleeping" \in SenderPcs \ {"rejected"}
    BY DEF SenderPcs, Settled
  <2>4. r \in SoundSenders
    BY <1>3, <2>1, <2>2, <2>3, SenderMoves
  <2>5. sender' = [sender EXCEPT ![c] = r]
    BY <1>2, <1>5, <2>2 DEF Attempt
  <2> QED BY <2>4, <2>5
<1>6. CASE ~CanTake(b, OneToken) /\ aborted
  <2>1. PICK r : r = [w EXCEPT !.pc = "aborted", !.bucket = NoBucket]
    OBVIOUS
  <2>2. "aborted" \in SenderPcs \ {"rejected"} /\ "aborted" # "sleeping"
    BY DEF SenderPcs, Settled
  <2>3. r \in SoundSenders
    BY <1>3, <2>1, <2>2, NoBucketSound, SenderMoves
  <2>4. sender' = [sender EXCEPT ![c] = r]
    BY <1>2, <1>6, <2>1 DEF Attempt
  <2> QED BY <2>3, <2>4
<1> QED BY <1>4, <1>5, <1>6

LEMMA LookSound ==
  ASSUME LimiterInv, NEW s \in Sessions, Look(s)
  PROVE  buckets' \in [Sessions -> SoundBuckets] /\ metadata' \in [Sessions -> SoundMetas]
<1>1. Refill(BucketOf(s)) \in SoundBuckets
  BY BucketOfSound, RefillSound DEF SoundBuckets, SoundBucket
<1>2. SeenMetadata(s) \in SoundMetas
  BY MetadataOfSound DEF SoundMetas, SoundMeta
<1> QED BY <1>1, <1>2 DEF LimiterInv, Look

-----------------------------------------------------------------------------
(* The steps *)

LEMMA LimiterStarts == LimiterInit => LimiterInv
<1> SUFFICES ASSUME LimiterInit PROVE LimiterInv
  OBVIOUS
<1>1. NoBucket \in SoundBuckets
  BY NoBucketSound DEF SoundBuckets, SoundBucket
<1>2. NoMetadata \in SoundMetas
  BY NoMetadataSound
<1>3. \A s \in Sessions : [pc |-> "idle", session |-> s, bucket |-> NoBucket] \in SoundSenders
  <2> TAKE s \in Sessions
  <2> DEFINE w == [pc |-> "idle", session |-> s, bucket |-> NoBucket]
  <2>1. NoBucket \in Buckets
    BY NoBucketSound DEF SoundBucket
  <2>2. w \in SenderStates /\ w.pc = "idle" /\ w.bucket = NoBucket
    BY <2>1 DEF SenderStates, SenderPcs
  <2>3. w \in SoundSenders
    <3> HIDE DEF w
    <3> QED BY <2>2, NoBucketSound DEF SoundSenders, SoundSender
  <2> QED BY <2>3
<1>4. sender \in [Senders -> SoundSenders]
  BY <1>3 DEF LimiterInit
<1> QED BY <1>1, <1>2, <1>4 DEF LimiterInit, LimiterInv

LEMMA SenderMayEnd ==
  ASSUME sender \in [Senders -> SoundSenders], NEW c \in Senders,
         NEW pc \in {"done", "aborted"},
         sender' = [sender EXCEPT ![c].pc = pc, ![c].bucket = NoBucket]
  PROVE  sender' \in [Senders -> SoundSenders]
<1>1. PICK r : r = [sender[c] EXCEPT !.pc = pc, !.bucket = NoBucket]
  OBVIOUS
<1>2. pc \in SenderPcs \ {"rejected"} /\ pc # "sleeping" /\ sender[c] \in SoundSenders
  BY DEF SenderPcs, Settled
<1>3. r \in SoundSenders
  BY <1>1, <1>2, NoBucketSound, SenderMoves
<1>4. sender' = [sender EXCEPT ![c] = r]
  BY <1>1
<1> QED BY <1>3, <1>4

LEMMA SenderKeepsLimiter ==
  ASSUME LimiterInv, NEW c \in Senders, SenderStep(c)
  PROVE  LimiterInv'
<1>0. /\ sender[c] \in SenderStates /\ SoundSender(sender[c])
      /\ sender[c].session \in Sessions
      /\ sender \in [Senders -> SoundSenders]
  BY DEF LimiterInv, SoundSenders, SenderStates
<1>1. ASSUME NEW isColdContact \in BOOLEAN, NEW aborted \in BOOLEAN,
             Acquire(c, isColdContact, aborted)
      PROVE  LimiterInv'
  <2>1. Look(sender[c].session) /\ UNCHANGED limit
    BY <1>1 DEF Acquire
  <2>2. PICK b : b = ScaledBucket(sender[c].session, isColdContact)
    OBVIOUS
  <2>3. SoundBucket(b) /\ b.max >= OneToken
    BY <1>0, <2>2, ScaledSound
  <2>4. Attempt(c, b, aborted)
    BY <1>1, <2>2 DEF Acquire
  <2>5. sender' \in [Senders -> SoundSenders]
    BY <1>0, <2>3, <2>4, AttemptSound
  <2> QED BY <1>0, <2>1, <2>5, LookSound DEF LimiterInv
<1>2. CASE Wake(c)
  <2>1. SoundBucket(sender[c].bucket) /\ sender[c].bucket.max >= OneToken
    BY <1>0, <1>2 DEF Wake, SoundSender
  <2>2. sender' \in [Senders -> SoundSenders]
    BY <1>0, <1>2, <2>1, AttemptSound DEF Wake
  <2> QED BY <1>2, <2>2 DEF Wake, LimiterInv
<1>3. CASE Count(c)
  <2>1. metadata' \in [Sessions -> SoundMetas]
    <3>1. MetadataOf(sender[c].session) \in SoundMetas
      BY <1>0, MetadataOfSound DEF SoundMetas, SoundMeta
    <3> QED BY <1>3, <3>1 DEF Count, LimiterInv
  <2>2. PICK r : r = [sender[c] EXCEPT !.pc = "jitter", !.bucket = sender[c].bucket]
    OBVIOUS
  <2>3. "jitter" \in SenderPcs \ {"rejected"} /\ "jitter" # "sleeping"
    BY DEF SenderPcs, Settled
  <2>4. SoundBucket(sender[c].bucket) /\ sender[c] \in SoundSenders
    BY <1>0 DEF SoundSender
  <2>5. r \in SoundSenders
    BY <2>2, <2>3, <2>4, SenderMoves
  <2>6. r = [sender[c] EXCEPT !.pc = "jitter"]
    BY <1>0, <2>2 DEF SenderStates
  <2>7. sender' = [sender EXCEPT ![c] = r]
    BY <1>3, <2>6 DEF Count
  <2>8. sender' \in [Senders -> SoundSenders]
    BY <1>0, <2>5, <2>7
  <2> QED BY <1>3, <2>1, <2>8 DEF Count, LimiterInv
<1>4. CASE EndJitter(c)
  <2>1. sender' \in [Senders -> SoundSenders]
    BY <1>0, <1>4, SenderMayEnd DEF EndJitter
  <2> QED BY <1>4, <2>1 DEF EndJitter, LimiterInv
<1>5. CASE Aborted(c)
  <2>1. sender' \in [Senders -> SoundSenders]
    BY <1>0, <1>5, SenderMayEnd DEF Aborted
  <2> QED BY <1>5, <2>1 DEF Aborted, LimiterInv
<1> QED BY <1>1, <1>2, <1>3, <1>4, <1>5 DEF SenderStep, SenderTimers, AbortWait, AbortJitter

LEMMA SessionKeepsLimiter ==
  ASSUME LimiterInv, NEW s \in Sessions, LimiterStep(s) \/ CanAcquire(s)
  PROVE  LimiterInv'
<1>1. NoBucket \in SoundBuckets
  BY NoBucketSound DEF SoundBuckets, SoundBucket
<1>2. NoMetadata \in SoundMetas
  BY NoMetadataSound
<1>3. CASE CanAcquire(s)
  BY <1>3, LookSound DEF CanAcquire, LimiterInv
<1>4. CASE LimiterStep(s)
  BY <1>1, <1>2, <1>4 DEF LimiterStep, LoseBucket, LoseMetadata, ResetLimits, LimiterInv
<1> QED BY <1>3, <1>4

LEMMA TickKeepsLimiter ==
  ASSUME LimiterInv, LimiterTick
  PROVE  LimiterInv'
<1>1. \A s \in Sessions : Elapse(buckets[s]) \in SoundBuckets
  BY ElapseSound DEF LimiterInv, SoundBuckets, SoundBucket
<1>2. buckets' \in [Sessions -> SoundBuckets]
  BY <1>1 DEF LimiterTick
<1>3. ASSUME NEW s \in Sessions PROVE metadata'[s] \in SoundMetas
  <2>1. SoundMeta(metadata[s]) /\ metadata[s] \in SoundMetas
    BY DEF LimiterInv, SoundMetas
  <2>2. metadata[s] \in Metas /\ metadata[s].age \in -1..Warmup /\ metadata[s].isWarmup \in BOOLEAN
    BY <2>1 DEF SoundMeta, Metas
  <2>3. CASE metadata[s].age \notin 0..(Warmup - 1)
    BY <2>1, <2>3 DEF LimiterTick
  <2>4. CASE metadata[s].age \in 0..(Warmup - 1)
    <3>1. metadata'[s] = [metadata[s] EXCEPT !.age = metadata[s].age + 1]
      BY <2>4 DEF LimiterTick
    <3>2. metadata[s].age + 1 \in -1..Warmup /\ metadata[s].isWarmup
      BY <2>1, <2>2, <2>4, LimiterAssumption DEF SoundMeta
    <3>3. metadata'[s] \in Metas /\ metadata'[s].isWarmup = metadata[s].isWarmup
      BY <2>2, <3>1, <3>2 DEF Metas
    <3> QED BY <3>2, <3>3 DEF SoundMetas, SoundMeta
  <2> QED BY <2>3, <2>4
<1>4. metadata' \in [Sessions -> SoundMetas]
  BY <1>3 DEF LimiterTick
<1>5. ASSUME NEW c \in Senders PROVE sender'[c] \in SoundSenders
  <2>1. sender[c] \in SoundSenders /\ sender[c] \in SenderStates /\ SoundSender(sender[c])
    BY DEF LimiterInv, SoundSenders
  <2>2. PICK b : b = Elapse(sender[c].bucket)
    OBVIOUS
  <2>3. SoundBucket(b) /\ b.max = sender[c].bucket.max
    BY <2>1, <2>2, ElapseSound DEF SoundSender
  <2>4. sender'[c] = [sender[c] EXCEPT !.bucket = b]
    BY <2>2 DEF LimiterTick
  <2>5. b \in Buckets
    BY <2>3 DEF SoundBucket
  <2>6. sender'[c] \in SenderStates /\ sender'[c].pc = sender[c].pc /\ sender'[c].bucket = b
    BY <2>1, <2>4, <2>5 DEF SenderStates
  <2> QED BY <2>1, <2>3, <2>6 DEF SoundSenders, SoundSender
<1>6. sender' \in [Senders -> SoundSenders]
  BY <1>5 DEF LimiterTick
<1> QED BY <1>2, <1>4, <1>6 DEF LimiterTick, LimiterInv

-----------------------------------------------------------------------------
(* What the invariant says *)

LEMMA InvIsTyped == LimiterInv => LimiterTypeOK
<1> SUFFICES ASSUME LimiterInv PROVE LimiterTypeOK
  OBVIOUS
<1>1. \A b : SoundBucket(b) => BucketOK(b)
  BY DEF SoundBucket, BucketOK, Buckets
<1>2. \A s \in Sessions : SoundBucket(buckets[s]) /\ metadata[s] \in Metas
  BY DEF LimiterInv, SoundBuckets, SoundMetas
<1>3. \A c \in Senders : sender[c] \in SenderStates /\ SoundSender(sender[c])
  BY DEF LimiterInv, SoundSenders
<1> QED
  BY <1>1, <1>2, <1>3 DEF LimiterInv, LimiterTypeOK, Metas, SenderStates, SenderPcs, SoundSender

LEMMA InvRefusesNone == LimiterInv => NoAcquireIsRefused
BY DEF LimiterInv, SoundSenders, SoundSender, NoAcquireIsRefused

LEMMA InvGrows == LimiterInv /\ LimiterInv' => LimitOnlyGrows
<1> SUFFICES ASSUME LimiterInv, LimiterInv', NEW s \in Sessions, NEW cold \in BOOLEAN,
                    metadata'[s].age >= metadata[s].age
             PROVE  EffectiveLimit(metadata'[s], cold) >= EffectiveLimit(metadata[s], cold)
  BY DEF LimitOnlyGrows
<1>1. SoundMeta(metadata[s]) /\ SoundMeta(metadata'[s]) /\ limit \in Limits
  BY DEF LimiterInv, SoundMetas
<1>2. metadata[s].age <= metadata'[s].age
  BY <1>1 DEF SoundMeta, Metas
<1> QED BY <1>1, <1>2, LimitGrows

-----------------------------------------------------------------------------
(* The rotation monitor.  What it keeps of a session and the full history  *)
(* have the same rotations in the window, with the same ages.              *)

RotationEntries == [timestamps : Ages, total : 0..MaxRotations, anomalyDetected : BOOLEAN]

SameWindow(ages, full) ==
  /\ DOMAIN ages \subseteq DOMAIN full
  /\ \A i \in DOMAIN ages : ages[i] = full[i]
  /\ \A i \in DOMAIN full : full[i] < Window => i \in DOMAIN ages

SoundRotations(d, full, most) ==
  /\ d \in RotationEntries
  /\ full \in Ages
  /\ DOMAIN full = 1..d.total
  /\ SameWindow(d.timestamps, full)
  /\ most \in 0..MaxRotations
  /\ d.anomalyDetected <=> most > RotationThreshold

RotationInv ==
  /\ rotationData \in [Sessions -> RotationEntries]
  /\ history \in [Sessions -> Ages]
  /\ worst \in [Sessions -> 0..MaxRotations]
  /\ \A s \in Sessions : SoundRotations(rotationData[s], history[s], worst[s])

LEMMA AgesAre ==
  ASSUME NEW f
  PROVE  f \in Ages <=> /\ f = [i \in DOMAIN f |-> f[i]]
                        /\ DOMAIN f \subseteq 1..MaxRotations
                        /\ \A i \in DOMAIN f : f[i] \in 0..Window
<1>1. ASSUME f \in Ages
      PROVE  /\ f = [i \in DOMAIN f |-> f[i]]
             /\ DOMAIN f \subseteq 1..MaxRotations
             /\ \A i \in DOMAIN f : f[i] \in 0..Window
  <2>1. PICK kept \in SUBSET (1..MaxRotations) : f \in [kept -> 0..Window]
    BY <1>1 DEF Ages
  <2> QED BY <2>1
<1>2. ASSUME f = [i \in DOMAIN f |-> f[i]], DOMAIN f \subseteq 1..MaxRotations,
             \A i \in DOMAIN f : f[i] \in 0..Window
      PROVE  f \in Ages
  <2>1. f \in [DOMAIN f -> 0..Window]
    BY <1>2
  <2>2. DOMAIN f \in SUBSET (1..MaxRotations)
    BY <1>2
  <2> QED BY <2>1, <2>2 DEF Ages
<1> QED BY <1>1, <1>2

\* The same window, the same rate, in both ways the code counts it.
LEMMA SameRecent ==
  ASSUME NEW ages, NEW full, SameWindow(ages, full)
  PROVE  Recent(ages) = Recent(full)
BY DEF SameWindow, Recent

LEMMA RateBounded ==
  ASSUME NEW n \in Nat, NEW f, DOMAIN f \subseteq 1..n
  PROVE  Rate(f) \in 0..n
<1>1. IsFiniteSet(1..n) /\ Cardinality(1..n) = n
  BY FS_Interval
<1>2. Recent(f) \in SUBSET (1..n)
  BY DEF Recent
<1>3. IsFiniteSet(Recent(f)) /\ Cardinality(Recent(f)) <= n
  BY <1>1, <1>2, FS_Subset
<1>4. Cardinality(Recent(f)) \in Nat
  BY <1>3, FS_CardinalityType
<1> QED BY <1>3, <1>4 DEF Rate

LEMMA AgedSound ==
  ASSUME NEW f \in Ages
  PROVE  Aged(f) \in Ages /\ DOMAIN Aged(f) = DOMAIN f
<1>1. DOMAIN f \subseteq 1..MaxRotations /\ \A i \in DOMAIN f : f[i] \in 0..Window
  BY AgesAre
<1>2. DOMAIN Aged(f) = DOMAIN f /\ Aged(f) = [i \in DOMAIN Aged(f) |-> Aged(f)[i]]
  BY DEF Aged
<1>3. \A i \in DOMAIN f : Aged(f)[i] \in 0..Window
  <2> SUFFICES ASSUME NEW i \in DOMAIN f PROVE Aged(f)[i] \in 0..Window
    OBVIOUS
  <2>1. Aged(f)[i] = IF f[i] < Window THEN f[i] + 1 ELSE f[i]
    BY DEF Aged
  <2> QED BY <1>1, <2>1, RotationAssumption
<1> QED BY <1>1, <1>2, <1>3, AgesAre

LEMMA AgedSame ==
  ASSUME NEW ages \in Ages, NEW full \in Ages, SameWindow(ages, full)
  PROVE  SameWindow(Aged(ages), Aged(full))
<1>1. DOMAIN Aged(ages) = DOMAIN ages /\ DOMAIN Aged(full) = DOMAIN full
  BY DEF Aged
<1>2. \A i \in DOMAIN ages : Aged(ages)[i] = Aged(full)[i]
  BY DEF SameWindow, Aged
<1>3. ASSUME NEW i \in DOMAIN full, Aged(full)[i] < Window PROVE full[i] < Window
  <2>1. Aged(full)[i] = IF full[i] < Window THEN full[i] + 1 ELSE full[i]
    BY DEF Aged
  <2> QED BY <1>3, <2>1
<1> QED BY <1>1, <1>2, <1>3 DEF SameWindow

\* A rotation recorded with its number, whichever others are kept.
RecordedAs(g, f, kept, n) ==
  /\ g \in Ages
  /\ DOMAIN g = kept \cup {n}
  /\ g[n] = 0
  /\ \A i \in kept \ {n} : g[i] = f[i]

LEMMA RecordedSound ==
  ASSUME NEW f, f \in Ages, NEW kept, kept \subseteq DOMAIN f, NEW n, n \in 1..MaxRotations,
         NEW g, g = Recorded(f, kept, n)
  PROVE  RecordedAs(g, f, kept, n)
<1>1. DOMAIN f \subseteq 1..MaxRotations /\ \A i \in DOMAIN f : f[i] \in 0..Window
  BY AgesAre
<1>2. /\ DOMAIN g = kept \cup {n} /\ g = [i \in DOMAIN g |-> g[i]]
      /\ g[n] = 0
      /\ \A i \in kept \ {n} : g[i] = f[i]
  BY DEF Recorded
<1>3. \A i \in DOMAIN g : g[i] \in 0..Window
  <2> SUFFICES ASSUME NEW i \in DOMAIN g PROVE g[i] \in 0..Window
    OBVIOUS
  <2>1. CASE i = n
    BY <1>2, <2>1, RotationAssumption
  <2>2. CASE i # n
    <3>1. i \in kept \ {n} /\ i \in DOMAIN f
      BY <1>2, <2>2
    <3> QED BY <1>1, <1>2, <3>1
  <2> QED BY <2>1, <2>2
<1>4. DOMAIN g \subseteq 1..MaxRotations
  BY <1>1, <1>2
<1>5. g \in Ages
  BY <1>2, <1>3, <1>4, AgesAre
<1> QED BY <1>2, <1>5 DEF RecordedAs

LEMMA RateIsAnomaly ==
  ASSUME NEW rate \in Nat
  PROVE  RateStatus(rate) = "ANOMALY" <=> rate > RotationThreshold
BY RotationAssumption DEF RateStatus

\* Recording keeps the window and counts it.
LEMMA RecordingSame ==
  ASSUME NEW ages \in Ages, NEW full \in Ages, SameWindow(ages, full),
         NEW n, n \in 1..MaxRotations, DOMAIN full = 1..(n - 1),
         NEW old, old = Recent(ages),
         NEW kept, kept = Recorded(ages, old, n),
         NEW all, all = Recorded(full, DOMAIN full, n)
  PROVE  /\ kept \in Ages /\ all \in Ages
         /\ DOMAIN all = 1..n
         /\ SameWindow(kept, all)
         /\ Cardinality(DOMAIN kept) = Rate(all)
         /\ Rate(all) \in 0..n
<1>1. n \notin DOMAIN full /\ DOMAIN full \cup {n} = 1..n
  BY RotationAssumption
<1>2. old \subseteq DOMAIN ages /\ old = Recent(full)
  BY SameRecent DEF Recent
<1>3. /\ kept \in Ages /\ DOMAIN kept = old \cup {n} /\ kept[n] = 0
      /\ \A i \in old \ {n} : kept[i] = ages[i]
  <2>1. ages \in Ages /\ old \subseteq DOMAIN ages
    BY <1>2
  <2>2. RecordedAs(kept, ages, old, n)
    BY <2>1, RecordedSound
  <2> QED BY <2>2 DEF RecordedAs
<1>4. /\ all \in Ages /\ DOMAIN all = DOMAIN full \cup {n} /\ all[n] = 0
      /\ \A i \in DOMAIN full \ {n} : all[i] = full[i]
  <2>1. full \in Ages /\ DOMAIN full \subseteq DOMAIN full
    OBVIOUS
  <2>2. RecordedAs(all, full, DOMAIN full, n)
    BY <2>1, RecordedSound
  <2> QED BY <2>2 DEF RecordedAs
<1>5. \A i \in old : /\ i \in DOMAIN full \ {n} /\ i \in DOMAIN ages
                     /\ kept[i] = all[i] /\ all[i] < Window
  <2> SUFFICES ASSUME NEW i \in old
               PROVE  /\ i \in DOMAIN full \ {n} /\ i \in DOMAIN ages
                      /\ kept[i] = all[i] /\ all[i] < Window
    OBVIOUS
  <2>1. i \in DOMAIN full \ {n} /\ i \in DOMAIN ages /\ full[i] < Window
    BY <1>1, <1>2 DEF Recent
  <2>2. ages[i] = full[i]
    BY <2>1 DEF SameWindow
  <2> QED BY <1>3, <1>4, <2>1, <2>2
<1>6. \A i \in DOMAIN full \ {n} : all[i] < Window => i \in old
  BY <1>2, <1>4 DEF Recent
<1>7. Recent(all) = DOMAIN kept
  <2>1. n \in DOMAIN all /\ all[n] < Window
    BY <1>4, RotationAssumption
  <2>2. \A i \in DOMAIN kept : i \in Recent(all)
    BY <1>3, <1>4, <1>5, <2>1 DEF Recent
  <2>3. \A i \in Recent(all) : i \in DOMAIN kept
    BY <1>3, <1>4, <1>6 DEF Recent
  <2> QED BY <2>2, <2>3
<1>8. SameWindow(kept, all)
  <2>1. DOMAIN kept \subseteq DOMAIN all
    BY <1>7 DEF Recent
  <2>2. \A i \in DOMAIN kept : kept[i] = all[i]
    BY <1>3, <1>4, <1>5
  <2>3. \A i \in DOMAIN all : all[i] < Window => i \in DOMAIN kept
    BY <1>7 DEF Recent
  <2> QED BY <2>1, <2>2, <2>3 DEF SameWindow
<1>9. Rate(all) \in 0..n
  <2>1. n \in Nat /\ DOMAIN all \subseteq 1..n
    BY <1>1, <1>4
  <2> QED BY <2>1, RateBounded
<1> QED BY <1>1, <1>3, <1>4, <1>7, <1>8, <1>9 DEF Rate

NewEntry(d, kept, n) ==
  [timestamps |-> kept, total |-> n,
   anomalyDetected |->
     d.anomalyDetected \/ RateStatus(Cardinality(DOMAIN kept)) = "ANOMALY"]

LEMMA RecordingSound ==
  ASSUME NEW d, NEW full, NEW most, SoundRotations(d, full, most), d.total < MaxRotations,
         NEW n, n = d.total + 1,
         NEW kept, kept = Recorded(d.timestamps, Recent(d.timestamps), n),
         NEW all, all = Recorded(full, DOMAIN full, n),
         NEW m, m = IF Rate(all) > most THEN Rate(all) ELSE most
  PROVE  SoundRotations(NewEntry(d, kept, n), all, m)
<1>0. /\ d.timestamps \in Ages /\ d.total \in 0..MaxRotations /\ d.anomalyDetected \in BOOLEAN
      /\ full \in Ages /\ DOMAIN full = 1..d.total
      /\ SameWindow(d.timestamps, full)
      /\ most \in 0..MaxRotations
      /\ (d.anomalyDetected <=> most > RotationThreshold)
  BY DEF SoundRotations, RotationEntries
<1>1. n \in 1..MaxRotations /\ d.total = n - 1
  BY <1>0, RotationAssumption
<1>2. /\ kept \in Ages /\ all \in Ages
      /\ DOMAIN all = 1..n
      /\ SameWindow(kept, all)
      /\ Cardinality(DOMAIN kept) = Rate(all)
      /\ Rate(all) \in 0..n
  <2>1. DOMAIN full = 1..(n - 1)
    BY <1>0, <1>1
  <2> QED BY <1>0, <1>1, <2>1, RecordingSame
<1>3. m \in 0..MaxRotations
       /\ (m > RotationThreshold <=>
             (most > RotationThreshold \/ Rate(all) > RotationThreshold))
  BY <1>0, <1>1, <1>2, RotationAssumption
<1>4. RateStatus(Cardinality(DOMAIN kept)) = "ANOMALY" <=> Rate(all) > RotationThreshold
  BY <1>1, <1>2, RateIsAnomaly
<1> DEFINE e == NewEntry(d, kept, n)
<1>5. /\ e.timestamps = kept /\ e.total = n
      /\ (e.anomalyDetected <=>
            d.anomalyDetected \/ RateStatus(Cardinality(DOMAIN kept)) = "ANOMALY")
  BY DEF NewEntry
<1>6. e \in RotationEntries
  <2>1. (d.anomalyDetected \/ RateStatus(Cardinality(DOMAIN kept)) = "ANOMALY") \in BOOLEAN
    OBVIOUS
  <2>2. n \in 0..MaxRotations
    BY <1>1
  <2> QED BY <1>2, <2>1, <2>2 DEF NewEntry, RotationEntries
<1> HIDE DEF e
<1>7. SoundRotations(e, all, m)
  BY <1>0, <1>2, <1>3, <1>4, <1>5, <1>6 DEF SoundRotations
<1> QED BY <1>7 DEF e

LEMMA NoRotationsSound == SoundRotations(NoRotations, <<>>, 0)
<1>1. <<>> \in Ages /\ DOMAIN <<>> = {}
  <2>1. <<>> = [i \in {} |-> <<>>[i]] /\ DOMAIN <<>> = {}
    OBVIOUS
  <2> QED BY <2>1, AgesAre
<1>2. /\ NoRotations.timestamps = <<>> /\ NoRotations.total = 0
      /\ NoRotations.anomalyDetected = FALSE
  BY DEF NoRotations
<1>3. NoRotations \in RotationEntries /\ 0 \in 0..MaxRotations
  BY <1>1, RotationAssumption DEF NoRotations, RotationEntries
<1>4. DOMAIN <<>> = 1..0
  BY <1>1
<1> QED BY <1>1, <1>2, <1>3, <1>4, RotationAssumption DEF SoundRotations, SameWindow

OlderRotations(d) == [d EXCEPT !.timestamps = Aged(@)]

LEMMA OlderRotationsSound ==
  ASSUME NEW d, NEW full, NEW most, SoundRotations(d, full, most)
  PROVE  SoundRotations(OlderRotations(d), Aged(full), most)
<1>0. d \in RotationEntries /\ full \in Ages /\ d.timestamps \in Ages
  BY DEF SoundRotations, RotationEntries
<1>1. /\ OlderRotations(d).timestamps = Aged(d.timestamps)
      /\ OlderRotations(d).total = d.total
      /\ OlderRotations(d).anomalyDetected = d.anomalyDetected
  BY <1>0 DEF OlderRotations, RotationEntries
<1>2. Aged(d.timestamps) \in Ages /\ Aged(full) \in Ages /\ DOMAIN Aged(full) = DOMAIN full
  BY <1>0, AgedSound
<1>3. OlderRotations(d) \in RotationEntries
  BY <1>0, <1>2 DEF OlderRotations, RotationEntries
<1>4. SameWindow(Aged(d.timestamps), Aged(full))
  BY <1>0, AgedSame DEF SoundRotations
<1> QED BY <1>1, <1>2, <1>3, <1>4 DEF SoundRotations

LEMMA RotationStarts == RotationInit => RotationInv
BY NoRotationsSound DEF RotationInit, RotationInv, SoundRotations

LEMMA SetsRotations ==
  ASSUME RotationInv, NEW s \in Sessions, NEW d, NEW full, NEW most,
         SoundRotations(d, full, most),
         rotationData' = [rotationData EXCEPT ![s] = d],
         history' = [history EXCEPT ![s] = full],
         worst' = [worst EXCEPT ![s] = most]
  PROVE  RotationInv'
<1>0. d \in RotationEntries /\ full \in Ages /\ most \in 0..MaxRotations
  BY DEF SoundRotations
<1>1. rotationData' \in [Sessions -> RotationEntries]
  BY <1>0 DEF RotationInv
<1>2. history' \in [Sessions -> Ages]
  BY <1>0 DEF RotationInv
<1>3. worst' \in [Sessions -> 0..MaxRotations]
  BY <1>0 DEF RotationInv
<1>4. \A x \in Sessions : SoundRotations(rotationData'[x], history'[x], worst'[x])
  <2> SUFFICES ASSUME NEW x \in Sessions
               PROVE  SoundRotations(rotationData'[x], history'[x], worst'[x])
    OBVIOUS
  <2>1. CASE x = s
    <3>1. rotationData'[x] = d /\ history'[x] = full /\ worst'[x] = most
      BY <2>1 DEF RotationInv
    <3> QED BY <3>1
  <2>2. CASE x # s
    <3>1. /\ rotationData'[x] = rotationData[x] /\ history'[x] = history[x]
          /\ worst'[x] = worst[x]
      BY <2>2 DEF RotationInv
    <3> QED BY <3>1 DEF RotationInv
  <2> QED BY <2>1, <2>2
<1> QED BY <1>1, <1>2, <1>3, <1>4 DEF RotationInv

LEMMA FeedKeepsRotation ==
  ASSUME RotationInv, NEW s \in Sessions, RecordRotation(s) \/ ForgetRotations(s)
  PROVE  RotationInv'
<1>0. SoundRotations(rotationData[s], history[s], worst[s])
  BY DEF RotationInv
<1>1. CASE RecordRotation(s)
  <2>1. PICK n : n = rotationData[s].total + 1
    OBVIOUS
  <2>2. PICK kept : kept = Recorded(rotationData[s].timestamps,
                                    Recent(rotationData[s].timestamps), n)
    OBVIOUS
  <2>3. PICK all : all = Recorded(history[s], DOMAIN history[s], n)
    OBVIOUS
  <2>4. PICK m : m = IF Rate(all) > worst[s] THEN Rate(all) ELSE worst[s]
    OBVIOUS
  <2>5. rotationData[s].total < MaxRotations
    BY <1>1 DEF RecordRotation
  <2>6. SoundRotations(NewEntry(rotationData[s], kept, n), all, m)
    BY <1>0, <2>1, <2>2, <2>3, <2>4, <2>5, RecordingSound
  <2>7. /\ rotationData' = [rotationData EXCEPT ![s] = NewEntry(rotationData[s], kept, n)]
        /\ history' = [history EXCEPT ![s] = all]
        /\ worst' = [worst EXCEPT ![s] = m]
    BY <1>1, <2>1, <2>2, <2>3, <2>4 DEF RecordRotation, NewEntry, RotationInv
  <2> QED BY <2>6, <2>7, SetsRotations
<1>2. CASE ForgetRotations(s)
  BY <1>2, NoRotationsSound, SetsRotations DEF ForgetRotations
<1> QED BY <1>1, <1>2

LEMMA TickKeepsRotation ==
  ASSUME RotationInv, RotationTick
  PROVE  RotationInv'
<1>1. \A s \in Sessions :
        /\ rotationData'[s] = OlderRotations(rotationData[s]) /\ history'[s] = Aged(history[s])
        /\ worst'[s] = worst[s]
  BY DEF RotationTick, OlderRotations
<1>2. \A s \in Sessions : SoundRotations(rotationData'[s], history'[s], worst'[s])
  BY <1>1, OlderRotationsSound DEF RotationInv
<1>3. rotationData' \in [Sessions -> RotationEntries] /\ history' \in [Sessions -> Ages]
  BY <1>2 DEF RotationTick, SoundRotations
<1>4. worst' \in [Sessions -> 0..MaxRotations]
  BY DEF RotationTick, RotationInv
<1> QED BY <1>2, <1>3, <1>4 DEF RotationInv

LEMMA RotationsAreTyped == RotationInv => RotationTypeOK
BY DEF RotationInv, RotationTypeOK, SoundRotations, RotationEntries

LEMMA AnomaliesAreExact == RotationInv => AnomalyIsExact
<1> SUFFICES ASSUME RotationInv, NEW s \in Sessions
             PROVE  /\ CurrentRate(s) = Rate(history[s])
                    /\ s \in SessionsWithAnomalies <=> worst[s] > RotationThreshold
  BY DEF AnomalyIsExact
<1>1. SoundRotations(rotationData[s], history[s], worst[s])
  BY DEF RotationInv
<1>2. Recent(rotationData[s].timestamps) = Recent(history[s])
  BY <1>1, SameRecent DEF SoundRotations
<1> QED BY <1>1, <1>2 DEF CurrentRate, Rate, SessionsWithAnomalies, SoundRotations

-----------------------------------------------------------------------------
(* The connection tracker.  TrackerInv is inductive: the counters are      *)
(* bounded because an attempt is counted before its success, and a verdict *)
(* is stored with the silence it was found from.                           *)

USE TrackerAssumption

-----------------------------------------------------------------------------
(* One session's entry, and how it may change.                             *)

SoundEntry(d, lost) ==
  /\ d \in ConnectionData
  /\ d.successes <= d.attempts
  /\ d.state = "RECONNECTING" => d.successes < d.attempts
  /\ d.state = "DEGRADED" => d.silent > SilenceThreshold
  /\ d.state = "DISCONNECTED" => lost \/ d.silent > DisconnectThreshold

Reconnecting(d) == [d EXCEPT !.state = "RECONNECTING", !.attempts = @ + 1]

Older(d) == [d EXCEPT !.silent = IF @ < LongSilence THEN @ + 1 ELSE @]

LEMMA LongSilenceNat ==
  /\ LongSilence \in Nat
  /\ LongSilence > SilenceThreshold
  /\ LongSilence > DisconnectThreshold
BY DEF LongSilence

\* The fields of an entry.
LEMMA EntryFields ==
  ASSUME NEW d \in ConnectionData
  PROVE  /\ d.state \in ConnectionState \cup {"none"}
         /\ d.silent \in 0..LongSilence
         /\ d.attempts \in 0..MaxReconnects
         /\ d.successes \in 0..MaxReconnects
BY DEF ConnectionData

LEMMA NoConnectionSound == SoundEntry(NoConnection, FALSE)
<1>1. LongSilence \in 0..LongSilence
  BY LongSilenceNat
<1>2. 0 \in 0..MaxReconnects
  OBVIOUS
<1>3. NoConnection \in ConnectionData
  BY <1>1, <1>2 DEF NoConnection, ConnectionData
<1> QED
  BY <1>3 DEF SoundEntry, NoConnection

LEMMA ActiveSound ==
  ASSUME NEW d, NEW lost \in BOOLEAN, SoundEntry(d, lost)
  PROVE  SoundEntry(Active(d), FALSE)
<1>1. d \in ConnectionData
  BY DEF SoundEntry
<1>2. /\ d.attempts \in 0..MaxReconnects
      /\ d.successes \in 0..MaxReconnects
  BY <1>1, EntryFields
<1> DEFINE n == IF d.state = "RECONNECTING" THEN d.successes + 1 ELSE d.successes
<1>3. n \in 0..MaxReconnects /\ n <= d.attempts
  BY <1>2 DEF SoundEntry
<1>4. Active(d) = [d EXCEPT !.state = "HEALTHY", !.silent = 0, !.successes = n]
  BY DEF Active
<1>5. 0 \in 0..LongSilence
  BY LongSilenceNat
<1> HIDE DEF n
<1>6. /\ Active(d) \in ConnectionData
      /\ Active(d).state = "HEALTHY"
      /\ Active(d).attempts = d.attempts
      /\ Active(d).successes = n
  BY <1>1, <1>3, <1>4, <1>5 DEF ConnectionData, ConnectionState
<1> QED
  BY <1>3, <1>6 DEF SoundEntry

LEMMA ReconnectingSound ==
  ASSUME NEW d, NEW lost \in BOOLEAN, SoundEntry(d, lost), d.attempts < MaxReconnects
  PROVE  SoundEntry(Reconnecting(d), lost)
<1>1. d \in ConnectionData
  BY DEF SoundEntry
<1>2. /\ d.attempts \in 0..MaxReconnects
      /\ d.successes \in 0..MaxReconnects
  BY <1>1, EntryFields
<1>3. d.attempts + 1 \in 0..MaxReconnects
  BY <1>2
<1>4. /\ Reconnecting(d) \in ConnectionData
      /\ Reconnecting(d).state = "RECONNECTING"
      /\ Reconnecting(d).attempts = d.attempts + 1
      /\ Reconnecting(d).successes = d.successes
  BY <1>1, <1>3 DEF Reconnecting, ConnectionData, ConnectionState
<1>5. d.successes < d.attempts + 1
  BY <1>2 DEF SoundEntry
<1> QED
  BY <1>4, <1>5, <1>2, <1>3 DEF SoundEntry

LEMMA StateSound ==
  ASSUME NEW d, NEW lost \in BOOLEAN, NEW state \in {"HEALTHY", "DEGRADED", "DISCONNECTED"},
         NEW told \in BOOLEAN,
         SoundEntry(d, lost),
         state = "DEGRADED" => d.silent > SilenceThreshold,
         state = "DISCONNECTED" => told \/ d.silent > DisconnectThreshold
  PROVE  SoundEntry([d EXCEPT !.state = state], told)
<1>1. d \in ConnectionData
  BY DEF SoundEntry
<1> DEFINE e == [d EXCEPT !.state = state]
<1>2. /\ e \in ConnectionData
      /\ e.state = state
      /\ e.silent = d.silent
      /\ e.attempts = d.attempts
      /\ e.successes = d.successes
  BY <1>1 DEF ConnectionData, ConnectionState
<1> QED
  BY <1>2 DEF SoundEntry

LEMMA OlderSound ==
  ASSUME NEW d, NEW lost \in BOOLEAN, SoundEntry(d, lost)
  PROVE  SoundEntry(Older(d), lost)
<1>1. d \in ConnectionData
  BY DEF SoundEntry
<1> DEFINE n == IF d.silent < LongSilence THEN d.silent + 1 ELSE d.silent
<1>2. n \in 0..LongSilence /\ n >= d.silent /\ d.silent \in Nat
  BY <1>1, EntryFields, LongSilenceNat
<1>3. Older(d) = [d EXCEPT !.silent = n]
  BY DEF Older
<1> HIDE DEF n
<1>4. /\ Older(d) \in ConnectionData
      /\ Older(d).state = d.state
      /\ Older(d).silent = n
      /\ Older(d).attempts = d.attempts
      /\ Older(d).successes = d.successes
  BY <1>1, <1>2, <1>3 DEF ConnectionData
<1>5. n \in Nat
  BY <1>2, LongSilenceNat
<1> QED
  BY <1>2, <1>4, <1>5 DEF SoundEntry

-----------------------------------------------------------------------------
(* All sessions.                                                           *)

Sound ==
  /\ connections \in [Sessions -> ConnectionData]
  /\ alarms \in [Sessions -> 0..2]
  /\ declared \in [Sessions -> BOOLEAN]
  /\ \A s \in Sessions : SoundEntry(connections[s], declared[s])

LEMMA SoundIsInv == Sound <=> TrackerInv
<1>1. ASSUME Sound PROVE TrackerInv
  BY <1>1 DEF Sound, TrackerInv, TrackerTypeOK, SuccessesAreAttempts, NoFalseAlarm,
              SoundEntry, Tracked, ConnectionData, ConnectionState
<1>2. ASSUME TrackerInv PROVE Sound
  BY <1>2 DEF Sound, TrackerInv, TrackerTypeOK, SuccessesAreAttempts, NoFalseAlarm,
              SoundEntry, Tracked
<1> QED
  BY <1>1, <1>2

\* A step that changes the entry of one session.
LEMMA OneEntryKeepsSound ==
  ASSUME Sound, NEW s \in Sessions, NEW d, NEW a \in 0..2, NEW lost \in BOOLEAN,
         SoundEntry(d, lost),
         connections' = [connections EXCEPT ![s] = d],
         alarms' = [alarms EXCEPT ![s] = a],
         declared' = [declared EXCEPT ![s] = lost]
  PROVE  Sound'
<1>1. d \in ConnectionData
  BY DEF SoundEntry
<1>2. /\ connections' \in [Sessions -> ConnectionData]
      /\ alarms' \in [Sessions -> 0..2]
      /\ declared' \in [Sessions -> BOOLEAN]
  BY <1>1 DEF Sound
<1>3. ASSUME NEW t \in Sessions PROVE SoundEntry(connections[t]', declared[t]')
  <2>1. CASE t = s
    BY <2>1 DEF Sound
  <2>2. CASE t # s
    <3>1. connections'[t] = connections[t] /\ declared'[t] = declared[t]
      BY <2>2 DEF Sound
    <3> QED
      BY <3>1 DEF Sound
  <2> QED
    BY <2>1, <2>2
<1> QED
  BY <1>2, <1>3 DEF Sound

LEMMA InitSound == TrackerInit => Sound
<1> SUFFICES ASSUME TrackerInit PROVE Sound
  OBVIOUS
<1>1. NoConnection \in ConnectionData
  BY NoConnectionSound DEF SoundEntry
<1>2. ASSUME NEW s \in Sessions PROVE connections[s] = NoConnection /\ declared[s] = FALSE
  BY DEF TrackerInit
<1>3. 0 \in 0..2
  OBVIOUS
<1> QED
  BY <1>1, <1>2, <1>3, NoConnectionSound DEF TrackerInit, Sound

LEMMA ActivityKeepsSound ==
  ASSUME Sound, NEW s \in Sessions, RecordActivity(s)
  PROVE  Sound'
<1>1. connections[s] \in ConnectionData /\ declared[s] \in BOOLEAN
  BY DEF Sound
<1>2. SoundEntry(connections[s], declared[s])
  BY DEF Sound
<1>3. SoundEntry(Active(connections[s]), FALSE)
  BY <1>1, <1>2, ActiveSound
<1>4. connections' = [connections EXCEPT ![s] = Active(connections[s])]
  BY DEF RecordActivity
<1>5. /\ alarms' = [alarms EXCEPT ![s] = 0]
      /\ declared' = [declared EXCEPT ![s] = FALSE]
  BY DEF RecordActivity
<1>6. 0 \in 0..2
  OBVIOUS
<1> QED
  BY <1>3, <1>4, <1>5, <1>6, OneEntryKeepsSound

LEMMA AttemptKeepsSound ==
  ASSUME Sound, NEW s \in Sessions, RecordReconnectAttempt(s)
  PROVE  Sound'
<1>1. connections[s] \in ConnectionData /\ declared[s] \in BOOLEAN /\ alarms[s] \in 0..2
  BY DEF Sound
<1>2. SoundEntry(connections[s], declared[s])
  BY DEF Sound
<1>3. SoundEntry(Reconnecting(connections[s]), declared[s])
  BY <1>1, <1>2, ReconnectingSound DEF RecordReconnectAttempt
<1>4. connections' = [connections EXCEPT ![s] = Reconnecting(connections[s])]
  BY DEF RecordReconnectAttempt, Reconnecting
<1>5. /\ alarms' = [alarms EXCEPT ![s] = alarms[s]]
      /\ declared' = [declared EXCEPT ![s] = declared[s]]
  BY DEF RecordReconnectAttempt, Sound
<1> QED
  BY <1>1, <1>3, <1>4, <1>5, OneEntryKeepsSound

LEMMA DisconnectKeepsSound ==
  ASSUME Sound, NEW s \in Sessions, RecordDisconnect(s)
  PROVE  Sound'
<1>1. connections[s] \in ConnectionData /\ declared[s] \in BOOLEAN /\ alarms[s] \in 0..2
  BY DEF Sound
<1>2. SoundEntry(connections[s], declared[s])
  BY DEF Sound
<1> DEFINE d == [connections[s] EXCEPT !.state = "DISCONNECTED"]
<1>3. SoundEntry(d, TRUE)
  BY <1>1, <1>2, StateSound
<1>4. connections' = [connections EXCEPT ![s] = d]
  BY DEF RecordDisconnect
<1>5. /\ alarms' = [alarms EXCEPT ![s] = alarms[s]]
      /\ declared' = [declared EXCEPT ![s] = TRUE]
  BY DEF RecordDisconnect, Sound
<1> HIDE DEF d
<1> QED
  BY <1>1, <1>3, <1>4, <1>5, OneEntryKeepsSound

\* The verdict on a session's silence, and what it says of it.
LEMMA VerdictIsTrue ==
  ASSUME NEW d \in ConnectionData
  PROVE  /\ BySilence(d) \in {"HEALTHY", "DEGRADED", "DISCONNECTED"}
         /\ BySilence(d) = "DEGRADED" => d.silent > SilenceThreshold
         /\ BySilence(d) = "DISCONNECTED" => d.silent > DisconnectThreshold
BY EntryFields DEF BySilence

LEMMA CheckKeepsSound ==
  ASSUME Sound, NEW s \in Sessions, CheckHealth(s)
  PROVE  Sound'
<1>1. connections[s] \in ConnectionData /\ declared[s] \in BOOLEAN /\ alarms[s] \in 0..2
  BY DEF Sound
<1>2. SoundEntry(connections[s], declared[s])
  BY DEF Sound
<1> DEFINE d == IF AutoCheck /\ Recomputed(s)
                THEN [connections[s] EXCEPT !.state = BySilence(connections[s])]
                ELSE connections[s]
           a == IF Recomputed(s) /\ HealthStatus(s) = "DISCONNECTED"
                THEN IF alarms[s] < 2 THEN alarms[s] + 1 ELSE alarms[s]
                ELSE alarms[s]
<1>3. SoundEntry(d, declared[s])
  BY <1>1, <1>2, VerdictIsTrue, StateSound
<1>4. a \in 0..2
  BY <1>1
<1>5. connections' = [connections EXCEPT ![s] = d]
  BY DEF CheckHealth, HealthStatus, Sound
<1>6. alarms' = [alarms EXCEPT ![s] = a]
  BY DEF CheckHealth, Sound
<1>7. declared' = [declared EXCEPT ![s] = declared[s]]
  BY DEF CheckHealth, Sound
<1> HIDE DEF d, a
<1> QED
  BY <1>1, <1>3, <1>4, <1>5, <1>6, <1>7, OneEntryKeepsSound

LEMMA ForgetKeepsSound ==
  ASSUME Sound, NEW s \in Sessions, ForgetConnection(s)
  PROVE  Sound'
<1>1. /\ connections' = [connections EXCEPT ![s] = NoConnection]
      /\ alarms' = [alarms EXCEPT ![s] = 0]
      /\ declared' = [declared EXCEPT ![s] = FALSE]
  BY DEF ForgetConnection
<1>2. 0 \in 0..2
  OBVIOUS
<1> QED
  BY <1>1, <1>2, NoConnectionSound, OneEntryKeepsSound

LEMMA TickKeepsSound ==
  ASSUME Sound, TrackerTick
  PROVE  Sound'
<1>1. ASSUME NEW s \in Sessions
      PROVE  /\ connections'[s] = Older(connections[s])
             /\ SoundEntry(connections'[s], declared'[s])
  <2>1. connections'[s] = Older(connections[s]) /\ declared'[s] = declared[s]
    BY DEF TrackerTick, Older
  <2>2. SoundEntry(connections[s], declared[s]) /\ declared[s] \in BOOLEAN
    BY DEF Sound
  <2> QED
    BY <2>1, <2>2, OlderSound
<1>2. connections' \in [Sessions -> ConnectionData]
  <2>1. \A s \in Sessions : Older(connections[s]) \in ConnectionData
    BY <1>1 DEF SoundEntry
  <2>2. connections' = [s \in Sessions |-> Older(connections[s])]
    BY DEF TrackerTick, Older
  <2> QED
    BY <2>1, <2>2
<1> QED
  BY <1>1, <1>2 DEF Sound, TrackerTick

LEMMA NextKeepsSound == Sound /\ [TrackerNext]_trackerVars => Sound'
<1> SUFFICES ASSUME Sound, [TrackerNext]_trackerVars PROVE Sound'
  OBVIOUS
<1>1. CASE UNCHANGED trackerVars
  BY <1>1 DEF Sound, trackerVars
<1>2. CASE TrackerTick
  BY <1>2, TickKeepsSound
<1>3. ASSUME NEW s \in Sessions, TrackerStep(s) PROVE Sound'
  BY <1>3, ActivityKeepsSound, AttemptKeepsSound, DisconnectKeepsSound, ForgetKeepsSound
     DEF TrackerStep
<1>4. ASSUME NEW s \in Sessions, CheckHealth(s) PROVE Sound'
  BY <1>4, CheckKeepsSound
<1> QED
  BY <1>1, <1>2, <1>3, <1>4 DEF TrackerNext

\* Whatever is recorded, checked and forgotten, in whatever order, the entries are
\* well formed, no success is counted without its attempt, and no session is taken
\* for worse than it is (recordActivity, checkHealth).
THEOREM TrackerTheorem == TrackerSpec => []TrackerInv
<1>1. TrackerInit => Sound
  BY InitSound
<1>2. Sound /\ [TrackerNext]_trackerVars => Sound'
  BY NextKeepsSound
<1>3. Sound => TrackerInv
  BY SoundIsInv
<1> QED
  BY <1>1, <1>2, <1>3, PTL DEF TrackerSpec

-----------------------------------------------------------------------------
(* The listeners.  A state that is recomputed has not been announced yet,  *)
(* and with autoCheck the announcement and the state are stored together.  *)

QuietEntry(d, lost, a) ==
  /\ a <= 1
  /\ d.state = "DISCONNECTED" /\ ~lost => a = 1
  /\ d.state \in {"HEALTHY", "DEGRADED"} => a = 0

AlarmsFit == \A s \in Sessions : QuietEntry(connections[s], declared[s], alarms[s])

AlarmInv == Sound /\ (AutoCheck => AlarmsFit)

LEMMA CheckKeepsQuiet ==
  ASSUME Sound, AutoCheck, AlarmsFit, NEW s \in Sessions, CheckHealth(s)
  PROVE  QuietEntry(connections'[s], declared'[s], alarms'[s])
<1>1. /\ connections[s] \in ConnectionData
      /\ alarms[s] \in 0..2
      /\ QuietEntry(connections[s], declared[s], alarms[s])
  BY DEF Sound, AlarmsFit
<1>2. declared'[s] = declared[s]
  BY DEF CheckHealth
<1>3. CASE ~Recomputed(s)
  BY <1>1, <1>2, <1>3 DEF CheckHealth
<1>4. ASSUME Recomputed(s) PROVE QuietEntry(connections'[s], declared'[s], alarms'[s])
  <2>1. HealthStatus(s) = BySilence(connections[s])
    BY <1>4 DEF HealthStatus
  <2>2. connections'[s].state = BySilence(connections[s])
    BY <1>1, <1>4, <2>1 DEF CheckHealth, Sound, ConnectionData
  <2>3. alarms[s] = 0
    BY <1>1, <1>4 DEF Recomputed, QuietEntry
  <2>4. alarms'[s] = IF BySilence(connections[s]) = "DISCONNECTED" THEN 1 ELSE 0
    BY <1>4, <2>1, <2>3 DEF CheckHealth, Sound
  <2> QED
    BY <1>1, <1>2, <2>2, <2>4, VerdictIsTrue DEF QuietEntry
<1> QED
  BY <1>3, <1>4

LEMMA StepKeepsQuiet ==
  ASSUME Sound, AlarmsFit, NEW s \in Sessions, TrackerStep(s)
  PROVE  QuietEntry(connections'[s], declared'[s], alarms'[s])
<1>1. /\ connections[s] \in ConnectionData
      /\ alarms[s] \in 0..2
      /\ QuietEntry(connections[s], declared[s], alarms[s])
  BY DEF Sound, AlarmsFit
<1>2. CASE RecordActivity(s)
  <2>1. connections'[s].state = "HEALTHY"
    BY <1>1, <1>2 DEF RecordActivity, Active, Sound, ConnectionData
  <2>2. alarms'[s] = 0
    BY <1>2 DEF RecordActivity, Sound
  <2> QED
    BY <2>1, <2>2 DEF QuietEntry
<1>3. CASE RecordReconnectAttempt(s)
  <2>1. connections'[s].state = "RECONNECTING"
    BY <1>1, <1>3 DEF RecordReconnectAttempt, Sound, ConnectionData
  <2>2. alarms'[s] = alarms[s]
    BY <1>3 DEF RecordReconnectAttempt
  <2> QED
    BY <1>1, <2>1, <2>2 DEF QuietEntry
<1>4. CASE RecordDisconnect(s)
  <2>1. connections'[s].state = "DISCONNECTED"
    BY <1>1, <1>4 DEF RecordDisconnect, Sound, ConnectionData
  <2>2. alarms'[s] = alarms[s] /\ declared'[s] = TRUE
    BY <1>4 DEF RecordDisconnect, Sound
  <2> QED
    BY <1>1, <2>1, <2>2 DEF QuietEntry
<1>5. CASE ForgetConnection(s)
  <2>1. connections'[s] = NoConnection
    BY <1>5 DEF ForgetConnection, Sound
  <2>2. alarms'[s] = 0
    BY <1>5 DEF ForgetConnection, Sound
  <2> QED
    BY <2>1, <2>2 DEF QuietEntry, NoConnection
<1> QED
  BY <1>2, <1>3, <1>4, <1>5 DEF TrackerStep

\* The other sessions are left alone.
LEMMA OthersUntouched ==
  ASSUME Sound, NEW s \in Sessions, TrackerStep(s) \/ CheckHealth(s),
         NEW t \in Sessions, t # s
  PROVE  /\ connections'[t] = connections[t]
         /\ declared'[t] = declared[t]
         /\ alarms'[t] = alarms[t]
BY DEF Sound, TrackerStep, RecordActivity, RecordReconnectAttempt, RecordDisconnect,
       ForgetConnection, CheckHealth

LEMMA NextKeepsAlarms == AlarmInv /\ [TrackerNext]_trackerVars => AlarmInv'
<1> SUFFICES ASSUME AlarmInv, [TrackerNext]_trackerVars PROVE AlarmInv'
  OBVIOUS
<1>1. Sound /\ Sound'
  BY NextKeepsSound DEF AlarmInv
<1> SUFFICES ASSUME AutoCheck, AlarmsFit PROVE AlarmsFit'
  BY <1>1 DEF AlarmInv
<1>2. CASE UNCHANGED trackerVars
  BY <1>2 DEF AlarmsFit, trackerVars
<1>3. CASE TrackerTick
  <2>1. ASSUME NEW s \in Sessions
        PROVE  QuietEntry(connections'[s], declared'[s], alarms'[s])
    <3>1. connections[s] \in ConnectionData
      BY <1>1 DEF Sound
    <3>2. connections'[s].state = connections[s].state
      BY <1>3, <3>1 DEF TrackerTick, ConnectionData
    <3>3. declared'[s] = declared[s] /\ alarms'[s] = alarms[s]
      BY <1>3 DEF TrackerTick
    <3>4. QuietEntry(connections[s], declared[s], alarms[s])
      BY DEF AlarmsFit
    <3> QED
      BY <3>2, <3>3, <3>4 DEF QuietEntry
  <2> QED
    BY <2>1 DEF AlarmsFit
<1>4. ASSUME NEW s \in Sessions, TrackerStep(s) \/ CheckHealth(s) PROVE AlarmsFit'
  <2>1. QuietEntry(connections'[s], declared'[s], alarms'[s])
    BY <1>1, <1>4, StepKeepsQuiet, CheckKeepsQuiet
  <2>2. ASSUME NEW t \in Sessions, t # s
        PROVE  QuietEntry(connections'[t], declared'[t], alarms'[t])
    <3>1. QuietEntry(connections[t], declared[t], alarms[t])
      BY DEF AlarmsFit
    <3> QED
      BY <1>1, <1>4, <2>2, <3>1, OthersUntouched
  <2> QED
    BY <2>1, <2>2 DEF AlarmsFit
<1> QED
  BY <1>2, <1>3, <1>4 DEF TrackerNext

\* With autoCheck the listeners hear of a session lost by its silence exactly once
\* before it is active again (checkHealth, notifyListeners).
THEOREM AlarmTheorem == TrackerSpec => []OneAlarmPerSilence
<1>1. TrackerInit => AlarmInv
  <2> SUFFICES ASSUME TrackerInit PROVE Sound /\ AlarmsFit
    BY DEF AlarmInv
  <2>1. ASSUME NEW s \in Sessions PROVE connections[s] = NoConnection /\ alarms[s] = 0
    BY DEF TrackerInit
  <2> QED
    BY <2>1, InitSound DEF AlarmsFit, QuietEntry, NoConnection
<1>2. AlarmInv /\ [TrackerNext]_trackerVars => AlarmInv'
  BY NextKeepsAlarms
<1>3. AlarmInv => OneAlarmPerSilence
  BY DEF AlarmInv, AlarmsFit, QuietEntry, OneAlarmPerSilence
<1> QED
  BY <1>1, <1>2, <1>3, PTL DEF TrackerSpec
=============================================================================
