----------------------------- MODULE TokenBucket -----------------------------
(***************************************************************************)
(* TokenBucket (src/rate-limit/token-bucket.ts) as operators on its state: *)
(* [tokens, max, rate, idle], where rate is what one tick refills and idle *)
(* the ticks since lastRefill.  Tokens are counted in fractions of one     *)
(* token small enough for every rate to be a whole number of them.         *)
(***************************************************************************)
EXTENDS Integers

Least(a, b) == IF a < b THEN a ELSE b

NewBucket(max, rate, initial) ==
  [tokens |-> initial, max |-> max, rate |-> rate, idle |-> 0]

\* What refill() leaves: the fraction of a token that has come in is kept.
Refill(b) ==
  [b EXCEPT !.tokens = Least(b.max, b.tokens + b.idle * b.rate), !.idle = 0]

\* tryAcquire: refused for good when the bucket can never hold that much.
BeyondCapacity(b, count) == count > b.max
CanTake(b, count) == Refill(b).tokens >= count
Take(b, count) == [Refill(b) EXCEPT !.tokens = @ - count]

\* getWaitTime, in ticks, rounded up.
WaitTicks(b, count) ==
  IF CanTake(b, count) THEN 0
  ELSE (count - Refill(b).tokens + b.rate - 1) \div b.rate

ResetBucket(b) == [b EXCEPT !.tokens = b.max, !.idle = 0]

\* A tick passes; beyond what the bucket can hold there is nothing to count.
Elapse(b) ==
  IF b.rate = 0 \/ b.tokens + b.idle * b.rate > b.max THEN b
  ELSE [b EXCEPT !.idle = @ + 1]
=============================================================================
