---------------------------- MODULE CircuitBreaker ----------------------------
(***************************************************************************)
(* The opossum breaker HybridAuthStore puts around the reads of MongoDB,   *)
(* with the options of its constructor: it opens when more than half of    *)
(* the calls of the window have failed (a call that takes 3 s has), lets   *)
(* one call through 30 s later and closes or opens by its outcome.         *)
(***************************************************************************)
EXTENDS Integers

CONSTANT MaxFires  \* bound: calls of one rolling window

VARIABLE breaker   \* state, whether a trial call is due, calls, failures

NewBreaker == [state |-> "closed", due |-> FALSE, fires |-> 0, failures |-> 0]

Breakers ==
  [state : {"closed", "open", "halfOpen"}, due : BOOLEAN,
   fires : 0..MaxFires, failures : 0..MaxFires]

Rejects == breaker.state # "closed" /\ ~breaker.due

\* The call is counted whether it is let through or not; it is the trial if one
\* is due.  Bound: a window has rolled on after MaxFires calls.
Fired(b) ==
  IF b.fires < MaxFires THEN [b EXCEPT !.fires = @ + 1, !.due = FALSE]
  ELSE [b EXCEPT !.fires = 1, !.failures = 0, !.due = FALSE]

Succeeded(b) == IF b.state = "halfOpen" THEN [b EXCEPT !.state = "closed", !.due = FALSE] ELSE b

\* errorThresholdPercentage is 50.
Failed(b) ==
  LET failures == IF b.failures < MaxFires THEN b.failures + 1 ELSE MaxFires IN
  IF 2 * failures > b.fires \/ b.state = "halfOpen"
  THEN [b EXCEPT !.failures = failures, !.state = "open", !.due = FALSE]
  ELSE [b EXCEPT !.failures = failures]

\* resetTimeout has passed.
HalfOpen ==
  /\ breaker.state = "open"
  /\ breaker' = [breaker EXCEPT !.state = "halfOpen", !.due = TRUE]

\* The window of 10 s rolls on.
Roll ==
  /\ breaker.fires > 0
  /\ breaker' = [breaker EXCEPT !.fires = 0, !.failures = 0]
=============================================================================
