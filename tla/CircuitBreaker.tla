--------------------------- MODULE CircuitBreaker ---------------------------
(***************************************************************************)
(* services/circuit_breaker.go: the breaker's fields and its methods.      *)
(* Every method holds the mutex throughout, so each is one step.           *)
(***************************************************************************)
EXTENDS Naturals

CONSTANTS
  MaxFailures,      \* CircuitBreakerConfig: failures that open it
  ResetTimeout,     \* how long it then stays open, in ticks
  HalfOpenMaxSucc   \* successes that close it again

ASSUME ConfigAssumption ==
  /\ MaxFailures \in Nat \ {0}
  /\ ResetTimeout \in Nat
  /\ HalfOpenMaxSucc \in Nat \ {0}

VARIABLES
  state,             \* closed, open or halfOpen
  failures,
  halfOpenSuccesses,
  sinceFailure       \* ticks since lastFailureTime; ResetTimeout + 1 and
                     \* anything longer, a zero lastFailureTime too, are one

breaker == <<state, failures, halfOpenSuccesses, sinceFailure>>

NewCircuitBreaker ==
  /\ state = "closed"
  /\ failures = 0
  /\ halfOpenSuccesses = 0
  /\ sinceFailure = ResetTimeout + 1

\* An operator that a comment calls a slip is a mistake the code does not
\* make: the specification does not use it, the properties must notice it.

\* Slip: it waits for the failures to be cleared, which only closing does.
ShouldTransitionWhenClear == sinceFailure > ResetTimeout /\ failures = 0

ShouldTransitionToHalfOpen == sinceFailure > ResetTimeout

WantsProbe == state = "open" /\ ShouldTransitionToHalfOpen

\* IsOpen returns false: the caller goes ahead
Admit ==
  \/ /\ WantsProbe
     /\ state' = "halfOpen"
     /\ halfOpenSuccesses' = 0
     /\ UNCHANGED <<failures, sinceFailure>>
  \/ state # "open" /\ UNCHANGED breaker

\* IsOpen returns true
Reject == state = "open" /\ ~WantsProbe /\ UNCHANGED breaker

Close == state' = "closed" /\ failures' = 0 /\ halfOpenSuccesses' = 0
Open == state' = "open" /\ halfOpenSuccesses' = 0

\* Slip: a success leaves the count of failures alone.
CountAfterSuccessKept == failures

CountAfterSuccess == 0

ProbeSucceeded ==
  IF halfOpenSuccesses + 1 >= HalfOpenMaxSucc THEN Close
  ELSE /\ halfOpenSuccesses' = halfOpenSuccesses + 1
       /\ UNCHANGED <<state, failures>>

RecordSuccess ==
  /\ \/ state = "halfOpen" /\ ProbeSucceeded
     \/ /\ state = "closed"
        /\ failures' = CountAfterSuccess
        /\ UNCHANGED <<state, halfOpenSuccesses>>
     \/ /\ state = "open"
        /\ UNCHANGED <<state, failures, halfOpenSuccesses>>
  /\ UNCHANGED sinceFailure

TooMany(n) == n >= MaxFailures

\* Slip: a failure reported while open does not extend the wait.
SinceThisFailureUnlessOpen == IF state = "open" THEN sinceFailure ELSE 0

SinceThisFailure == 0

\* Slip: a failure in half-open is counted too.
CountOnReopeningToo == failures + 1

CountOnReopening == failures

RecordFailure ==
  /\ \/ state = "halfOpen" /\ Open /\ failures' = CountOnReopening
     \/ /\ state = "closed"
        /\ failures' = failures + 1
        /\ IF TooMany(failures + 1) THEN Open
           ELSE UNCHANGED <<state, halfOpenSuccesses>>
     \/ /\ state = "open"
        /\ UNCHANGED <<state, failures, halfOpenSuccesses>>
  /\ sinceFailure' = SinceThisFailure

Reset == Close /\ UNCHANGED sinceFailure

Cap(n, max) == IF n > max THEN max ELSE n

Tick ==
  /\ sinceFailure' = Cap(sinceFailure + 1, ResetTimeout + 1)
  /\ UNCHANGED <<state, failures, halfOpenSuccesses>>

-----------------------------------------------------------------------------

BreakerTypeOK ==
  /\ state \in {"closed", "open", "halfOpen"}
  /\ failures \in 0 .. MaxFailures
  /\ halfOpenSuccesses \in 0 .. HalfOpenMaxSucc
  /\ sinceFailure \in 0 .. ResetTimeout + 1
=============================================================================
