---------------------------- MODULE BreakerCalls ----------------------------
(***************************************************************************)
(* Goroutines that ask a circuit breaker before they call a service and    *)
(* report afterwards how the call went, as ProcessQueueItem does.  The     *)
(* service may be down.  A report may come long after the breaker has      *)
(* changed its state.                                                      *)
(***************************************************************************)
EXTENDS CircuitBreaker

CONSTANTS Callers

VARIABLES
  phase,    \* phase[c]: idle, calling the service, or about to report
  up,       \* does the service answer?
  reports,  \* history: successes, and failures in a row, reported since the
            \* breaker last changed its state
  quiet     \* history: ticks since a failure was last reported, up to
            \* ResetTimeout + 1

vars == <<breaker, phase, up, reports, quiet>>

Phases == {"idle", "calling", "succeeded", "failed"}
NoReports == [ok |-> 0, failedInARow |-> 0]

\* The history of a state begins with the step that enters it.
Remember(r) == reports' = IF state' = state THEN r ELSE NoReports
Move(c, from, to) == phase[c] = from /\ phase' = [phase EXCEPT ![c] = to]

Init ==
  /\ NewCircuitBreaker
  /\ phase = [c \in Callers |-> "idle"]
  /\ up \in BOOLEAN
  /\ reports = NoReports
  /\ quiet = ResetTimeout + 1

Ask(c) ==
  /\ Move(c, "idle", "calling")
  /\ Admit
  /\ Remember(reports)
  /\ UNCHANGED <<up, quiet>>

TurnedAway(c) ==
  /\ phase[c] = "idle"
  /\ Reject
  /\ UNCHANGED <<phase, up, reports, quiet>>

CallEnds(c) ==
  /\ Move(c, "calling", IF up THEN "succeeded" ELSE "failed")
  /\ UNCHANGED <<breaker, up, reports, quiet>>

ReportSuccess(c) ==
  /\ Move(c, "succeeded", "idle")
  /\ RecordSuccess
  /\ Remember([ok |-> Cap(reports.ok + 1, HalfOpenMaxSucc), failedInARow |-> 0])
  /\ UNCHANGED <<up, quiet>>

ReportFailure(c) ==
  /\ Move(c, "failed", "idle")
  /\ RecordFailure
  /\ Remember([reports EXCEPT !.failedInARow = Cap(@ + 1, MaxFailures)])
  /\ quiet' = 0
  /\ UNCHANGED up

\* Work that turned out to be void (a duplicate, retries used up) is not
\* reported at all.
Abandon(c) ==
  /\ Move(c, "calling", "idle")
  /\ UNCHANGED <<breaker, up, reports, quiet>>

Operate == Reset /\ reports' = NoReports /\ UNCHANGED <<phase, up, quiet>>
PassTime ==
  /\ Tick
  /\ quiet' = Cap(quiet + 1, ResetTimeout + 1)
  /\ UNCHANGED <<phase, up, reports>>
Switch == up' = ~up /\ UNCHANGED <<breaker, phase, reports, quiet>>

Next ==
  \/ \E c \in Callers :
       \/ Ask(c) \/ TurnedAway(c) \/ CallEnds(c)
       \/ ReportSuccess(c) \/ ReportFailure(c) \/ Abandon(c)
  \/ Operate \/ PassTime \/ Switch

Spec == Init /\ [][Next]_vars

\* Time passes, the poller asks again and again, calls end, their ends are
\* reported, and not every call is abandoned.
FairSpec ==
  /\ Spec
  /\ WF_vars(PassTime)
  /\ \A c \in Callers :
       /\ WF_vars(Ask(c))
       /\ SF_vars(CallEnds(c))
       /\ WF_vars(ReportSuccess(c) \/ ReportFailure(c))

-----------------------------------------------------------------------------

\* Types of the breaker's fields, of the callers' phases and of the history.
TypeOK ==
  /\ BreakerTypeOK
  /\ phase \in [Callers -> Phases]
  /\ up \in BOOLEAN
  /\ reports \in [ok : 0 .. HalfOpenMaxSucc, failedInARow : 0 .. MaxFailures]
  /\ quiet \in 0 .. ResetTimeout + 1

\* A closed breaker has not seen MaxFailures failures in a row, and a
\* half-open one has seen neither a failure nor enough successes, however
\* late the reports come.
StateFollowsReports ==
  /\ state = "closed" =>
       failures = reports.failedInARow /\ failures < MaxFailures
  /\ state = "halfOpen" =>
       /\ reports.failedInARow = 0
       /\ reports.ok = halfOpenSuccesses
       /\ halfOpenSuccesses < HalfOpenMaxSucc
  /\ state # "halfOpen" => halfOpenSuccesses = 0

\* Before it lets a call in, an open breaker has heard of no failure for
\* longer than ResetTimeout, not even of a call admitted before it opened;
\* only Reset ends the wait early.
OpenWaits ==
  [][state = "open" /\ state' # "open" =>
       \/ state' = "halfOpen" /\ quiet > ResetTimeout
       \/ state' = "closed" /\ phase' = phase]_vars

\* If the service stays up, the breaker closes for good in the end: failures
\* reported late and abandoned probes only delay it.
Recovers == <>[]up => <>[](state = "closed")
=============================================================================
