---------------------------- MODULE BreakerProofs ----------------------------
(***************************************************************************)
(* Proofs about BreakerCalls, for every configuration that                 *)
(* ConfigAssumption admits and any set of callers.                         *)
(***************************************************************************)
EXTENDS BreakerCalls, TLAPS

\* The breaker's clock is the time since the last report of a failure, which
\* StateFollowsReports does not say and OpenWaits needs.
BreakerInv ==
  /\ TypeOK
  /\ StateFollowsReports
  /\ quiet = sinceFailure

LEMMA BreakerInit == Init => BreakerInv
<1> USE ConfigAssumption
<1>1. ASSUME Init PROVE TypeOK
  BY <1>1 DEF Init, NewCircuitBreaker, TypeOK, BreakerTypeOK, Phases, NoReports
<1>2. ASSUME Init PROVE StateFollowsReports /\ quiet = sinceFailure
  BY <1>2 DEF Init, NewCircuitBreaker, StateFollowsReports, NoReports
<1> QED  BY <1>1, <1>2 DEF BreakerInv

\* A caller that moves on keeps the type of the phases.
LEMMA MoveType ==
  ASSUME NEW c \in Callers, NEW from, NEW to \in Phases,
         phase \in [Callers -> Phases], Move(c, from, to)
  PROVE  phase' \in [Callers -> Phases]
BY DEF Move

LEMMA BreakerStep == BreakerInv /\ [Next]_vars => BreakerInv'
<1> USE ConfigAssumption
<1> SUFFICES ASSUME BreakerInv, [Next]_vars PROVE BreakerInv'
  OBVIOUS
<1> USE DEF BreakerInv
<1>1. ASSUME NEW c \in Callers, Ask(c) PROVE BreakerInv'
  <2>1. phase' \in [Callers -> Phases]
    BY <1>1, MoveType DEF Ask, TypeOK, Phases
  <2>2. CASE WantsProbe /\ state' = "halfOpen"
    BY <1>1, <2>1, <2>2
    DEF Ask, Admit, WantsProbe, ShouldTransitionToHalfOpen, Remember, NoReports,
        TypeOK, BreakerTypeOK, StateFollowsReports, breaker
  <2>3. CASE state # "open" /\ UNCHANGED breaker
    BY <1>1, <2>1, <2>3
    DEF Ask, Remember, TypeOK, BreakerTypeOK, StateFollowsReports, breaker
  <2> QED  BY <1>1, <2>2, <2>3 DEF Ask, Admit
<1>2. ASSUME NEW c \in Callers, ReportSuccess(c) PROVE BreakerInv'
  <2>1. phase' \in [Callers -> Phases]
    BY <1>2, MoveType DEF ReportSuccess, TypeOK, Phases
  <2>2. CASE state = "halfOpen"
    BY <1>2, <2>1, <2>2
    DEF ReportSuccess, RecordSuccess, ProbeSucceeded, Close, Remember, NoReports, Cap,
        TypeOK, BreakerTypeOK, StateFollowsReports
  <2>3. CASE state = "closed"
    BY <1>2, <2>1, <2>3
    DEF ReportSuccess, RecordSuccess, CountAfterSuccess, Remember, Cap,
        TypeOK, BreakerTypeOK, StateFollowsReports
  <2>4. CASE state = "open"
    BY <1>2, <2>1, <2>4
    DEF ReportSuccess, RecordSuccess, Remember, Cap,
        TypeOK, BreakerTypeOK, StateFollowsReports
  <2> QED  BY <2>2, <2>3, <2>4 DEF TypeOK, BreakerTypeOK
<1>3. ASSUME NEW c \in Callers, ReportFailure(c) PROVE BreakerInv'
  <2>1. phase' \in [Callers -> Phases]
    BY <1>3, MoveType DEF ReportFailure, TypeOK, Phases
  <2>2. CASE state = "halfOpen"
    BY <1>3, <2>1, <2>2
    DEF ReportFailure, RecordFailure, CountOnReopening, Open, SinceThisFailure, Remember,
        NoReports, Cap, TypeOK, BreakerTypeOK, StateFollowsReports
  <2>3. CASE state = "closed"
    BY <1>3, <2>1, <2>3
    DEF ReportFailure, RecordFailure, CountOnReopening, Open, TooMany, SinceThisFailure, Remember,
        NoReports, Cap, TypeOK, BreakerTypeOK, StateFollowsReports
  <2>4. CASE state = "open"
    BY <1>3, <2>1, <2>4
    DEF ReportFailure, RecordFailure, CountOnReopening, SinceThisFailure, Remember, Cap,
        TypeOK, BreakerTypeOK, StateFollowsReports
  <2> QED  BY <2>2, <2>3, <2>4 DEF TypeOK, BreakerTypeOK
<1>4. ASSUME NEW c \in Callers, CallEnds(c) \/ Abandon(c) PROVE BreakerInv'
  <2>1. phase' \in [Callers -> Phases]
    BY <1>4, MoveType DEF CallEnds, Abandon, TypeOK, Phases
  <2> QED
    BY <1>4, <2>1
    DEF CallEnds, Abandon, TypeOK, BreakerTypeOK, StateFollowsReports, breaker
<1>5. ASSUME NEW c \in Callers, TurnedAway(c) PROVE BreakerInv'
  BY <1>5
  DEF TurnedAway, Reject, TypeOK, BreakerTypeOK, StateFollowsReports, breaker
<1>6. CASE Operate
  BY <1>6
  DEF Operate, Reset, Close, NoReports, TypeOK, BreakerTypeOK,
      StateFollowsReports
<1>7. CASE PassTime
  BY <1>7
  DEF PassTime, Tick, Cap, TypeOK, BreakerTypeOK, StateFollowsReports
<1>8. CASE Switch
  BY <1>8
  DEF Switch, TypeOK, BreakerTypeOK, StateFollowsReports, breaker
<1>9. CASE UNCHANGED vars
  BY <1>9
  DEF vars, TypeOK, BreakerTypeOK, StateFollowsReports, breaker
<1> QED
  BY <1>1, <1>2, <1>3, <1>4, <1>5, <1>6, <1>7, <1>8, <1>9 DEF Next

\* The breaker's fields, the callers and the history keep their types.
THEOREM BreakerTypeCorrect == Spec => []TypeOK
<1>1. BreakerInv => TypeOK
  BY DEF BreakerInv
<1> QED  BY BreakerInit, BreakerStep, <1>1, PTL DEF Spec

\* In every state the breaker is in the state its reports call for.
THEOREM BreakerFollowsReports == Spec => []StateFollowsReports
<1>1. BreakerInv => StateFollowsReports
  BY DEF BreakerInv
<1> QED  BY BreakerInit, BreakerStep, <1>1, PTL DEF Spec

\* An open breaker lets nobody in before ResetTimeout has passed without the
\* report of a failure.
THEOREM BreakerWaits == Spec => OpenWaits
<1> DEFINE Waits ==
      state = "open" /\ state' # "open" =>
        \/ state' = "halfOpen" /\ quiet > ResetTimeout
        \/ state' = "closed" /\ phase' = phase
<1>1. BreakerInv /\ [Next]_vars => [Waits]_vars
  <2> SUFFICES ASSUME BreakerInv, Next, state = "open", state' # "open"
               PROVE  \/ state' = "halfOpen" /\ quiet > ResetTimeout
                      \/ state' = "closed" /\ phase' = phase
    OBVIOUS
  <2>1. ASSUME NEW c \in Callers, Ask(c)
        PROVE  state' = "halfOpen" /\ quiet > ResetTimeout
    BY <2>1
    DEF Ask, Admit, WantsProbe, ShouldTransitionToHalfOpen, BreakerInv, breaker
  <2>2. ASSUME NEW c \in Callers, ReportSuccess(c) \/ ReportFailure(c)
        PROVE  FALSE
    BY <2>2 DEF ReportSuccess, ReportFailure, RecordSuccess, RecordFailure
  <2>3. ASSUME NEW c \in Callers, CallEnds(c) \/ Abandon(c) \/ TurnedAway(c)
        PROVE  FALSE
    BY <2>3 DEF CallEnds, Abandon, TurnedAway, Reject, breaker
  <2>4. CASE Operate
    BY <2>4 DEF Operate, Reset, Close
  <2>5. ASSUME PassTime \/ Switch PROVE FALSE
    BY <2>5 DEF PassTime, Tick, Switch, breaker
  <2> QED  BY <2>1, <2>2, <2>3, <2>4, <2>5 DEF Next
<1> QED  BY BreakerInit, BreakerStep, <1>1, PTL DEF Spec, OpenWaits
=============================================================================
