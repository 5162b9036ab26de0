------------------------ MODULE CircuitBreakerProofs ------------------------
(***************************************************************************)
(* Proofs about CircuitBreaker for every set of callers, threshold,        *)
(* cooldown and probe timeout.                                             *)
(***************************************************************************)
EXTENDS CircuitBreaker, TLAPS

\* Every variable of the breaker keeps its type, and both metrics stay
\* within their width, whatever the callers do.
THEOREM TypeCorrect == Spec => []TypeOK
<1> USE ConfigAssumption DEF TypeOK, ElapsedCap
<1>1. Init => TypeOK
  BY DEF Init
<1>2. TypeOK /\ [Next]_vars => TypeOK'
  <2> SUFFICES ASSUME TypeOK, [Next]_vars PROVE TypeOK'
    OBVIOUS
  <2>1. ASSUME NEW c \in Callers, CallAdmitted(c) PROVE TypeOK'
    BY <2>1 DEF CallAdmitted
  <2>2. ASSUME NEW c \in Callers, CallAsProbe(c) PROVE TypeOK'
    BY <2>2 DEF CallAsProbe, BecomesProbe
  <2>3. ASSUME NEW c \in Callers, CallRejected(c) PROVE TypeOK'
    BY <2>3 DEF CallRejected, SaturatingIncrement
  <2>4. ASSUME NEW c \in Callers, RecordSuccess(c) PROVE TypeOK'
    BY <2>4 DEF RecordSuccess
  <2>5. ASSUME NEW c \in Callers, RecordFailure(c) PROVE TypeOK'
    BY <2>5 DEF RecordFailure, Counted, SaturatingIncrement
  <2>6. ASSUME NEW c \in Callers, DropCall(c) PROVE TypeOK'
    BY <2>6 DEF DropCall
  <2>7. ASSUME Tick PROVE TypeOK'
    BY <2>7 DEF Tick, Later
  <2>8. CASE UNCHANGED vars
    BY <2>8 DEF vars
  <2> QED
    BY <2>1, <2>2, <2>3, <2>4, <2>5, <2>6, <2>7, <2>8 DEF Next, Call, Finish
<1> QED
  BY <1>1, <1>2, PTL DEF Spec

\* record_failure never leaves the breaker closed at or above its threshold,
\* in whatever order the answers of concurrent calls arrive.
THEOREM ClosedStaysBelowThreshold == Spec => []ClosedBelowThreshold
<1> USE ConfigAssumption DEF ClosedBelowThreshold
<1>1. Init => ClosedBelowThreshold
  BY DEF Init
<1>2. TypeOK /\ ClosedBelowThreshold /\ [Next]_vars => ClosedBelowThreshold'
  <2> SUFFICES ASSUME TypeOK, ClosedBelowThreshold, [Next]_vars
               PROVE  ClosedBelowThreshold'
    OBVIOUS
  <2>1. ASSUME NEW c \in Callers, Call(c) PROVE ClosedBelowThreshold'
    BY <2>1 DEF Call, CallAdmitted, CallAsProbe, CallRejected
  <2>2. ASSUME NEW c \in Callers, RecordFailure(c)
        PROVE  ClosedBelowThreshold'
    BY <2>2 DEF RecordFailure, Trips, Counted, TypeOK
  <2>3. ASSUME NEW c \in Callers, RecordSuccess(c) \/ DropCall(c)
        PROVE  ClosedBelowThreshold'
    BY <2>3 DEF RecordSuccess, DropCall
  <2>4. CASE Tick \/ UNCHANGED vars
    BY <2>4 DEF Tick, vars
  <2> QED
    BY <2>1, <2>2, <2>3, <2>4 DEF Next, Finish
<1> QED
  BY <1>1, <1>2, TypeCorrect, PTL DEF Spec

LEMMA ProbeClockHolds == Spec => []ProbeClock
<1> USE ConfigAssumption DEF ProbeClock
<1>1. Init => ProbeClock
  BY DEF Init
<1>2. TypeOK /\ ProbeClock /\ [Next]_vars => ProbeClock'
  <2> SUFFICES ASSUME TypeOK, ProbeClock, [Next]_vars PROVE ProbeClock'
    OBVIOUS
  <2>1. ASSUME NEW c \in Callers, Call(c) PROVE ProbeClock'
    BY <2>1 DEF Call, CallAdmitted, CallAsProbe, CallRejected, TypeOK
  <2>2. ASSUME NEW c \in Callers, Finish(c) PROVE ProbeClock'
    BY <2>2 DEF Finish, RecordSuccess, RecordFailure, DropCall, TypeOK
  <2>3. CASE Tick
    BY <2>3 DEF Tick, Later, TypeOK, ElapsedCap
  <2>4. CASE UNCHANGED vars
    BY <2>4 DEF vars
  <2> QED
    BY <2>1, <2>2, <2>3, <2>4 DEF Next
<1> QED
  BY <1>1, <1>2, TypeCorrect, PTL DEF Spec

\* Two probes are at least the shorter of the cooldown and the probe timeout
\* apart, so recovery traffic cannot stampede the provider: ProbeClock ties
\* the clock allow() reads to the time since the last probe.
THEOREM ProbesAreSpaced == Spec => ProbesSpaced
<1>1. ASSUME TypeOK, ProbeClock, NEW c \in Callers, CallAsProbe(c)
      PROVE  sinceProbe >= ProbeGap
  BY <1>1, ConfigAssumption
  DEF CallAsProbe, Rejects, StillOpen, ProbePending, ProbeGap, ProbeClock,
      TypeOK, ElapsedCap
<1>2. TypeOK /\ ProbeClock /\ [Next]_vars
        => [\A c \in Callers : CallAsProbe(c) => sinceProbe >= ProbeGap]_vars
  BY <1>1
<1> QED
  BY <1>2, TypeCorrect, ProbeClockHolds, PTL DEF Spec, ProbesSpaced
=============================================================================
