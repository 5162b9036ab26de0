--------------------------- MODULE CircuitBreaker ---------------------------
(***************************************************************************)
(* The circuit breaker that guards every custom MCP provider               *)
(* (src/src/mcp/circuit_breaker.rs).                                       *)
(*                                                                         *)
(* The breaker's state is guarded by one mutex, so allow(),                *)
(* record_success() and record_failure() are atomic; between allow() and   *)
(* the record the caller awaits the provider, and any number of other      *)
(* callers may run.  An Instant is represented by the time elapsed since   *)
(* it, and an elapsed time stops counting once every comparison the code   *)
(* makes with it is decided (ElapsedCap).                                  *)
(***************************************************************************)
EXTENDS Naturals

CONSTANTS
  Callers,       \* tasks that call tools_list / tools_call concurrently
  Threshold,     \* config.failure_threshold (0 is accepted by the config)
  Cooldown,      \* config.cooldown, in ticks
  ProbeTimeout,  \* PROBE_TIMEOUT, in ticks
  CounterMax     \* stands for u32::MAX and u64::MAX of the two metrics

ASSUME ConfigAssumption ==
  /\ Threshold \in Nat
  /\ Cooldown \in Nat
  /\ ProbeTimeout \in Nat
  /\ CounterMax \in Nat

VARIABLES
  phase,          \* the Phase of the breaker
  failures,       \* State.failures, counted up to the threshold
  elapsed,        \* time since opened_at (Open) or since the probe (HalfOpen)
  opened_count,   \* saturating metric
  rejected_count, \* saturating metric
  calls,          \* what each caller has in flight: nothing, a call, the probe
  sinceProbe      \* history: time since a probe was last admitted

vars == <<phase, failures, elapsed, opened_count, rejected_count, calls,
          sinceProbe>>

ElapsedCap == IF Cooldown > ProbeTimeout THEN Cooldown ELSE ProbeTimeout

\* Mutant: a metric that is bumped without saturating.
SaturatingIncrement_Unbounded(n) == n + 1

\* Saturating increment of a metric: it pins at its maximum, never wraps.
SaturatingIncrement(n) == IF n < CounterMax THEN n + 1 ELSE n

Later(t) == IF t < ElapsedCap THEN t + 1 ELSE t

Init ==
  /\ phase = "Closed"
  /\ failures = 0
  /\ elapsed = 0
  /\ opened_count = 0
  /\ rejected_count = 0
  /\ calls = [c \in Callers |-> "idle"]
  /\ sinceProbe = ElapsedCap

(***************************************************************************)
(* allow(): the three ways it answers.  Phase::HalfOpen { probe: None } is *)
(* only passed through inside allow(), so a half-open breaker always has   *)
(* a probe here.                                                           *)
(***************************************************************************)
StillOpen == phase = "Open" /\ elapsed < Cooldown

\* Mutant: a probe that is never considered lost.
ProbePending_Forever == phase = "HalfOpen"

ProbePending == phase = "HalfOpen" /\ elapsed < ProbeTimeout

Rejects == StillOpen \/ ProbePending

\* The caller becomes the probe; one that is still out is considered lost.
BecomesProbe(c) ==
  [d \in Callers |-> IF d = c THEN "probe"
                     ELSE IF calls[d] = "probe" THEN "call" ELSE calls[d]]

CallAdmitted(c) ==
  /\ calls[c] = "idle"
  /\ phase = "Closed"
  /\ calls' = [calls EXCEPT ![c] = "call"]
  /\ UNCHANGED <<phase, failures, elapsed, opened_count, rejected_count,
                 sinceProbe>>

CallAsProbe(c) ==
  /\ calls[c] = "idle"
  /\ phase # "Closed"
  /\ ~Rejects
  /\ phase' = "HalfOpen"
  /\ elapsed' = 0
  /\ calls' = BecomesProbe(c)
  /\ sinceProbe' = 0
  /\ UNCHANGED <<failures, opened_count, rejected_count>>

CallRejected(c) ==
  /\ calls[c] = "idle"
  /\ Rejects
  /\ rejected_count' = SaturatingIncrement(rejected_count)
  /\ UNCHANGED <<phase, failures, elapsed, opened_count, calls, sinceProbe>>

(***************************************************************************)
(* record(): what the answer of the provider does to the breaker, whoever  *)
(* brings it and whenever the call was admitted.                           *)
(***************************************************************************)
Counted == IF failures < Threshold THEN failures + 1 ELSE failures

\* Mutant: the count before this failure is compared with the threshold.
Trips_OffByOne == phase = "HalfOpen" \/ failures >= Threshold

Trips == phase = "HalfOpen" \/ Counted >= Threshold

RecordSuccess(c) ==
  /\ calls[c] # "idle"
  /\ calls' = [calls EXCEPT ![c] = "idle"]
  /\ failures' = 0
  /\ phase' = "Closed"
  /\ UNCHANGED <<elapsed, opened_count, rejected_count, sinceProbe>>

\* Mutant: a failed probe re-opens the breaker with the old opened_at.
RecordFailure_KeepsOpenedAt(c) ==
  /\ calls[c] # "idle"
  /\ calls' = [calls EXCEPT ![c] = "idle"]
  /\ failures' = Counted
  /\ IF Trips
     THEN /\ phase' = "Open"
          /\ elapsed' = (IF phase = "HalfOpen" THEN Cooldown ELSE 0)
          /\ opened_count' = SaturatingIncrement(opened_count)
     ELSE UNCHANGED <<phase, elapsed, opened_count>>
  /\ UNCHANGED <<rejected_count, sinceProbe>>

RecordFailure(c) ==
  /\ calls[c] # "idle"
  /\ calls' = [calls EXCEPT ![c] = "idle"]
  /\ failures' = Counted
  /\ IF Trips
     THEN /\ phase' = "Open"
          /\ elapsed' = 0
          /\ opened_count' = SaturatingIncrement(opened_count)
     ELSE UNCHANGED <<phase, elapsed, opened_count>>
  /\ UNCHANGED <<rejected_count, sinceProbe>>

\* The caller's future is dropped while it awaits: nothing is recorded.
DropCall(c) ==
  /\ calls[c] # "idle"
  /\ calls' = [calls EXCEPT ![c] = "idle"]
  /\ UNCHANGED <<phase, failures, elapsed, opened_count, rejected_count,
                 sinceProbe>>

Tick ==
  /\ elapsed' = Later(elapsed)
  /\ sinceProbe' = Later(sinceProbe)
  /\ UNCHANGED <<phase, failures, opened_count, rejected_count, calls>>

Call(c) == CallAdmitted(c) \/ CallAsProbe(c) \/ CallRejected(c)

Finish(c) == RecordSuccess(c) \/ RecordFailure(c) \/ DropCall(c)

Next ==
  \/ \E c \in Callers : Call(c) \/ Finish(c)
  \/ Tick

Spec == Init /\ [][Next]_vars

(***************************************************************************)
(* Callers keep calling, a call in flight ends (the provider answers, its  *)
(* request timeout fires or the future is dropped) and time passes.        *)
(***************************************************************************)
Fairness ==
  /\ \A c \in Callers : WF_vars(Call(c)) /\ WF_vars(Finish(c))
  /\ WF_vars(Tick)

FairSpec == Spec /\ Fairness

-----------------------------------------------------------------------------
\* Type invariant: the phase, the clock and the calls in flight are ones the
\* breaker can produce, the failure counter stops mattering at the threshold
\* and the saturating metrics never pass their maximum.
TypeOK ==
  /\ phase \in {"Closed", "Open", "HalfOpen"}
  /\ failures \in 0..Threshold
  /\ elapsed \in 0..ElapsedCap
  /\ opened_count \in 0..CounterMax
  /\ rejected_count \in 0..CounterMax
  /\ calls \in [Callers -> {"idle", "call", "probe"}]
  /\ sinceProbe \in 0..ElapsedCap

\* A closed breaker has strictly fewer consecutive failures than the
\* threshold, in whatever order late answers of earlier calls arrive:
\* record_failure never leaves a breaker closed that should have tripped.
ClosedBelowThreshold ==
  phase = "Closed" => failures = 0 \/ failures < Threshold

\* The clock of the breaker never runs ahead of the time since the last
\* probe: an opening follows the probe it judges, and a half-open breaker
\* measures the probe itself.
ProbeClock ==
  /\ phase = "Open" => sinceProbe >= elapsed
  /\ phase = "HalfOpen" => sinceProbe = elapsed

ProbeGap == IF Cooldown < ProbeTimeout THEN Cooldown ELSE ProbeTimeout

\* Recovery traffic cannot stampede a provider: two probes admitted by
\* allow() are at least a cooldown or a probe timeout apart, even when
\* answers of calls admitted long ago close and re-open the breaker between
\* them.
ProbesSpaced ==
  [][\A c \in Callers : CallAsProbe(c) => sinceProbe >= ProbeGap]_vars

\* A lost probe does not wedge the breaker: PROBE_TIMEOUT makes allow()
\* admit another one, so calls get through again and again.
NeverWedged ==
  []<><<\E c \in Callers : CallAdmitted(c) \/ CallAsProbe(c)>>_vars

=============================================================================
