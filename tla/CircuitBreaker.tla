--------------------------- MODULE CircuitBreaker ---------------------------
(***************************************************************************)
(* The circuit breaker in front of execution                               *)
(* (resilience/circuit_breaker.py).  It knows nothing of the calls it let  *)
(* through: an outcome is recorded in whatever state the breaker is in     *)
(* when it arrives, which need not be the state that admitted the call.    *)
(*                                                                         *)
(* Time is kept as the age of the last trip, which the code computes as    *)
(* now - opened_at and compares with the recovery timeout only; it stops   *)
(* growing there.                                                          *)
(***************************************************************************)
EXTENDS Naturals

CONSTANTS
  FailureThreshold,  \* failures that trip the breaker
  Recovery,          \* recovery_timeout_seconds, in ticks
  FailureCap,        \* bound: the counter stops here, see RecordFailure
  NotOpened          \* opened_at is None

ASSUME BreakerAssumption ==
  /\ FailureThreshold \in Nat \ {0}
  /\ Recovery \in Nat \ {0}
  /\ FailureCap \in Nat /\ FailureCap >= FailureThreshold
  /\ NotOpened \notin Nat

VARIABLES
  breaker,   \* CircuitBreaker._state
  failures,  \* CircuitBreaker._failure_count
  openAge    \* time since CircuitBreaker._opened_at

breakerVars == <<breaker, failures, openAge>>

BreakerInit == breaker = "closed" /\ failures = 0 /\ openAge = NotOpened

(* Mutant: the raise of an open breaker is missing. *)
BeforeCall_NeverRaises ==
  /\ breaker' = IF breaker = "open" /\ openAge >= Recovery THEN "half_open" ELSE breaker
  /\ UNCHANGED <<failures, openAge>>

(* before_call lets a call through: closed, half open, or open for long       *)
(* enough to try again.  Half open admits every caller, not a single probe.   *)
BeforeCall ==
  /\ breaker = "open" => openAge >= Recovery
  /\ breaker' = IF breaker = "open" THEN "half_open" ELSE breaker
  /\ UNCHANGED <<failures, openAge>>

(* Any success closes the breaker. *)
RecordSuccess == breaker' = "closed" /\ failures' = 0 /\ openAge' = NotOpened

TripOpen == breaker' = "open" /\ openAge' = 0

(* Mutant: the counter trips one failure late. *)
RecordFailure_OffByOne ==
  IF breaker = "half_open"
    THEN TripOpen /\ UNCHANGED failures
    ELSE /\ failures' = IF failures < FailureCap THEN failures + 1 ELSE failures
         /\ IF failures' > FailureThreshold THEN TripOpen ELSE UNCHANGED <<breaker, openAge>>

(* A failure trips a half-open breaker at once, and any other when the count  *)
(* reaches the threshold; a failure that arrives at an open breaker starts    *)
(* its recovery time anew.  The counter is compared with the threshold only,  *)
(* so the model lets it stop at FailureCap.                                   *)
RecordFailure ==
  IF breaker = "half_open"
    THEN TripOpen /\ UNCHANGED failures
    ELSE /\ failures' = IF failures < FailureCap THEN failures + 1 ELSE failures
         /\ IF failures' >= FailureThreshold THEN TripOpen ELSE UNCHANGED <<breaker, openAge>>

(* One tick of the clock. *)
BreakerAges ==
  /\ openAge' = IF openAge # NotOpened /\ openAge < Recovery THEN openAge + 1 ELSE openAge
  /\ UNCHANGED <<breaker, failures>>

-----------------------------------------------------------------------------
(* Properties *)

BreakerTypeOK ==
  /\ breaker \in {"closed", "open", "half_open"}
  /\ failures \in 0 .. FailureCap
  /\ openAge \in (0 .. Recovery) \cup {NotOpened}

(* In every order of outcomes and admissions, a closed breaker is below its   *)
(* threshold and remembers no trip; an open or half-open one has reached it   *)
(* and knows when it tripped (before_call asserts opened_at is not None).     *)
BreakerConsistent ==
  /\ breaker = "closed" <=> failures < FailureThreshold
  /\ breaker = "closed" <=> openAge = NotOpened
=============================================================================
