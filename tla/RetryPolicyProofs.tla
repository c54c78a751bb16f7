------------------------- MODULE RetryPolicyProofs -------------------------
(* Proofs about RetryPolicy, for any budgets, delays and ceilings, and about *)
(* the status of every way a request can fail.                               *)
EXTENDS RetryPolicy, Extremes, TLAPS

(* What the phases say of the attempt and the clock: a sleeper still has an   *)
(* attempt left.                                                              *)
PhaseInv ==
  /\ phase = "arrived" => attempt = 0 /\ elapsed = 0 /\ pause = 0
  /\ phase \in {"running", "pausing"} => attempt >= 1
  /\ phase = "pausing" => attempt < Effective

(* Which exceptions a request ends with, by how far it came. *)
ErrorInv ==
  /\ phase = "raised" /\ attempt = 0 => error \in GateRefusal
  /\ phase = "raised" /\ attempt # 0 => error \in AttemptError
  /\ phase = "pausing" => IsA(error, "TimeoutError") /\ error \in AttemptError
  /\ phase = "timed_out" => error = "TimeoutError" /\ attempt # 0

RetryInv == TypeOK /\ PhaseInv /\ ErrorInv /\ SleepsWithinBudget

LEMMA EffectiveType ==
  ASSUME action \in ActionName, keyed \in BOOLEAN
  PROVE  /\ Effective \in Nat \ {0} /\ Effective <= TemplateAttempts
         /\ Effective > 1 => action \in GATE_REPLAY_SAFE_ACTIONS /\ keyed
  BY RetryAssumption DEF Effective, MaxAttemptsFor, Least

LEMMA RemainingType ==
  ASSUME elapsed \in Nat
  PROVE  /\ Remaining \in Nat
         /\ Remaining = 0 => elapsed >= Budget
         /\ Remaining # 0 => Remaining = Budget - elapsed /\ elapsed < Budget
  BY RetryAssumption DEF Remaining

LEMMA InitHolds == Init => RetryInv
<1> SUFFICES ASSUME Init PROVE RetryInv
  OBVIOUS
<1>1. Effective \in Nat
  BY EffectiveType DEF Init
<1> QED  BY <1>1, RetryAssumption
            DEF Init, RetryInv, TypeOK, PhaseInv, ErrorInv, SleepsWithinBudget

LEMMA StepHolds == RetryInv /\ [Next]_vars => RetryInv'
<1> SUFFICES ASSUME RetryInv, [Next]_vars PROVE RetryInv'
  OBVIOUS
<1> USE RetryAssumption DEF RetryInv
<1>1. /\ action \in ActionName /\ keyed \in BOOLEAN
      /\ Effective \in Nat \ {0} /\ Effective <= TemplateAttempts
      /\ attempt \in 0 .. Effective /\ pause \in 0 .. Budget /\ elapsed \in 0 .. Budget + Late
  BY EffectiveType DEF TypeOK
<1>2. action' = action /\ keyed' = keyed /\ Effective' = Effective
  BY DEF Next, vars, Refuse, Start, Succeed, Fail, WakeUp, GiveUp, Tick, Effective, MaxAttemptsFor
<1>3. ASSUME NEW exc \in GateRefusal, Refuse(exc)
      PROVE  RetryInv'
  <2>1. TypeOK'
    BY <1>1, <1>2, <1>3 DEF Refuse, TypeOK, Exceptions
  <2> QED  BY <1>2, <1>3, <2>1 DEF Refuse, PhaseInv, ErrorInv, SleepsWithinBudget
<1>4. CASE Start
  <2>1. TypeOK'
    BY <1>1, <1>2, <1>4 DEF Start, TypeOK
  <2> QED  BY <1>2, <1>4, <2>1 DEF Start, PhaseInv, ErrorInv, SleepsWithinBudget
<1>5. CASE Succeed
  <2>1. TypeOK'
    BY <1>1, <1>2, <1>5 DEF Succeed, TypeOK
  <2> QED  BY <1>2, <1>5, <2>1 DEF Succeed, PhaseInv, ErrorInv, SleepsWithinBudget
<1>6. ASSUME NEW exc \in AttemptError, Fail(exc)
      PROVE  RetryInv'
  <2>1. /\ phase = "running" /\ error' = exc /\ attempt' = attempt /\ elapsed' = elapsed
        /\ attempt >= 1
    BY <1>6 DEF Fail, PhaseInv
  <2>2. CASE IsA(exc, "TimeoutError") /\ Retries
    <3>1. /\ phase' = "pausing" /\ pause' = DelayAfter(attempt)
          /\ attempt < Effective /\ DelayAfter(attempt) < Remaining
      BY <1>6, <2>2 DEF Fail, Retries
    <3>2. DelayAfter(attempt) \in Nat
      <4>1. attempt \in 1 .. TemplateAttempts
        BY <1>1, <2>1
      <4> QED  BY <4>1, DelaysAreTicks
    <3>3. elapsed + pause' < Budget
      <4>1. Remaining \in Nat /\ Remaining = Budget - elapsed
        BY <1>1, <3>1, <3>2, RemainingType
      <4> QED  BY <1>1, <3>1, <3>2, <4>1
    <3>4. TypeOK'
      <4>1. pause' \in 0 .. Budget
        BY <1>1, <3>1, <3>2, <3>3
      <4> QED  BY <1>1, <1>2, <2>1, <3>1, <4>1 DEF TypeOK, Exceptions
    <3> QED  BY <1>1, <1>2, <2>1, <2>2, <3>1, <3>3, <3>4
                DEF PhaseInv, ErrorInv, SleepsWithinBudget
  <2>3. CASE ~(IsA(exc, "TimeoutError") /\ Retries)
    <3>1. phase' = "raised" /\ pause' = pause
      BY <1>6, <2>3 DEF Fail
    <3>2. TypeOK'
      BY <1>1, <1>2, <2>1, <3>1 DEF TypeOK, Exceptions
    <3> QED  BY <1>1, <1>2, <2>1, <3>1, <3>2 DEF PhaseInv, ErrorInv, SleepsWithinBudget
  <2> QED  BY <2>2, <2>3
<1>7. CASE WakeUp
  <2>1. /\ phase = "pausing" /\ pause = 0 /\ attempt >= 1 /\ attempt < Effective
        /\ UNCHANGED <<error, pause, elapsed>>
    BY <1>7 DEF WakeUp, PhaseInv
  <2>2. \/ phase' = "raised" /\ attempt' = attempt
        \/ phase' = "running" /\ attempt' = attempt + 1
    BY <1>7 DEF WakeUp
  <2>3. TypeOK'
    BY <1>1, <1>2, <2>1, <2>2 DEF TypeOK
  <2> QED  BY <1>1, <1>2, <2>1, <2>2, <2>3 DEF PhaseInv, ErrorInv, SleepsWithinBudget
<1>8. CASE GiveUp
  <2>1. TypeOK'
    BY <1>1, <1>2, <1>8 DEF GiveUp, TypeOK, Exceptions, AttemptError
  <2> QED  BY <1>1, <1>2, <1>8, <2>1 DEF GiveUp, PhaseInv, ErrorInv, SleepsWithinBudget
<1>9. CASE Tick
  <2>1. /\ phase \in {"running", "pausing"} /\ elapsed' = elapsed + 1 /\ elapsed < Budget + Late
        /\ pause' \in 0 .. Budget /\ (pause' > 0 => pause' = pause - 1)
        /\ UNCHANGED <<phase, attempt, error>>
    BY <1>1, <1>9 DEF Tick
  <2>2. TypeOK'
    BY <1>1, <1>2, <2>1 DEF TypeOK
  <2>3. SleepsWithinBudget'
    BY <1>1, <2>1 DEF SleepsWithinBudget
  <2> QED  BY <1>2, <2>1, <2>2, <2>3 DEF PhaseInv, ErrorInv
<1>10. CASE UNCHANGED vars
  BY <1>2, <1>10 DEF vars, TypeOK, PhaseInv, ErrorInv, SleepsWithinBudget
<1> QED  BY <1>3, <1>4, <1>5, <1>6, <1>7, <1>8, <1>9, <1>10 DEF Next

LEMMA InvHolds == Spec => []RetryInv
  BY InitHolds, StepHolds, PTL DEF Spec

(* Attempts, sleeps and the clock stay in their ranges; the attempt never     *)
(* passes the number resolved for the packet.                                 *)
THEOREM RetryTypeCorrect == Spec => []TypeOK
<1>1. RetryInv => TypeOK
  BY DEF RetryInv
<1> QED  BY <1>1, InvHolds, PTL

(* Whatever the ceilings are, only declared and keyed operations run twice.   *)
THEOREM RepeatsAreDeclared == Spec => []OnceUnlessDeclaredSafe
<1>1. RetryInv => OnceUnlessDeclaredSafe
  BY EffectiveType, RetryAssumption DEF RetryInv, TypeOK, OnceUnlessDeclaredSafe
<1> QED  BY <1>1, InvHolds, PTL

(* Whatever the delays are, a sleep on time ends before the budget does.      *)
THEOREM SleepsAreShort == Spec => []SleepsWithinBudget
<1>1. RetryInv => SleepsWithinBudget
  BY DEF RetryInv
<1> QED  BY <1>1, InvHolds, PTL

(* However late the sleeper is woken, no attempt starts on a spent budget.    *)
THEOREM NoLateAttempt == Spec => AttemptsStartInTime
<1>1. RetryInv /\ [Next]_vars => [attempt' # attempt => elapsed < Budget]_vars
  <2> SUFFICES ASSUME RetryInv, Next, attempt' # attempt PROVE elapsed < Budget
    BY DEF vars
  <2>1. elapsed \in Nat
    BY RetryAssumption DEF RetryInv, TypeOK
  <2>2. CASE Start
    BY <2>2, RetryAssumption DEF Start, RetryInv, PhaseInv
  <2>3. CASE WakeUp
    BY <2>1, <2>3, RemainingType DEF WakeUp
  <2> QED  BY <2>2, <2>3 DEF Next, Refuse, Succeed, Fail, GiveUp, Tick
<1> QED  BY <1>1, InvHolds, PTL DEF Spec, AttemptsStartInTime

-----------------------------------------------------------------------------
(* The status of an exception *)

(* The branches, one by one. *)
LEMMA BranchTable ==
  /\ DOMAIN Branches = 1 .. 13
  /\ Branches[1] = <<{"IngressAuthorizationError"}, 403>>
  /\ Branches[2] = <<{"IngressValidationError"}, 400>>
  /\ Branches[3] = <<_ADMISSION_ERRORS, 429>>
  /\ Branches[4] = <<{"RoutingPolicyError"}, 403>>
  /\ Branches[5] = <<{"PermissionError"}, 401>>
  /\ Branches[6] = <<{"NoHealthyNodeError"}, 503>>
  /\ Branches[7] = <<{"LookupError"}, 404>>
  /\ Branches[8] = <<{"TimeoutError"}, 504>>
  /\ Branches[9] = <<{"GateDispatchAuthorityError", "GateDispatchConfigurationError"}, 500>>
  /\ Branches[10] = <<{"GateDispatchSecurityError.outbound"}, 500>>
  /\ Branches[11] = <<{"GateDispatchSecurityError.inbound"}, 502>>
  /\ Branches[12] = <<{"GateDispatchError"}, 502>>
  /\ Branches[13] = <<{"ValueError"}, 400>>
  BY DEF Branches

(* The status is the one of the first branch that matches, or 500. *)
LEMMA FirstMatch ==
  ASSUME NEW e
  PROVE  \/ Matching(e) = {} /\ HttpStatus(e) = 500
         \/ \E i \in Matching(e) :
              (\A j \in Matching(e) : i <= j) /\ HttpStatus(e) = Branches[i][2]
<1>1. CASE Matching(e) = {}
  BY <1>1 DEF HttpStatus
<1>2. CASE Matching(e) # {}
  <2>1. Matching(e) \subseteq Nat
    BY BranchTable DEF Matching
  <2>2. \E i \in Matching(e) : \A j \in Matching(e) : i <= j
    BY <1>2, <2>1, LeastOf
  <2> DEFINE first == CHOOSE i \in Matching(e) : \A j \in Matching(e) : i <= j
  <2>3. first \in Matching(e) /\ \A j \in Matching(e) : first <= j
    BY <2>2
  <2>4. HttpStatus(e) = Branches[first][2]
    BY <1>2 DEF HttpStatus
  <2> HIDE DEF first
  <2> QED  BY <2>3, <2>4
<1> QED  BY <1>1, <1>2

(* The classes of an exception, for the branches that matter. *)
LEMMA TimeoutClass ==
  ASSUME NEW e \in Exceptions
  PROVE  IsA(e, "TimeoutError") <=> e \in {"TimeoutError", "DeadlineExceeded", "WorkerTimeoutError"}
  BY DEF IsA, ClassesOf, Exceptions, GateRefusal, AttemptError, WorkerError

(* 504 is the status of the timeouts and of nothing else. *)
LEMMA TimeoutStatus ==
  ASSUME NEW e \in Exceptions
  PROVE  HttpStatus(e) = 504 <=> IsA(e, "TimeoutError")
<1>1. ASSUME HttpStatus(e) = 504 PROVE IsA(e, "TimeoutError")
  <2>1. PICK i \in Matching(e) : Branches[i][2] = 504
    BY <1>1, FirstMatch
  <2>2. i = 8
    BY <2>1, BranchTable DEF Matching
  <2> QED  BY <2>1, <2>2, BranchTable DEF Matching
<1>2. ASSUME IsA(e, "TimeoutError") PROVE HttpStatus(e) = 504
  <2>1. 8 \in Matching(e)
    BY <1>2, BranchTable DEF Matching
  <2>2. e \in {"TimeoutError", "DeadlineExceeded", "WorkerTimeoutError"}
    BY <1>2, TimeoutClass
  <2>3. \A i \in 1 .. 7 : i \notin Matching(e)
    BY <2>2, BranchTable DEF Matching, IsA, ClassesOf, _ADMISSION_ERRORS
  <2>4. \A i \in Matching(e) : i \in 1 .. 13 /\ i >= 8
    BY <2>3, BranchTable DEF Matching
  <2>5. PICK i \in Matching(e) :
          (\A j \in Matching(e) : i <= j) /\ HttpStatus(e) = Branches[i][2]
    BY <2>1, FirstMatch
  <2>6. i = 8
    BY <2>1, <2>4, <2>5
  <2> QED  BY <2>5, <2>6, BranchTable
<1> QED  BY <1>1, <1>2

(* 429 is the status of the three admission errors only. *)
LEMMA AdmissionStatus ==
  ASSUME NEW e \in Exceptions, HttpStatus(e) = 429
  PROVE  e \in _ADMISSION_ERRORS
<1>1. PICK i \in Matching(e) : Branches[i][2] = 429
  BY FirstMatch
<1>2. i = 3
  BY <1>1, BranchTable DEF Matching
<1>3. \E class \in _ADMISSION_ERRORS : IsA(e, class)
  BY <1>1, <1>2, BranchTable DEF Matching
<1> QED  BY <1>3 DEF IsA, ClassesOf, _ADMISSION_ERRORS

(* A failed worker call is answered with a status of 500 or more. *)
LEMMA WorkerStatus ==
  ASSUME NEW e \in WorkerError
  PROVE  HttpStatus(e) >= 500
<1>1. \A i \in 1 .. 7 : i \notin Matching(e)
  BY BranchTable DEF Matching, IsA, ClassesOf, _ADMISSION_ERRORS, WorkerError
<1>2. \E i \in 8 .. 12 : i \in Matching(e)
  <2>1. CASE e \in {"WorkerConnectionError", "WorkerTimeoutError", "WorkerHTTPError"}
    <3>1. 12 \in Matching(e)
      BY <2>1, BranchTable DEF Matching, IsA, ClassesOf
    <3> QED  BY <3>1
  <2>2. CASE e = "GateDispatchSecurityError.inbound"
    <3>1. 11 \in Matching(e)
      BY <2>2, BranchTable DEF Matching, IsA, ClassesOf
    <3> QED  BY <3>1
  <2>3. CASE e = "GateDispatchSecurityError.outbound"
    <3>1. 10 \in Matching(e)
      BY <2>3, BranchTable DEF Matching, IsA, ClassesOf
    <3> QED  BY <3>1
  <2>4. CASE e \in {"GateDispatchAuthorityError", "GateDispatchConfigurationError"}
    <3>1. 9 \in Matching(e)
      BY <2>4, BranchTable DEF Matching, IsA, ClassesOf
    <3> QED  BY <3>1
  <2> QED  BY <2>1, <2>2, <2>3, <2>4 DEF WorkerError
<1>3. PICK i \in Matching(e) :
        (\A j \in Matching(e) : i <= j) /\ HttpStatus(e) = Branches[i][2]
  BY <1>2, FirstMatch
<1>4. i \in 8 .. 12
  <2>1. i \in 1 .. 13
    BY BranchTable DEF Matching
  <2> QED  BY <1>1, <1>2, <1>3, <2>1
<1> QED  BY <1>3, <1>4, BranchTable

(* The caller reads 504 exactly when time ended the request.                  *)
THEOREM TimeoutsAreTold == Spec => []TimeoutIsTold
<1>1. RetryInv => TimeoutIsTold
  <2> SUFFICES ASSUME RetryInv, Failed PROVE Status = 504 <=> phase = "timed_out" \/ IsA(error, "TimeoutError")
    BY DEF TimeoutIsTold
  <2>1. error \in Exceptions
    BY DEF RetryInv, ErrorInv, Failed, Exceptions, AttemptError
  <2>2. phase = "timed_out" => IsA(error, "TimeoutError")
    BY <2>1, TimeoutClass DEF RetryInv, ErrorInv
  <2> QED  BY <2>1, <2>2, TimeoutStatus DEF Status
<1> QED  BY <1>1, InvHolds, PTL

(* A 429 is given before any attempt, never after one.                        *)
THEOREM RefusalsAreUnrun == Spec => []RefusedIsUnrun
<1>1. RetryInv => RefusedIsUnrun
  <2> SUFFICES ASSUME RetryInv, Failed, Status = 429, attempt # 0 PROVE FALSE
    BY DEF RefusedIsUnrun
  <2>1. error \in AttemptError
    BY DEF RetryInv, ErrorInv, Failed, AttemptError
  <2>2. error \in _ADMISSION_ERRORS
    BY <2>1, AdmissionStatus DEF Status, Exceptions
  <2> QED  BY <2>1, <2>2 DEF AttemptError, WorkerError, _ADMISSION_ERRORS
<1> QED  BY <1>1, InvHolds, PTL

(* No failure behind the gates is reported as the caller's.                   *)
THEOREM FaultsAreOwned == Spec => []FaultsAreNotTheCallers
<1>1. FaultsAreNotTheCallers
  BY WorkerStatus DEF FaultsAreNotTheCallers, Status
<1> QED  BY <1>1, PTL

(* The status of every failed request tells its cause. *)
THEOREM StatusIsTrue == Spec => []StatusTellsTheCause
<1>1. TimeoutIsTold /\ RefusedIsUnrun /\ FaultsAreNotTheCallers => StatusTellsTheCause
  BY DEF StatusTellsTheCause
<1> QED  BY <1>1, TimeoutsAreTold, RefusalsAreUnrun, FaultsAreOwned, PTL

-----------------------------------------------------------------------------
(* How many steps a request has left at most: ticks of its clock, two for     *)
(* each attempt to come, and the way out of its phase.                        *)
StepsLeft ==
  (Budget + Late - elapsed) + 2 * (Effective - attempt)
    + (IF phase = "running" THEN 2 ELSE IF phase \in {"arrived", "pausing"} THEN 1 ELSE 0)

(* Every step of a request, a failure that is retried included, brings it     *)
(* nearer to its end: however attempts, sleeps and the timer interleave, no   *)
(* request goes round the loop of retry_policy.py for ever.  That it takes    *)
(* its steps at all is the fairness of FairSpec.                              *)
THEOREM RequestsAreFinite ==
  Spec => [](StepsLeft \in Nat) /\ [][StepsLeft' < StepsLeft]_vars
<1>1. RetryInv => StepsLeft \in Nat
  <2> SUFFICES ASSUME RetryInv PROVE StepsLeft \in Nat
    OBVIOUS
  <2>1. /\ Effective \in Nat /\ attempt \in 0 .. Effective
        /\ elapsed \in 0 .. Budget + Late /\ Budget \in Nat /\ Late \in Nat
    BY EffectiveType, RetryAssumption DEF RetryInv, TypeOK
  <2> QED  BY <2>1 DEF StepsLeft
<1>2. RetryInv /\ [Next]_vars => [StepsLeft' < StepsLeft]_vars
  <2> SUFFICES ASSUME RetryInv, Next PROVE StepsLeft' < StepsLeft
    BY DEF vars
  <2>1. /\ Effective \in Nat /\ attempt \in 0 .. Effective
        /\ elapsed \in 0 .. Budget + Late /\ Budget \in Nat /\ Late \in Nat
    BY EffectiveType, RetryAssumption DEF RetryInv, TypeOK
  <2>2. Effective' = Effective
    BY DEF Next, Refuse, Start, Succeed, Fail, WakeUp, GiveUp, Tick, Effective, MaxAttemptsFor
  <2>3. CASE \/ \E exc \in GateRefusal : Refuse(exc)
             \/ Succeed \/ GiveUp
             \/ \E exc \in AttemptError : Fail(exc)
    <3>1. /\ attempt' = attempt /\ elapsed' = elapsed
          /\ \/ phase = "running" /\ phase' \in {"pausing", "returned", "raised", "timed_out"}
             \/ phase \in {"arrived", "pausing"} /\ phase' \in {"raised", "timed_out"}
      BY <2>3 DEF Refuse, Succeed, GiveUp, Fail
    <3> QED  BY <2>1, <2>2, <3>1 DEF StepsLeft
  <2>4. CASE Start
    <3>1. attempt = 0
      BY <2>4 DEF Start, RetryInv, PhaseInv
    <3> QED  BY <2>1, <2>2, <2>4, <3>1 DEF Start, StepsLeft
  <2>5. CASE WakeUp
    <3>1. /\ phase = "pausing" /\ elapsed' = elapsed
          /\ \/ phase' = "raised" /\ attempt' = attempt
             \/ phase' = "running" /\ attempt' = attempt + 1
      BY <2>5 DEF WakeUp
    <3> QED  BY <2>1, <2>2, <3>1 DEF StepsLeft
  <2>6. CASE Tick
    <3>1. elapsed' = elapsed + 1 /\ UNCHANGED <<phase, attempt>>
      BY <2>6 DEF Tick
    <3> QED  BY <2>1, <2>2, <3>1 DEF StepsLeft
  <2> QED  BY <2>3, <2>4, <2>5, <2>6 DEF Next
<1> QED  BY <1>1, <1>2, InvHolds, PTL DEF Spec
=============================================================================
