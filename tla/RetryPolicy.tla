---------------------------- MODULE RetryPolicy ----------------------------
(***************************************************************************)
(* One request to POST /v1/execute (api/main.py) from its arrival to its   *)
(* HTTP status: the gates that may refuse it (ExecuteService.execute), and *)
(* the attempts of its packet: RetryPolicy.run (resilience/retry_policy.py) *)
(* under the packet's Deadline (resilience/deadline.py), with the attempt  *)
(* budget ExecuteService._retry_policy_for resolves from the replay-safety *)
(* registry (resilience/replay_safety.py), inside ExecuteService's         *)
(* wait_for.  What failed becomes a status in to_http_exception            *)
(* (ApiErrors).  The shipped registry is empty; the module also covers one *)
(* that is not.                                                            *)
(***************************************************************************)
EXTENDS Integers, ApiErrors

CONSTANTS
  ActionName,
  GATE_REPLAY_SAFE_ACTIONS,
  REPLAY_SAFE_MAX_ATTEMPTS,
  TemplateAttempts,  \* max_attempts of ExecuteService.retry_policy
  Delay,             \* delay_seconds, in ticks
  Backoff,           \* backoff_multiplier
  Budget,            \* the packet's budget, in ticks
  Late,              \* bound: how long the event loop may be late
  NoError            \* nothing has failed yet

ASSUME RetryAssumption ==
  /\ GATE_REPLAY_SAFE_ACTIONS \subseteq ActionName
  /\ {REPLAY_SAFE_MAX_ATTEMPTS, TemplateAttempts, Backoff, Budget} \subseteq Nat \ {0}
  /\ {Delay, Late} \subseteq Nat
  /\ NoError \notin Exceptions

VARIABLES
  action,   \* header.action
  keyed,    \* does the packet carry an idempotency key?
  phase,    \* arrived, running an attempt, pausing before the next, or how it ended
  attempt,  \* the attempt run, or run last; 0 before the first
  error,    \* the exception of the last attempt, of a gate or of wait_for
  pause,    \* what is left of the sleep
  elapsed   \* Deadline.elapsed_seconds

vars == <<action, keyed, phase, attempt, error, pause, elapsed>>

Least(a, b) == IF a < b THEN a ELSE b

(* remaining_seconds, floored at zero. *)
Remaining == IF elapsed < Budget THEN Budget - elapsed ELSE 0

(* Mutant: the declaration alone is enough. *)
MaxAttemptsFor_AnyKey(a, hasKey) ==
  IF a \in GATE_REPLAY_SAFE_ACTIONS THEN REPLAY_SAFE_MAX_ATTEMPTS ELSE 1

MaxAttemptsFor(a, hasKey) ==
  IF a \in GATE_REPLAY_SAFE_ACTIONS /\ hasKey THEN REPLAY_SAFE_MAX_ATTEMPTS ELSE 1

(* The configured template is a ceiling only. *)
Effective == Least(MaxAttemptsFor(action, keyed), TemplateAttempts)

DelayAfter(n) == Delay * Backoff ^ (n - 1)

(* The delays are whole ticks: a fact of arithmetic, which the provers do not *)
(* know of powers.                                                            *)
ASSUME DelaysAreTicks == \A n \in 1 .. TemplateAttempts : DelayAfter(n) \in Nat

(* Mutant: a sleep may last as long as the budget does. *)
Retries_OffByOne == attempt < Effective /\ DelayAfter(attempt) <= Remaining

(* Mutant: the operator's ceiling and the registry's are passed by one. *)
Retries_NoCeiling == attempt <= Effective /\ DelayAfter(attempt) < Remaining

(* After a retryable failure: an attempt is left, and the sleep leaves time   *)
(* for it.                                                                    *)
Retries == attempt < Effective /\ DelayAfter(attempt) < Remaining

(* A gate refuses: the body, the packet or its caller, a quota, the load, an  *)
(* open breaker, a replay.                                                    *)
Refuse(exc) ==
  /\ phase = "arrived"
  /\ phase' = "raised" /\ error' = exc
  /\ UNCHANGED <<action, keyed, attempt, pause, elapsed>>

(* All gates passed: the deadline and the first attempt start.                *)
Start ==
  /\ phase = "arrived"
  /\ phase' = "running" /\ attempt' = 1
  /\ UNCHANGED <<action, keyed, error, pause, elapsed>>

Succeed ==
  /\ phase = "running" /\ phase' = "returned"
  /\ UNCHANGED <<action, keyed, attempt, error, pause, elapsed>>

(* The attempt fails; only TimeoutErrors are retried.                         *)
Fail(exc) ==
  /\ phase = "running" /\ error' = exc
  /\ IF IsA(exc, "TimeoutError") /\ Retries
       THEN phase' = "pausing" /\ pause' = DelayAfter(attempt)
       ELSE phase' = "raised" /\ UNCHANGED pause
  /\ UNCHANGED <<action, keyed, attempt, elapsed>>

(* Mutant: the deadline is not looked at again after the sleep. *)
WakeUp_Unchecked ==
  /\ phase = "pausing" /\ pause = 0
  /\ phase' = "running" /\ attempt' = attempt + 1
  /\ UNCHANGED <<action, keyed, error, pause, elapsed>>

(* The sleep is over.  The loop may be late, so the deadline is looked at     *)
(* again; once expired, the failure of the last attempt is raised.            *)
WakeUp ==
  /\ phase = "pausing" /\ pause = 0
  /\ IF Remaining = 0
       THEN phase' = "raised" /\ UNCHANGED attempt
       ELSE phase' = "running" /\ attempt' = attempt + 1
  /\ UNCHANGED <<action, keyed, error, pause, elapsed>>

(* Mutant: the budget is watched between the attempts only. *)
GiveUp_BetweenAttempts ==
  /\ phase = "pausing" /\ elapsed >= Budget
  /\ phase' = "timed_out" /\ error' = "TimeoutError"
  /\ UNCHANGED <<action, keyed, attempt, pause, elapsed>>

(* wait_for cancels the attempt or the sleep and raises a TimeoutError. *)
GiveUp ==
  /\ phase \in {"running", "pausing"} /\ elapsed >= Budget
  /\ phase' = "timed_out" /\ error' = "TimeoutError"
  /\ UNCHANGED <<action, keyed, attempt, pause, elapsed>>

Tick ==
  /\ phase \in {"running", "pausing"} /\ elapsed < Budget + Late
  /\ elapsed' = elapsed + 1
  /\ pause' = IF pause > 0 THEN pause - 1 ELSE 0
  /\ UNCHANGED <<action, keyed, phase, attempt, error>>

Init ==
  /\ action \in ActionName /\ keyed \in BOOLEAN
  /\ phase = "arrived" /\ attempt = 0 /\ error = NoError
  /\ pause = 0 /\ elapsed = 0

Next ==
  \/ \E exc \in GateRefusal : Refuse(exc)
  \/ Start
  \/ Succeed
  \/ \E exc \in AttemptError : Fail(exc)
  \/ WakeUp
  \/ GiveUp
  \/ Tick

Spec == Init /\ [][Next]_vars

(* Time passes and the timer of wait_for fires.  Nothing is assumed of the    *)
(* worker: an attempt may never end.                                          *)
FairSpec == Spec /\ WF_vars(Tick) /\ WF_vars(GiveUp)

(* The request is answered with an error status. *)
Failed == phase \in {"raised", "timed_out"}

Status == HttpStatus(error)

-----------------------------------------------------------------------------
(* Properties *)

TypeOK ==
  /\ action \in ActionName /\ keyed \in BOOLEAN
  /\ phase \in {"arrived", "running", "pausing", "returned", "raised", "timed_out"}
  /\ attempt \in 0 .. Effective
  /\ error \in Exceptions \cup {NoError}
  /\ pause \in 0 .. Budget
  /\ elapsed \in 0 .. Budget + Late

(* A worker operation runs a second time only if its action is declared safe  *)
(* and the packet has a stable identity, and never more often than the        *)
(* operator's ceiling (replay_safety.py, ADR-GATE-007).                       *)
OnceUnlessDeclaredSafe ==
  attempt > 1 =>
    action \in GATE_REPLAY_SAFE_ACTIONS /\ keyed /\ attempt <= TemplateAttempts

(* No attempt starts once the packet's budget is spent, however long the      *)
(* earlier attempts took and however late the loop wakes the sleeper.         *)
AttemptsStartInTime == [][attempt' # attempt => elapsed < Budget]_vars

(* A sleep that is on time ends before the budget does (retry_policy.py:      *)
(* "Gate never sleeps past the deadline only to start an attempt that cannot  *)
(* finish").                                                                  *)
SleepsWithinBudget == phase = "pausing" /\ pause > 0 => elapsed + pause < Budget

(* The caller is told of a gateway timeout exactly when time ended the        *)
(* request: the budget ran out, or its last attempt failed in the way that    *)
(* would have been retried.  An operation answered otherwise is known not to  *)
(* be running on at a worker that was too slow (api/errors.py: the SDK's      *)
(* WorkerTimeoutError is both a timeout and a dispatch failure, and "a        *)
(* timeout is a gateway timeout").                                            *)
TimeoutIsTold ==
  Failed => (Status = 504 <=> phase = "timed_out" \/ IsA(error, "TimeoutError"))

(* A request answered with 429 has started nothing, so its caller may send it *)
(* again later (api/errors.py, _ADMISSION_ERRORS).                            *)
RefusedIsUnrun == Failed /\ Status = 429 => attempt = 0

(* A failure behind Gate's gates, at a worker or in Gate's own signing and    *)
(* wiring, is never reported as the caller's mistake, although two of these   *)
(* exceptions are ValueErrors (api/errors.py, before the dispatch branches).  *)
FaultsAreNotTheCallers == Failed /\ error \in WorkerError => Status >= 500

(* The status a caller acts on is true: of timeouts, of what has not run, and *)
(* of whose fault it was, whatever class the branches of api/errors.py find   *)
(* the exception to be an instance of first.                                  *)
StatusTellsTheCause == TimeoutIsTold /\ RefusedIsUnrun /\ FaultsAreNotTheCallers

(* A request that started executing is answered, even if a worker never is    *)
(* (execute_service.py, wait_for around all attempts and sleeps).             *)
EveryRequestAnswered == phase = "running" ~> (phase = "returned" \/ Failed)
=============================================================================
