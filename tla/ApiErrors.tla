----------------------------- MODULE ApiErrors -----------------------------
(***************************************************************************)
(* The HTTP status of a failed request: to_http_exception (api/errors.py)  *)
(* tries its branches in order, and the first class the exception is an    *)
(* instance of decides.  Several of the exceptions are of two of these     *)
(* classes, so the order matters.                                          *)
(***************************************************************************)
EXTENDS Naturals, Sequences

(* The exceptions the gates in front of an execution raise.  A replayed       *)
(* packet and a body that is no JSON object are plain ValueErrors.            *)
GateRefusal ==
  {"IngressAuthorizationError", "IngressValidationError", "RateLimitExceededError",
   "LoadShedError", "CircuitBreakerOpenError", "ValueError"}

(* What the node SDK raises for a worker call. *)
WorkerError ==
  {"WorkerConnectionError", "WorkerTimeoutError", "WorkerHTTPError",
   "GateDispatchSecurityError.inbound", "GateDispatchSecurityError.outbound",
   "GateDispatchAuthorityError", "GateDispatchConfigurationError"}

(* What an attempt raises: no node or no healthy node for the action, a       *)
(* spent budget, a dispatch against the routing policy, a full node, a        *)
(* counter that disagrees with the permits, a broken workflow step, a result  *)
(* that is no packet, or an error of the worker call.                         *)
AttemptError ==
  {"LookupError", "NoHealthyNodeError", "DeadlineExceeded", "TimeoutError", "RoutingPolicyError",
   "NodeLimitExceededError", "RuntimeError", "ValueError", "TypeError"} \cup WorkerError

Exceptions == GateRefusal \cup AttemptError

(* The classes an exception is an instance of, as far as a branch names them. *)
ClassesOf(e) ==
  {e} \cup
  (CASE e = "NoHealthyNodeError" -> {"LookupError"}
     [] e = "DeadlineExceeded" -> {"TimeoutError"}
     [] e = "WorkerTimeoutError" -> {"GateDispatchError", "TimeoutError"}
     [] e \in {"WorkerConnectionError", "WorkerHTTPError"} -> {"GateDispatchError"}
     [] e \in {"GateDispatchAuthorityError", "GateDispatchConfigurationError"} -> {"ValueError"}
     [] OTHER -> {})

IsA(e, class) == class \in ClassesOf(e)

(* Mutant: a full node is refused like an admission. *)
_ADMISSION_ERRORS_NodeLimit ==
  {"RateLimitExceededError", "LoadShedError", "CircuitBreakerOpenError", "NodeLimitExceededError"}

(* BackpressureExceededError, the fourth, is never raised: the depth of the   *)
(* queue is given as 0.                                                       *)
_ADMISSION_ERRORS == {"RateLimitExceededError", "LoadShedError", "CircuitBreakerOpenError"}

(* Mutant: the worker's failures are matched before the timeouts. *)
Branches_DispatchFirst ==
  << <<{"IngressAuthorizationError"}, 403>>, <<{"IngressValidationError"}, 400>>,
     <<_ADMISSION_ERRORS, 429>>, <<{"RoutingPolicyError"}, 403>>, <<{"NoHealthyNodeError"}, 503>>,
     <<{"LookupError"}, 404>>, <<{"GateDispatchError"}, 502>>, <<{"TimeoutError"}, 504>>,
     <<{"ValueError"}, 400>> >>

(* Mutant: the generic branch for ValueErrors comes before the dispatch ones. *)
Branches_ValueFirst ==
  << <<{"IngressAuthorizationError"}, 403>>, <<{"IngressValidationError"}, 400>>,
     <<_ADMISSION_ERRORS, 429>>, <<{"RoutingPolicyError"}, 403>>, <<{"NoHealthyNodeError"}, 503>>,
     <<{"LookupError"}, 404>>, <<{"TimeoutError"}, 504>>, <<{"ValueError"}, 400>>,
     <<{"GateDispatchError"}, 502>> >>

(* The branches in the order of the code, each with its classes and status.   *)
(* The one for PermissionError is the administrative routes' own.             *)
Branches ==
  << <<{"IngressAuthorizationError"}, 403>>,
     <<{"IngressValidationError"}, 400>>,
     <<_ADMISSION_ERRORS, 429>>,
     <<{"RoutingPolicyError"}, 403>>,
     <<{"PermissionError"}, 401>>,
     <<{"NoHealthyNodeError"}, 503>>,
     <<{"LookupError"}, 404>>,
     <<{"TimeoutError"}, 504>>,
     <<{"GateDispatchAuthorityError", "GateDispatchConfigurationError"}, 500>>,
     <<{"GateDispatchSecurityError.outbound"}, 500>>,
     <<{"GateDispatchSecurityError.inbound"}, 502>>,
     <<{"GateDispatchError"}, 502>>,
     <<{"ValueError"}, 400>> >>

Matching(e) == {i \in DOMAIN Branches : \E class \in Branches[i][1] : IsA(e, class)}

(* to_http_exception: the first matching branch, else an internal error. *)
HttpStatus(e) ==
  IF Matching(e) = {} THEN 500
  ELSE Branches[CHOOSE i \in Matching(e) : \A j \in Matching(e) : i <= j][2]
=============================================================================
