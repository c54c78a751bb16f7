---------------------------- MODULE RateLimiter ----------------------------
(***************************************************************************)
(* FixedWindowRateLimiter (resilience/rate_limiter.py), the first gate     *)
(* ExecuteService puts a request through, keyed by the packet's source     *)
(* node.  Windows are aligned to the origin of the monotonic clock, not to *)
(* a caller's first request.  A refusal changes nothing.                   *)
(***************************************************************************)
EXTENDS FiniteSets, Integers, Sequences

CONSTANTS
  Key,          \* source nodes
  MaxRequests,  \* max_requests
  Window,       \* window_seconds, in ticks
  Horizon,      \* bound on the clock
  NoCounter     \* no request of this key admitted yet

ASSUME RateLimiterAssumption ==
  /\ {MaxRequests, Window, Horizon} \subseteq Nat \ {0}
  /\ NoCounter \notin [window : Nat, count : Nat]

VARIABLES
  now,       \* the clock
  counters,  \* _counters
  granted    \* history: when each request of a key was admitted, in order

limiterVars == <<now, counters, granted>>

WindowIndex(t) == t \div Window

(* Mutant: a counter outlives its window. *)
CountFor_AnyWindow(k, w) == IF counters[k] = NoCounter THEN 0 ELSE counters[k].count

(* _count_for: the counter of an earlier window reads as zero. *)
CountFor(k, w) ==
  IF counters[k] = NoCounter THEN 0
  ELSE IF counters[k].window # w THEN 0 ELSE counters[k].count

(* Mutant: one request too many. *)
Exhausted_OffByOne(k) == CountFor(k, WindowIndex(now)) > MaxRequests

Exhausted(k) == CountFor(k, WindowIndex(now)) >= MaxRequests

(* allow lets a request through. *)
Allow(k) ==
  LET w == WindowIndex(now) IN
  /\ ~Exhausted(k)
  /\ counters' = [counters EXCEPT ![k] = [window |-> w, count |-> CountFor(k, w) + 1]]
  /\ granted' = [granted EXCEPT ![k] = Append(@, now)]
  /\ UNCHANGED now

TimePasses == now < Horizon /\ now' = now + 1 /\ UNCHANGED <<counters, granted>>

LimiterInit ==
  /\ now = 0
  /\ counters = [k \in Key |-> NoCounter]
  /\ granted = [k \in Key |-> << >>]

-----------------------------------------------------------------------------
(* Properties *)

(* The requests of k admitted from the tick first to the tick last. *)
GrantedIn(k, first, last) ==
  Cardinality({i \in DOMAIN granted[k] : granted[k][i] \in first .. last})

(* Every counter keeps its shape and stays within max_requests. *)
LimiterTypeOK ==
  /\ now \in 0 .. Horizon
  /\ counters \in [Key -> [window : 0 .. WindowIndex(now), count : 1 .. MaxRequests] \cup {NoCounter}]
  /\ granted \in [Key -> Seq(0 .. now)]

(* A request is refused exactly when its key has had max_requests in the      *)
(* current window: requests of other keys and of earlier windows, on which    *)
(* the one stored counter is reused, never count against it.                  *)
RefusedIffExhausted ==
  \A k \in Key :
    Exhausted(k) <=> GrantedIn(k, WindowIndex(now) * Window, now) >= MaxRequests

(* Over any stretch of time as long as a window, aligned or not, a key gets   *)
(* at most twice max_requests: the burst across a boundary is bounded.        *)
BurstBounded ==
  \A k \in Key : \A t \in 0 .. now :
    GrantedIn(k, t, IF t + Window - 1 < now THEN t + Window - 1 ELSE now) <= 2 * MaxRequests
=============================================================================
