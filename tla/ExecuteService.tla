--------------------------- MODULE ExecuteService ---------------------------
(***************************************************************************)
(* ExecuteService.execute (services/execute_service.py): the admission     *)
(* gates, the response cache (resilience/idempotency.py), the replay guard *)
(* (resilience/replay_guard.py), the execution under the packet's budget   *)
(* and what each way of ending it does to the circuit breaker, the cache   *)
(* and the dead-letter queue, for concurrent requests of one process.      *)
(*                                                                         *)
(* execute first awaits inside the execution: all that comes before, from  *)
(* the first gate to the replay guard, is one step of the event loop, and  *)
(* so is all that follows the execution.                                   *)
(*                                                                         *)
(* Time is kept as ages that one Tick advances together.  No age grows     *)
(* beyond the first value its comparison treats as "too old".              *)
(***************************************************************************)
EXTENDS CircuitBreaker, FiniteSets, Sequences

CONSTANTS
  Request,       \* slots for requests whose execution may run at one time
  Packet,        \* packets, each one a packet_id
  Tenant, ActionName, Key,
  TenantOf, ActionOf,  \* packet.tenant.org_id and header.action, normalised
  KeyOf,               \* header.idempotency_key
  NoKey,               \* no key, or a blank one
  MaxInFlight,   \* LoadSheddingPolicy
  TimeoutOf,       \* header.timeout_ms in ticks, 0 for none; no maximum
  DefaultTimeout,  \* TimeoutPolicy.default_timeout_ms, in ticks
  ResponseMargin,  \* TimeoutPolicy.response_margin_ms, in ticks
  ReplayWindow,  \* ReplayGuard.window, in ticks
  Ttl,           \* IdempotencyStore._ttl, in ticks
  MaxEntries,    \* DeadLetterQueue.max_entries
  Idle,          \* a free slot
  Nothing        \* no entry, no answer

Identity == Tenant \X ActionName \X Key

(* An answer is told by the packet it answers and by whether it is a terminal *)
(* success.                                                                   *)
Answer == [by : Packet, ok : BOOLEAN]

Running == [packet : Packet, elapsed : Nat]

ASSUME ExecuteAssumption ==
  /\ IsFiniteSet(Request)
  /\ TenantOf \in [Packet -> Tenant]
  /\ ActionOf \in [Packet -> ActionName]
  /\ KeyOf \in [Packet -> Key \cup {NoKey}]
  /\ NoKey \notin Key
  /\ TimeoutOf \in [Packet -> Nat]
  /\ ResponseMargin \in Nat
  /\ {MaxInFlight, DefaultTimeout, ReplayWindow, Ttl, MaxEntries} \subseteq Nat \ {0}
  /\ Idle \notin Running
  /\ Nothing \notin Nat /\ Nothing \notin Answer
  /\ Nothing \notin [answer : Answer, age : 0 .. Ttl]

VARIABLES
  running,   \* the execution in each slot
  inFlight,  \* ExecuteService._in_flight_requests
  cache,     \* IdempotencyStore._store
  seen,      \* ReplayGuard._seen: how long ago each packet was accepted
  dlq,       \* DeadLetterQueue.entries
  served,    \* history: the request this step answered from the cache
  answered   \* history: how long ago a terminal success was returned

vars == <<running, inFlight, breakerVars, cache, seen, dlq, served, answered>>

Busy == {r \in Request : running[r] # Idle}

-----------------------------------------------------------------------------
(* The response cache and the replay guard *)

(* Mutant: the raw key and the action only. *)
IdentityOf_NoTenant(p) == <<CHOOSE t \in Tenant : TRUE, ActionOf[p], KeyOf[p]>>

(* idempotency_namespace_key *)
IdentityOf(p) == <<TenantOf[p], ActionOf[p], KeyOf[p]>>

(* Mutant: one tick less than the declared lifetime. *)
Live_OffByOne(k) == cache[k] # Nothing /\ cache[k].age + 1 < Ttl

Live(k) == cache[k] # Nothing /\ cache[k].age < Ttl

Hit(p) == KeyOf[p] # NoKey /\ Live(IdentityOf(p))

(* A lookup drops the entry it finds expired. *)
LookUp(p) ==
  cache' = IF KeyOf[p] # NoKey /\ ~Live(IdentityOf(p))
             THEN [cache EXCEPT ![IdentityOf(p)] = Nothing]
             ELSE cache

(* Mutant: the failure of an attempt is cached too. *)
Store_AnyAnswer(p, ok) ==
  cache' = IF KeyOf[p] # NoKey
             THEN [cache EXCEPT ![IdentityOf(p)] = [answer |-> [by |-> p, ok |-> ok], age |-> 0]]
             ELSE cache

(* set_for_packet, for a terminal success only. *)
Store(p, ok) ==
  cache' = IF ok /\ KeyOf[p] # NoKey
             THEN [cache EXCEPT ![IdentityOf(p)] = [answer |-> [by |-> p, ok |-> ok], age |-> 0]]
             ELSE cache

(* Mutant: the last moment of the window is open. *)
Replayed_OffByOne(p) == seen[p] # Nothing /\ seen[p] < ReplayWindow

Replayed(p) == seen[p] # Nothing /\ seen[p] <= ReplayWindow

(* check_and_record first forgets every packet older than the window. *)
Expired == [p \in Packet |-> IF seen[p] # Nothing /\ seen[p] > ReplayWindow THEN Nothing ELSE seen[p]]

-----------------------------------------------------------------------------
(* Admission *)

(* Mutant: the limit is passed by one. *)
Sheds_OffByOne == inFlight > MaxInFlight

Sheds == inFlight >= MaxInFlight

(* Past the rate limiter, the load shedding and the breaker.  A request any   *)
(* of them refuses changes nothing here (the counters of the rate limiter     *)
(* are not part of this module: it may refuse any request).                   *)
Admitted == ~Sheds /\ BeforeCall

(* The request is answered from the cache.  It counts as in flight from       *)
(* before the lookup to the return, which is all within this step.            *)
AnswerFromCache(p) ==
  /\ Admitted
  /\ Hit(p)
  /\ served' = [to |-> p, answer |-> cache[IdentityOf(p)].answer]
  /\ UNCHANGED <<running, inFlight, cache, seen, dlq, answered>>

(* The replay guard refuses the packet: ValueError. *)
RefuseReplay(p) ==
  /\ Admitted
  /\ ~Hit(p) /\ LookUp(p)
  /\ Replayed(p)
  /\ seen' = Expired
  /\ served' = Nothing
  /\ UNCHANGED <<running, inFlight, dlq, answered>>

(* The execution starts. *)
Start(r, p) ==
  /\ running[r] = Idle
  /\ Admitted
  /\ ~Hit(p) /\ LookUp(p)
  /\ ~Replayed(p)
  /\ seen' = [Expired EXCEPT ![p] = 0]
  /\ running' = [running EXCEPT ![r] = [packet |-> p, elapsed |-> 0]]
  /\ inFlight' = inFlight + 1
  /\ served' = Nothing
  /\ UNCHANGED <<dlq, answered>>

-----------------------------------------------------------------------------
(* The end of an execution *)

(* Mutant: the request stays counted. *)
Release_KeepCount(r) ==
  /\ running' = [running EXCEPT ![r] = Idle]
  /\ served' = Nothing
  /\ UNCHANGED <<inFlight, seen>>

(* The finally clause. *)
Release(r) ==
  /\ running' = [running EXCEPT ![r] = Idle]
  /\ inFlight' = inFlight - 1
  /\ served' = Nothing
  /\ UNCHANGED seen

(* A packet comes back, be it a terminal success or a failure the worker      *)
(* reports; the breaker takes both for a success.                             *)
Return(r, ok) ==
  /\ running[r] # Idle
  /\ RecordSuccess
  /\ Store(running[r].packet, ok)
  /\ answered' = IF ok /\ KeyOf[running[r].packet] # NoKey
                   THEN [answered EXCEPT ![IdentityOf(running[r].packet)] = 0]
                   ELSE answered
  /\ Release(r)
  /\ UNCHANGED dlq

(* Mutant: the queue is not trimmed. *)
Put_Unbounded(p) == dlq' = Append(dlq, p)

(* Beyond max_entries the oldest entry goes. *)
Put(p) ==
  dlq' = IF Len(dlq) < MaxEntries THEN Append(dlq, p) ELSE Append(Tail(dlq), p)

(* The execution raises: a worker or routing error, or the budget is spent.   *)
(* An action without a worker fails here as well, in the step that starts it: *)
(* the model may let other steps come between.                                *)
Raise(r) ==
  /\ running[r] # Idle
  /\ RecordFailure
  /\ Put(running[r].packet)
  /\ Release(r)
  /\ UNCHANGED <<cache, answered>>

(* The server cancels the request: CancelledError is no Exception, so only    *)
(* the finally clause runs.                                                   *)
Cancel(r) ==
  /\ running[r] # Idle
  /\ Release(r)
  /\ UNCHANGED <<breakerVars, cache, dlq, answered>>

-----------------------------------------------------------------------------
(* Time *)

Advertised(p) == IF TimeoutOf[p] = 0 THEN DefaultTimeout ELSE TimeoutOf[p]

(* TimeoutPolicy.budget_ms: what the packet advertises, less the margin when  *)
(* it can afford it.                                                          *)
BudgetOf(p) ==
  IF ResponseMargin > 0 /\ Advertised(p) > 2 * ResponseMargin
    THEN Advertised(p) - ResponseMargin
    ELSE Advertised(p)

Older(age, last) == IF age < last THEN age + 1 ELSE age

(* wait_for ends an execution before its budget is exceeded. *)
Tick ==
  /\ \A r \in Busy : running[r].elapsed < BudgetOf(running[r].packet)
  /\ running' = [r \in Request |-> IF r \in Busy THEN [running[r] EXCEPT !.elapsed = @ + 1] ELSE Idle]
  /\ BreakerAges
  /\ cache' = [k \in Identity |-> IF cache[k] = Nothing THEN Nothing
                                  ELSE [cache[k] EXCEPT !.age = Older(@, Ttl)]]
  /\ seen' = [p \in Packet |-> IF seen[p] = Nothing THEN Nothing ELSE Older(seen[p], ReplayWindow + 1)]
  /\ answered' = [k \in Identity |-> Older(answered[k], Ttl)]
  /\ served' = Nothing
  /\ UNCHANGED <<inFlight, dlq>>

-----------------------------------------------------------------------------
Init ==
  /\ running = [r \in Request |-> Idle]
  /\ inFlight = 0
  /\ BreakerInit
  /\ cache = [k \in Identity |-> Nothing]
  /\ seen = [p \in Packet |-> Nothing]
  /\ dlq = <<>>
  /\ served = Nothing
  /\ answered = [k \in Identity |-> Ttl]

Ends(r) == (\E ok \in BOOLEAN : Return(r, ok)) \/ Raise(r) \/ Cancel(r)

Next ==
  \/ \E p \in Packet : AnswerFromCache(p) \/ RefuseReplay(p)
  \/ \E p \in Packet, r \in Request : Start(r, p)
  \/ \E r \in Request : Ends(r)
  \/ Tick

(* Time passes, and the budget ends every execution; no request has to come.  *)
Fairness == WF_vars(Tick) /\ \A r \in Request : WF_vars(Ends(r))

Spec == Init /\ [][Next]_vars

FairSpec == Spec /\ Fairness

-----------------------------------------------------------------------------
(* Properties *)

(* Every variable keeps its shape; no execution outlives its packet's budget  *)
(* and the dead-letter queue never outgrows max_entries.                      *)
TypeOK ==
  /\ running \in [Request -> Running \cup {Idle}]
  /\ \A r \in Busy : running[r].elapsed <= BudgetOf(running[r].packet)
  /\ inFlight \in Nat
  /\ BreakerTypeOK
  /\ cache \in [Identity -> [answer : Answer, age : 0 .. Ttl] \cup {Nothing}]
  /\ seen \in [Packet -> (0 .. ReplayWindow + 1) \cup {Nothing}]
  /\ dlq \in Seq(Packet) /\ Len(dlq) <= MaxEntries
  /\ served \in [to : Packet, answer : Answer] \cup {Nothing}
  /\ answered \in [Identity -> 0 .. Ttl]

(* The counter load shedding reads is the number of executions: no way out of *)
(* execute leaks a count, and there are never more executions than allowed.   *)
InFlightExact == inFlight = Cardinality(Busy) /\ inFlight <= MaxInFlight

(* Two executions of one packet only overlap when the packet's own timeout    *)
(* outlasts the replay window, and then the second delivery came more than a  *)
(* window after the first: short of that the earlier execution has spent its  *)
(* budget before the guard forgets it (replay_guard.py, ADR-GATE-011, with    *)
(* timeout_policy.py, which takes any timeout a caller sends).                *)
NoConcurrentDuplicate ==
  \A r, s \in Busy : running[r].packet = running[s].packet /\ r # s =>
    /\ BudgetOf(running[r].packet) > ReplayWindow
    /\ \/ running[r].elapsed > running[s].elapsed + ReplayWindow
       \/ running[s].elapsed > running[r].elapsed + ReplayWindow

(* A caller answered from the cache gets a terminal success of its own        *)
(* tenant, for its own action and key (idempotency.py, ADR-GATE-009; a cached *)
(* failure would defeat the retry the key exists to make safe, SEAM-013).     *)
CachedAnswerIsOwn ==
  served # Nothing =>
    LET mine == served.to  producer == served.answer.by IN
    /\ served.answer.ok
    /\ TenantOf[mine] = TenantOf[producer]
    /\ ActionOf[mine] = ActionOf[producer]
    /\ KeyOf[mine] = KeyOf[producer]

(* An operation whose terminal success was returned less than the lifetime    *)
(* ago is not executed again, neither for a redelivery nor for a new packet   *)
(* with the same key, and whatever other executions of it end in between.     *)
StartsUnanswered ==
  \A r \in Request :
    running[r] = Idle /\ running'[r] # Idle =>
      LET p == running'[r].packet IN KeyOf[p] # NoKey => answered[IdentityOf(p)] = Ttl

AnswerIsReused == [][StartsUnanswered]_vars

(* An open breaker comes to the end of its recovery time, or closes: the      *)
(* executions it let through before it tripped may fail late and start its    *)
(* recovery time anew, but it admits no others.                               *)
BreakerRecovers == breaker = "open" ~> (breaker # "open" \/ openAge = Recovery)
=============================================================================
