# Constellation Gate: TLA+ models, checks and proofs

Constellation Gate (`src/constellation-gate/src/constellation_gate/`) is the routing process of a
constellation of worker nodes. A caller posts one *TransportPacket*; Gate validates it, admits it,
looks for a cached answer, and either dispatches it to the worker that owns its action or runs a
workflow of several dispatches, all within the packet's one time budget. It is one Python process on
one asyncio event loop; nothing is persisted.

Paths below are relative to `src/constellation-gate/src/constellation_gate/`.

## 1. Inventory

| Component | State | Operations | Hard behaviour |
|---|---|---|---|
| Node registry `routing/node_registry.py`, ownership `routing/action_ownership.py` | name -> registration (actions, owner tag, address, ceiling, health, load) | load_from_yaml, register_node, resolve_action, resolve_destination, mark_healthy/unhealthy, increment/decrement_active | re-registration under running calls; ownership checked from the newcomer's side only |
| Dispatcher `routing/dispatch.py`, limiter `runtime/node_limits.py` | limits and permits per node | dispatch, ensure_node_limit, acquire, release | two awaits per dispatch; two counters of one load; many ways out |
| Health monitor `routing/health_monitor.py` | task, snapshot of a round | start, stop, probe_once | writes back what it compared with a stale snapshot |
| Execution service `services/execute_service.py` | in-flight counter | execute | admission, cache, replay guard, deadline, cancellation |
| Circuit breaker `resilience/circuit_breaker.py` | state, failure count, opened_at | before_call, record_success, record_failure | outcomes arrive in another state than the one that admitted |
| Idempotency store, replay guard, dead-letter queue, load shedding `resilience/` | cache, seen packets, entries | get/set_for_packet, check_and_record, put, enforce | expiry, redelivery, tenants, bounds |
| Rate limiter `resilience/rate_limiter.py` | counter per source | allow, decision_for | window boundaries |
| Retry policy, deadline, replay safety `resilience/` | attempt, elapsed time | run, decision_for, max_attempts_for | sleeps against the budget, late wake-ups |
| Workflow engine `orchestration/workflow_engine.py`, conditions `orchestration/condition_eval.py` | step, payload, last response | execute, _merge_payload, _step_timeout_ms | failing steps, one budget for all, merge order |
| Admin registration `services/admin_registration_service.py` | none | register (a batch) | a batch that fails half way |
| Settings `config/settings.py`, ingress validation `boundary/ingress_validator.py`, admission probe `services/admission_service.py` | settings, frozen at start | the settings validators, validate, validate_admission, admit | what starts and what passes is decided in two places, what a probe promises in a third |
| Routing readiness `runtime/routing_readiness.py` | none | action_routability, routing_readiness | agreement with routing; a report that asks for no token |
| Lifespan `api/main.py`, wiring `api/dependencies.py`, HTTP client `runtime/http_client.py` | client, monitor task, cached services | startup, shutdown, get_execute_service, _pooled_client | failed startups, a second lifespan in one process, probes and calls under shutdown, what is built lazily |
| API errors `api/errors.py` | none | to_http_exception | exceptions of two classes, so the order of the branches decides |
| Capability service `services/capability_service.py` | none | list_capabilities, get_capability | what refusals and digests reveal |
| Packet factories `boundary/`, schemas, observability | counters | - | - |

Interaction: `ExecuteService.execute` calls the guards of `resilience/`, then `Dispatcher.dispatch` or
`WorkflowEngine.execute` (which calls the dispatcher once per step) inside `RetryPolicy.run` inside
`asyncio.wait_for`. The dispatcher reads and writes the registry and the limiter; the health monitor
and the admin API write the same registry at any time. What makes each part correct is the list
`hazards` of `PROJECT.json`, each at its line, with the properties that cover it.

## 2. How the code becomes actions

All of Gate runs on one event loop, so what lies between two awaits is one step.

* `dispatch` awaits in `acquire` (`asyncio.sleep(0)`, with the permit already taken) and in the call
  to the worker. Hence three steps: *Admit* (or *RefuseAtLimit*), *Enter* (or *EnterRefused*), and one
  of *Finish*, *FailOver*. The connection failure is reported (*ConnectionFails*) before the task
  runs on, so registrations and probes may come between, and a cancellation may overtake it.
* `wait_for` cannot strike in the first await: the budget was checked to be unspent in the same step,
  and the sleep lasts one turn of the loop. Only a cancellation from outside (the server going down)
  could leave a permit behind there, and the server waits for its requests before it ends the lifespan.
* `execute` first awaits inside the execution: everything from the rate limiter to the replay guard is
  one step (*Start*, *AnswerFromCache*, *RefuseReplay*), and everything after it is one step (*Return*,
  *Raise*, *Cancel*). An action without a worker fails without any await; the model starts it and
  raises later, which only adds behaviours.
* Every registry method holds one lock: one step. A batch of registrations awaits nothing between its
  entries: one step too (*RegisterBatch*), although it is no transaction.
* The lifespan awaits the monitor's task and `aclose`: *BeginShutdown* (the event is set),
  *CloseClient* (the task has ended), *ForgetClient* (`aclose` returned). `startup` creates the
  client without giving up the loop, and the monitor's task first runs after it.
* Validation and the rate limiter come before the first await: *Ingest* is one step, and a packet that
  either refuses leaves nothing behind. `ExecuteService` starts where *Ingest* ends.

## 3. Modules

* `NodeRegistry` - the registry and the ownership rules. Node names are numbers, ordered like the
  names; owner aliases are functions (`TagOwner`, `NameOwner`). `MCNodeRegistry` gives two canonical
  owners, an unknown owner, and alias names.
* `Dispatch` (extends `NodeRegistry`) - concurrent dispatches, the limiter, the health monitor,
  workers that crash and return, and re-registrations. A packet addressed to Gate is routed by its
  action, a Gate-authored one that names its worker (`ByAddress`) to that worker (`routing/resolver.py`). `MCDispatch` gives replicas and ceilings.
* `WorkerSlots` - the abstract specification of dispatching: calls that take a slot where the ceiling
  of the moment leaves room, and give it back. `Dispatch` implements it (`ImplementsSlots`) with the
  refinement mapping `PlaceOf` (the worker whose permit a task holds) and `CeilingOf` (the ceiling its
  registration has now, 0 for a node not registered): permits, load counters, probes and the awaits
  between them disappear.
* `AdminApi` (extends `NodeRegistry`) - batches of registrations, what the registry and capability
  routes tell callers with and without the admin token, and what `GET /v1/ready` tells everybody. `MCNodeRegistry` instantiates it.
* `CircuitBreaker` - the breaker's state and operations, as actions on its three variables.
* `ExecuteService` (extends `CircuitBreaker`) - concurrent requests: load shedding, breaker, cache,
  replay guard, dead letters, and the budget of each packet: its own timeout or the default, less the
  response margin when it can afford it. Time is kept as ages, each of which stops growing at the first
  value the code treats as too old. `MCExecuteService` gives packets of two tenants with one raw key.
* `RateLimiter` - the fixed windows per source node.
* `Ingress` (extends `RateLimiter`) - the settings Gate starts with, the validation of a packet under
  them, the admission probe, and the limiter behind the validation. Settings that are read at startup
  only (evidence, admin token, development mode) are quantified away in `Starts`; a packet has a key
  id, a signature that is the key's or is not, a source, a tenant and an action. `MCIngress` gives two
  keys with overlapping policies.
* `ApiErrors` - the exceptions that reach `POST /v1/execute`, the classes they are instances of, and
  the branches of `to_http_exception` as a sequence in the order of the code.
* `RetryPolicy` (extends `ApiErrors`) - one request from its arrival to its status: the gates that
  refuse, the attempts with deadline, back-off and replay safety, the outer `wait_for`, and the HTTP
  status of what failed.
* `Lifespan` - a process that starts, serves and stops, more than once: the shared client, the
  monitor's loop, the execute service built by the first request, and the requests that use them.
  Building the service loads the workflow file and validates its steps against the registry of that
  moment; of the registry the module keeps what the validation reads (`advertised`): nothing
  registered yet, some action of a step missing, or all there. Clients are numbered as they are made.
* `Conditions` - the condition evaluator as a recursive function over expressions (truth values,
  comparisons, arithmetic), and what the same expression means in the language, where `and`, `or` and
  chains stop early and `and` and `or` give one of their operands.
* `WorkflowEngine` (extends `Conditions`) - the step loop. A payload maps each key to the step that wrote it, so the merge
  strategies and their order are visible while values are not. `MCWorkflowEngine` gives definitions.
* `NodeRegistryProofs`, `DispatchProofs`, `ExecuteServiceProofs`, `IngressProofs`, `RetryPolicyProofs`,
  `WorkflowEngineProofs`, `LifespanProofs` - theorems and proofs; `Extremes` - the lemmas that a bounded
  set of naturals that is not empty has a least and a greatest member, which three of them need.

A definition whose name ends in `_Something` and whose comment says *Mutant* is a plausible bug in the
definition below it: with it in place the run named in `PROJECT.json` must find its property violated.

The worker, and the node SDK that carries the call, are outside this repository: a worker is up or
down (`WorkerChanges`), and a call ends in an answer, a connection failure or another failure.

## 4. Runs

| Run | Shows |
|---|---|
| `registry` | ownership of actions, agreement of readiness with routing, batches that may be sent again, and views that tell a caller without the token nothing of canonical actions but what the public readiness report says of the seam, under any sequence of calls: 2 nodes, 3 actions, 4 tags, batches of 2 entries |
| `dispatch` | permits exact, load counters never too high, and `Dispatch` implements `WorkerSlots`: 3 dispatches, 2 workers, crashes, probes, re-registrations, the ceiling of one worker changing between 1 and 2 under running calls |
| `health_live` | health marks come to agree with a worker that stays as it is, and every call gives its slot back |
| `execute` | counters, duplicates only beyond the replay window, cache isolation, reuse, breaker, and that an open breaker reaches the end of its recovery time: 4 packets, one with a timeout longer than the window, 2 tenants, 2 actions, 3 slots, limit 2 |
| `ingress` | under all settings Gate starts with (68 combinations): what passes is covered by a proven key's policy, probes are told what execute does, quotas are spent by their owners, refused exactly and bounded in bursts: 2 keys, 2 sources, 2 tenants, 2 actions, quota 2 |
| `retry` | attempts and sleeps stay within the budget, only declared, keyed operations are repeated, every request is answered, and its status tells timeouts, refusals and faults apart, for all 21 exceptions |
| `workflow` | one budget for all steps; every key has its last writer; conditions decide as they read: up to three steps |
| `lifespan` | no probe or call on a closed client, no client lost, shutdown ends after at most one round of probes: 3 requests, up to 3 nodes, 3 clients |
| `network_boundary`, `identity_merge`, `step_failure`, `workflow_startup` | where the code does other than a document or comment says (section 7) |

Bounds. Three dispatches are one more than the largest ceiling, so a saturated worker is always within
reach; two workers are what the choice of a worker and its tie-breaks compare. In `execute` the three
slots exceed the limit of two, and each of budget, window and lifetime is long enough to be reached
and passed; one packet has a timeout of 3, a budget of 2 after the margin, and so outlasts the window
of 1 (two executions of it do overlap in the run), the others have none and get the default; four packets give a redelivery, two packets of one operation, another tenant and another
action. Packets without a key skip the cache; they are covered by the proofs, not by this run.
`lifespan` makes up to three clients, so that a lifespan is entered again after a shutdown and after a
failed startup; three nodes are enough for a stop to meet the first, a middle and the last probe of a
round. `ingress` spans a whole window and the beginning of the next, enough for a burst across the
boundary; the policy of one key is narrower than the other's in every respect, and Gate may sign with
a key that has a policy. In `workflow` a node cap of 2 within a
budget of 3 lets one slow step starve the next, declared timeouts lie below and above the budget, and
a step without one inherits that of the packet before it, which has one (1) or none (`HeaderTimeout`);
what a response says of its success is fixed there (`Verdict`), as the engine never reads it, and free
in `step_failure`. Pairs of steps take every strategy and conditions of every operator; triples take the strategies in
every order; values 0, 1 and 2 tell a truth value from another true operand. `FailureCap`, `MaxCeiling`, `Horizon` and `Late` bound the failure counter (compared with
the threshold only), registered ceilings, the clock and the lateness of the loop.

Deadlock is checked for the systems that run for ever. `ingress`, `retry` and the workflow runs end by
design: the clock stops, or the packet is answered. `MaxClients` bounds the lifespans of a process,
`MaxNodes` the probes of a round.

Fairness (`FairSpec`). `Dispatch`: the loop runs every ready task, `wait_for` ends every call, and the
monitor's loop survives any failing round. Nothing is assumed of workers, callers or registrations.
`ExecuteService`: time passes, and the budget ends every execution. No request has to arrive.
`RetryPolicy`: time passes and the timer of `wait_for` fires; an attempt may never end by itself.
`Lifespan`: tasks run, probes have timeouts, requests have budgets and `aclose` returns; nobody has to
stop the process or start it again.

## 5. Proofs

All theorems hold for every value of the constants that meets the named assumptions.

* `NodeRegistryProofs`, about the registry with single registrations and batches (`AdminSpec`).
  `TypeCorrect`; `OwnershipHolds`: canonical actions stay with their owners and no two owners share an
  action. The two are proved together: a newcomer that names no owner is admitted to a canonical
  action never, and to any other action always, and *no mixed replicas* needs both what the check
  compares and what the table already satisfies. A batch is an induction over its entries, which the
  prover does not have: the proof takes the first prefix whose table would break the rules
  (`Extremes`), and shows that its last entry would not have been admitted. The theorem assumes that
  the seed file declares its owners, which `load_from_yaml` does not check. `ReplicasUnmixed` and
  `ReadinessAgrees` follow; the latter also needs that the order of the choice has a least element in
  every set of candidates, one comparison after the other. `ActiveBounded`. `RepeatHolds`: the table
  after a batch is a fixed point of each of its prefixes, and the entries of an accepted batch admit
  each other, since sharing an action is mutual. `PublicViewHolds`: each guarded view is a function of the
  actions that are not protected, and the readiness report of the registrations that serve a seam
  action, address apart: no clause of the choice of a worker or of its owner reads anything else
  (`SeamEntry`, `SeamRoutability`, `SeamReport`).
* `DispatchProofs`. `Invariance` proves `Inv`: types, exact permits and the load bound.
  From it follow `DispatchTypeCorrect`, `PermitAccounting`, `LoadAccounting` and `PermitAuthority`: a holder waiting in `acquire` is one of the permits and not
  yet one of the counted calls, so a counter at its ceiling means more permits than the ceiling. Permits are a cardinality over tasks, so each step is a lemma on how one task
  enters or leaves a finite set. The load bound is an inequality because a node that registers again
  starts at zero while calls of its earlier registration still run; it needs the flooring of the
  decrement and the exactness of which tasks are counted. `Refinement` is the step simulation of
  `WorkerSlots`: *Admit* takes a slot, where exact permits turn the limiter's comparison into the
  cardinality of the abstract one; *Finish*, *FailOver* and *EnterRefused* give it back; a
  registration resizes; every other step stutters. `RoutingStaysOwned` carries the ownership rules
  and the truth of readiness over to the registry under running calls: every step is a call of one
  registry method, but for *FailOver*, which makes two and keeps actions and tags. `CallsStayOwned`:
  no packet addressed to Gate starts a canonical action on a node of another owner (one that names
  its worker goes there whatever the worker serves).
* `ExecuteServiceProofs`. `Invariance` proves types and six facts together. `DuplicatesExcluded`
  assumes nothing of how budgets and window compare: an execution within the replay window has a
  record with the guard, no older than itself (`SeenWhileRunning`), so that a second one means that
  the first has run for longer than the window, and its budget with it (`WithinBudget`); `CacheIsolation` that every entry lies under the identity of
  the packet that produced it; `AnswersReused` that an identity answered less than the lifetime ago
  has an entry no older. `InFlightAccounting`, `BreakerCoherent` and `ExecuteTypeCorrect` follow.
* `IngressProofs`. `Invariance`: the settings are some that start, and the last packet let through
  passed them. `ScopeHolds` needs both halves: the validator asks for a policy, and only the settings'
  validators make sure that policies come with signatures that prove the key. `QuotaHolds` follows for
  the limiter behind it, and `ProbeIsAuthoritative` compares the two validations.
  `IngressTypeCorrect` bounds the limiter's counters; that windows never go back is a lemma on
  division. `QuotaInvariance` (`QuotaKept`): the one counter of a key is the number of its requests in
  the current window, and no window ever held more than the quota; the requests of a window are a
  finite set that a request joins and that the clock empties. `RefusalsAreDeserved` follows at once,
  and `BurstsAreBounded` because a stretch as long as a window meets two windows at most.
* `RetryPolicyProofs`. `RetryInv` adds to the types what each phase says of the attempt
  (a sleeper has an attempt left) and of the exception (by how far the request came). From it
  `RepeatsAreDeclared`, `SleepsAreShort` and `NoLateAttempt`, for any delays, ceilings and budgets;
  `StatusIsTrue` (timeouts, refusals and faults are told apart) follows from the status of each
  exception, computed from the branches. That powers of naturals are naturals is an assumption
  (`DelaysAreTicks`), since the provers know nothing of powers; TLC evaluates it.
  `RequestsAreFinite`: every step lowers `StepsLeft`, a natural number.
* `WorkflowEngineProofs`. `TimeInv`: types, the loop within its definition, every attempt within the
  budget. `LastWriterWins` on top: the merge of one step makes it the greatest decider of the keys it
  decides about and leaves the deciders of the others as they were. Definitions have any length.
  `ConditionsHold`, for expressions of any depth: that an expression is finite is the assumption that
  every set of expressions has one none of whose operands is in the set. From it the evaluator's
  recursive function exists and is unique (`EvaluationExists`, `EvaluationUnique`), and a least
  expression on which evaluator and language differed would have operands on which they agree.
* `LifespanProofs`. `LifespanInv`: an open client is there in the phases in which a loop or a request
  can be, and nobody else has one. `OpenClients`, `ClientsKept` and `StopBounded` follow.
  `ShutdownIsFinite`: from the stop event on every step but an edit of files lowers `StopStepsLeft`;
  it needs that a loop that runs is one the event reaches (`StopReaches`).

Only model-checked: the liveness properties (`HealthFollowsWorker`, `CallsEnd`, `BreakerRecovers`,
`EveryRequestAnswered`, `ShutdownEnds`), since the prover does not reach fairness and `ENABLED`. For
the last two the half without fairness is proved: `RequestsAreFinite` and `ShutdownIsFinite` say that
there is no infinite way round. Every invariant and every action property that a run checks is also
stated by a theorem. Only proved: `ActiveWithinCeiling`, `SleepsWithinBudget`, `QuotaKept`, ownership
under running calls, and the registry's own types (which are part of `Dispatch.TypeOK`, checked by
`dispatch`).

## 6. Assumptions to know of

* The replay guard promises no more than its window: 300 s, where the default budget is 30 s. A caller
  may send any `timeout_ms` (`resilience/timeout_policy.py:26`, and the packet schema has no maximum);
  a packet that may run for longer than the window is executed a second time, next to the first, when
  it is delivered again after the window. `NoConcurrentDuplicate` says that this is the only way.
* The replay guard reads the wall clock (`datetime.now`), all other parts the monotonic one. The model
  has one clock; a jump of the wall clock forward would shorten the window.
* The shipped registry of replay-safe actions is empty, so production makes one attempt;
  `RetryPolicy` also covers one that is not, and `ExecuteService` sees the attempts as one execution.
* The queue-depth provider returns 0, so backpressure never refuses. `clear` and `prune` have no
  caller in the source.
* The ownership theorems assume a seed file whose entries declare their owners, as
  `config/node_registry.yaml:5-6` demands; `load_from_yaml` does not check it.
* `resolve_action` compares loads and not free capacity: a saturated worker of a small ceiling may be
  picked, and the request refused, although a larger one has room. No document promises otherwise.

## 7. Where code and documents disagree

| Run | Document | Code |
|---|---|---|
| `network_boundary` | an external authenticated boundary is one of two ways to run in staging and prod | such a Gate must have no caller policies (they need signatures) and refuses every packet without one |
| `workflow_startup` | "Fails fast on invalid path or malformed file - startup aborts cleanly" (`api/dependencies.py:278`) | the workflow file is loaded by the first request; Gate starts, and each request is answered with a 400 |
| `identity_merge` | "`identity` - pass current payload unchanged" (`contracts/WORKFLOW_SPEC.md:85`, `docs/workflow-engine.md:80-82`) | the response replaces the payload (`orchestration/workflow_engine.py:195`) |
| `step_failure` | "step failure terminates workflow" | a failure packet is merged and the workflow goes on |

More were met while modelling and have no run. The breaker's docstring says that a success in
HALF_OPEN closes it, after the recovery time; `record_success` closes it in any state, so a call
admitted before the trip that succeeds late closes an open breaker at once
(`CircuitBreaker.RecordSuccess`). `docs/ingress-policy.md:104` answers an open circuit and a saturated
node with 503; the code answers the first with 429 (`api/errors.py:61`) and the second, for which it
has no branch, with 500 (`ApiErrors.Branches`). `dispatch.py:143-146` calls the permit "the
authoritative admission gate", but after a re-registration with a smaller ceiling the registry's
counter refuses a holder of one (`Dispatch.EnterRefused`; `PermitPrevails` says when). The receipt of
an admission probe is to tell a key "exactly its granted actions"
(`tests/api/test_admission_endpoint.py:99`), but does not read `L9_ALLOWED_ACTIONS`, which execute
applies (`Ingress.ProbeIsExact` excepts it). A condition such as `"k" in payload and payload["k"]`
raises where `k` is absent (`Conditions.Eval`), and `(a and b) == c` compares a truth value with `c`
where the language compares one of `a` and `b` (`Conditions.UsesChoice`;
`WorkflowEngine.ConditionsDecideRightly` is about the other conditions). The timeout a step declares,
which `contracts/WORKFLOW_SPEC.md:79` calls an override, is replaced by the dispatcher's own budget
(`WorkflowEngine.WorkerBudget`).

## 8. Not modelled

The node SDK's own validation of a packet but for its signature and action; packet factories, parsing
of the environment, the providers that only hand settings on, copies of the registry, schemas and
observability; the priority queue and the admission controller, which nothing in the source calls.
Division, strings and literals of collections in conditions. The scripts that validate contracts and
pins are tools of the build. A process that is killed leaves nothing behind, since nothing is
persisted: a restart is `Init`. `PROJECT.json` gives the reasons.

## 9. Plan

Done, in the order of importance: registry and ownership; dispatch over it, and the slots it
implements; execution service with the breaker; ingress over the rate limiter; one request with its
retries and its status; conditions and workflow engine; the administrative routes; the lifespan;
proofs about all of them.

Next:
1. `WorkflowEngine` over `Dispatch`: several workflows sharing workers.
2. An abstract specification *at most one execution per operation within its lifetime*, implemented by
   `ExecuteService`.
3. The legacy syntax of the workflow file.
4. `PriorityQueue`, once something in the source uses it.
