------------------------------ MODULE Dispatch ------------------------------
(***************************************************************************)
(* Concurrent dispatches of one Gate process (routing/dispatch.py) over    *)
(* the node registry, the per-node limiter (runtime/node_limits.py) and    *)
(* the health monitor (routing/health_monitor.py), while workers crash and *)
(* come back and while nodes register again.                               *)
(*                                                                         *)
(* The process is one asyncio event loop: what lies between two awaits is  *)
(* one step.  A dispatch awaits twice, inside acquire (the permit is taken *)
(* already) and in the call to the worker.  The packet budget can only     *)
(* cancel it in the second await: see the README.                          *)
(***************************************************************************)
EXTENDS NodeRegistry, FiniteSets

CONSTANTS
  Task,      \* dispatches that may run at the same time
  ByAddress, \* the route of a Gate-authored packet that names its worker
  Offer,     \* the <<name, registration>> pairs workers register with
  NoTarget,  \* no target resolved yet
  NoProbe    \* the monitor waits for no answer

(* A seed file describes workers, never running dispatches. *)
ASSUME DispatchAssumption ==
  /\ IsFiniteSet(Task)
  /\ ByAddress \notin Action
  /\ \A file \in YamlFile : \A n \in KnownIn(file) : file[n].active = 0
  /\ Offer \subseteq Node \X Fresh
  /\ NoTarget \notin [node : Node, url : Url] /\ NoTarget \notin Node
  /\ NoProbe \notin [node : Node, healthy : BOOLEAN]
  /\ Absent \notin [url : Url, healthy : BOOLEAN]

VARIABLES
  limit,    \* PerNodeLimiterManager._limits, 0 for a node it has not seen
  permits,  \* PerNodeLimiterManager._active
  pc,       \* where each dispatch stands
  target,   \* the registration each dispatch resolved
  up,       \* is the worker at this address reachable and answering 200?
  snap,     \* what is left of the monitor's snapshot in this round
  probe     \* the probe whose answer is on its way back

monitorVars == <<snap, probe>>
limiterVars == <<limit, permits>>
vars == <<nodes, limit, permits, pc, target, up, snap, probe>>

(* "admitted": in acquire's await, permit taken.  "sending": in the worker    *)
(* call.  "unreachable": the call failed to connect, the task has not run on. *)
PcState == {"idle", "admitted", "sending", "unreachable"}

Target == [node : Node, url : Url]

Holding(t, n) == pc[t] # "idle" /\ target[t].node = n

Counted(t, n) == pc[t] \in {"sending", "unreachable"} /\ target[t].node = n

HoldersOf(n) == {t \in Task : Holding(t, n)}

CountedOn(n) == {t \in Task : Counted(t, n)}

-----------------------------------------------------------------------------
(* Dispatcher.dispatch *)

(* Mutant: one permit too many. *)
Saturated_OffByOne(n) == permits[n] > nodes[n].max

Saturated(n) == permits[n] >= nodes[n].max

(* RouteResolver.resolve: a packet addressed to Gate is routed by its action, *)
(* a Gate-authored one by the worker it names; no other shape is routable.    *)
Route == Action \cup {ByAddress}

ResolvesTo(route, n) ==
  \/ route = ByAddress /\ ResolvesDestination(n)
  \/ route # ByAddress /\ Resolves(route, n)

(* Resolve, set the node's limit to the resolved ceiling, take a permit, and  *)
(* yield the loop.                                                            *)
Admit(t, route, n) ==
  /\ pc[t] = "idle" /\ ResolvesTo(route, n)
  /\ ~Saturated(n)
  /\ limit' = [limit EXCEPT ![n] = nodes[n].max]
  /\ permits' = [permits EXCEPT ![n] = @ + 1]
  /\ pc' = [pc EXCEPT ![t] = "admitted"]
  /\ target' = [target EXCEPT ![t] = [node |-> n, url |-> nodes[n].url]]
  /\ UNCHANGED <<nodes, up, monitorVars>>

(* The limiter refuses the node that was resolved: NodeLimitExceededError.   *)
RefuseAtLimit(t, route, n) ==
  /\ pc[t] = "idle" /\ ResolvesTo(route, n)
  /\ Saturated(n)
  /\ limit' = [limit EXCEPT ![n] = nodes[n].max]
  /\ UNCHANGED <<nodes, permits, pc, target, up, monitorVars>>

(* Mutant: the permit is kept. *)
Leave_KeepPermit(t) ==
  /\ pc' = [pc EXCEPT ![t] = "idle"]
  /\ target' = [target EXCEPT ![t] = NoTarget]
  /\ UNCHANGED permits

(* The finally clause gives back the permit. *)
Leave(t) ==
  /\ pc' = [pc EXCEPT ![t] = "idle"]
  /\ target' = [target EXCEPT ![t] = NoTarget]
  /\ permits' = [permits EXCEPT ![target[t].node] = OneLess(@)]

(* acquire returns: count the dispatch in the registry, then call the worker. *)
Enter(t) ==
  /\ pc[t] = "admitted"
  /\ IncrementActive(target[t].node)
  /\ pc' = [pc EXCEPT ![t] = "sending"]
  /\ UNCHANGED <<limiterVars, target, up, monitorVars>>

(* increment_active refuses although the permit was granted: RuntimeError.    *)
EnterRefused(t) ==
  /\ pc[t] = "admitted"
  /\ AtCeiling(target[t].node)
  /\ Leave(t)
  /\ UNCHANGED <<nodes, limit, up, monitorVars>>

(* Mutant: the load counter is left as it is. *)
Finish_NoDecrement(t) ==
  /\ pc[t] \in {"sending", "unreachable"}
  /\ UNCHANGED nodes
  /\ Leave(t)
  /\ UNCHANGED <<limit, up, monitorVars>>

(* Mutant: no budget, a call lasts until its worker answers. *)
Finish_WhenAnswered(t) ==
  /\ pc[t] = "sending" /\ up[target[t].url]
  /\ DecrementActive(target[t].node)
  /\ Leave(t)
  /\ UNCHANGED <<limit, up, monitorVars>>

(* The call ends in an answer, in any failure but an unreachable worker, or   *)
(* in a cancellation by the packet budget, which may overtake a connection    *)
(* failure the task has not seen yet.                                         *)
Finish(t) ==
  /\ pc[t] \in {"sending", "unreachable"}
  /\ DecrementActive(target[t].node)
  /\ Leave(t)
  /\ UNCHANGED <<limit, up, monitorVars>>

(* The network reports that the worker cannot be reached.                     *)
ConnectionFails(t) ==
  /\ pc[t] = "sending" /\ ~up[target[t].url]
  /\ pc' = [pc EXCEPT ![t] = "unreachable"]
  /\ UNCHANGED <<nodes, limiterVars, target, up, monitorVars>>

(* The task sees WorkerConnectionError: the node leaves the rotation.         *)
FailOver(t) ==
  LET n == target[t].node IN
  /\ pc[t] = "unreachable"
  /\ nodes' = [nodes EXCEPT ![n].healthy = FALSE, ![n].active = OneLess(@)]
  /\ Leave(t)
  /\ UNCHANGED <<limit, up, monitorVars>>

-----------------------------------------------------------------------------
(* HealthMonitor.probe_once *)

RoundOver == probe = NoProbe /\ \A n \in Node : snap[n] = Absent

StartRound ==
  /\ RoundOver /\ Known # {}
  /\ snap' = [n \in Node |-> IF n \in Known THEN [url |-> nodes[n].url, healthy |-> nodes[n].healthy]
                                          ELSE Absent]
  /\ UNCHANGED <<nodes, limiterVars, pc, target, up, probe>>

(* The worker at the address of the snapshot answers, or fails to.            *)
ProbeNode(n) ==
  /\ probe = NoProbe /\ snap[n] # Absent
  /\ probe' = [node |-> n, healthy |-> up[snap[n].url]]
  /\ UNCHANGED <<nodes, limiterVars, pc, target, up, snap>>

(* Mutant: a probe that succeeds is never written back. *)
ApplyProbe_NeverRestores ==
  /\ probe # NoProbe
  /\ IF probe.healthy THEN UNCHANGED nodes ELSE SetHealth(probe.node, FALSE)
  /\ snap' = [snap EXCEPT ![probe.node] = Absent]
  /\ probe' = NoProbe
  /\ UNCHANGED <<limiterVars, pc, target, up>>

(* The answer is compared with the health of the snapshot, not of the         *)
(* registry, and written only when it differs.                                *)
ApplyProbe ==
  /\ probe # NoProbe
  /\ IF probe.healthy = snap[probe.node].healthy
       THEN UNCHANGED nodes
       ELSE SetHealth(probe.node, probe.healthy)
  /\ snap' = [snap EXCEPT ![probe.node] = Absent]
  /\ probe' = NoProbe
  /\ UNCHANGED <<limiterVars, pc, target, up>>

-----------------------------------------------------------------------------
(* The environment *)

(* A worker registers, for the first time or again, also while dispatches to  *)
(* its earlier registration are running.                                      *)
Register(n, r, overwrite) ==
  /\ RegisterNode(n, r, overwrite)
  /\ UNCHANGED <<limiterVars, pc, target, up, monitorVars>>

WorkerChanges(u) ==
  /\ up' = [up EXCEPT ![u] = ~@]
  /\ UNCHANGED <<nodes, limiterVars, pc, target, monitorVars>>

-----------------------------------------------------------------------------
Init ==
  /\ RegistryInit
  /\ limit = [n \in Node |-> 0]
  /\ permits = [n \in Node |-> 0]
  /\ pc = [t \in Task |-> "idle"]
  /\ target = [t \in Task |-> NoTarget]
  /\ up = [u \in Url |-> TRUE]
  /\ snap = [n \in Node |-> Absent]
  /\ probe = NoProbe

TaskStep(t) == Enter(t) \/ EnterRefused(t) \/ Finish(t) \/ ConnectionFails(t) \/ FailOver(t)

MonitorStep == StartRound \/ (\E n \in Node : ProbeNode(n)) \/ ApplyProbe

Next ==
  \/ \E t \in Task, route \in Route, n \in Node :
       Admit(t, route, n) \/ RefuseAtLimit(t, route, n)
  \/ \E t \in Task : TaskStep(t)
  \/ MonitorStep
  \/ \E offer \in Offer, overwrite \in BOOLEAN : Register(offer[1], offer[2], overwrite)
  \/ \E u \in Url : WorkerChanges(u)

(* The loop runs every ready task, the packet budget ends every call, and the *)
(* monitor's loop outlives any round: no fairness for workers, for the        *)
(* network's bad news, or for callers and registrations.                      *)
Fairness ==
  /\ \A t \in Task : WF_vars(Enter(t) \/ EnterRefused(t) \/ Finish(t) \/ FailOver(t))
  /\ WF_vars(MonitorStep)

Spec == Init /\ [][Next]_vars

FairSpec == Spec /\ Fairness

-----------------------------------------------------------------------------
(* Properties *)

(* Every variable keeps its shape; a dispatch has a target exactly while it   *)
(* holds a permit, and targets, snapshots and probes only name registered     *)
(* nodes, so no counter update or health mark can fail for an unknown node.   *)
TypeOK ==
  /\ RegistryTypeOK
  /\ limit \in [Node -> Nat]
  /\ permits \in [Node -> Nat]
  /\ pc \in [Task -> PcState]
  /\ target \in [Task -> Target \cup {NoTarget}]
  /\ \A t \in Task : target[t] = NoTarget <=> pc[t] = "idle"
  /\ \A t \in Task : pc[t] # "idle" => target[t].node \in Known
  /\ up \in [Url -> BOOLEAN]
  /\ snap \in [Node -> [url : Url, healthy : BOOLEAN] \cup {Absent}]
  /\ \A n \in Node : snap[n] # Absent => n \in Known
  /\ probe \in [node : Node, healthy : BOOLEAN] \cup {NoProbe}
  /\ probe # NoProbe => snap[probe.node] # Absent

(* The limiter's count is exactly the number of dispatches that hold one of   *)
(* its permits: no path through dispatch leaks a permit or frees a peer's     *)
(* (dispatch.py: "only release what this call actually acquired").            *)
PermitsExact == \A n \in Node : permits[n] = Cardinality(HoldersOf(n))

(* The registry's load counter never counts more than the dispatches that     *)
(* are in the worker call, whatever registers again in between: a leaked      *)
(* count would keep a worker out of the rotation for ever.  (It may count     *)
(* fewer: a node that registers again starts at zero.)                        *)
LoadNeverOvercounted ==
  \A n \in Known : nodes[n].active <= Cardinality(CountedOn(n))

(* A dispatch that got its permit is refused by the registry's counter only   *)
(* when more permits are out than the node's ceiling now allows, which takes  *)
(* a registration with a smaller one under running calls: short of that the   *)
(* permit is "the authoritative admission gate" dispatch.py calls it.         *)
PermitPrevails ==
  \A t \in Task : pc[t] = "admitted" /\ AtCeiling(target[t].node)
                  => permits[target[t].node] > nodes[target[t].node].max

(* The dispatcher implements the slots a worker is promised: the permits, the *)
(* load counters and the resolved targets of dispatch.py together amount to   *)
(* calls that take a slot within the ceiling of the moment, never change the  *)
(* worker, and give back their own slot only.                                 *)
PlaceOf == [t \in Task |-> IF pc[t] = "idle" THEN NoTarget ELSE target[t].node]

CeilingOf == [n \in Node |-> IF n \in Known THEN nodes[n].max ELSE 0]

Slots == INSTANCE WorkerSlots
           WITH Call <- Task, Worker <- Node, Free <- NoTarget,
                place <- PlaceOf, ceiling <- CeilingOf

ImplementsSlots == Slots!Spec

(* Every dispatch that took a permit gives it back, whether its worker        *)
(* answers, hangs or dies and whatever registers again meanwhile: the packet  *)
(* budget ends the call.                                                      *)
CallsEnd == Slots!EveryCallEnds

(* A worker that stays up comes back into the rotation and stays in it, and   *)
(* one that stays down keeps leaving it, whatever stale probe answers, late   *)
(* connection failures and registrations come in between.                     *)
HealthFollowsWorker ==
  \A n \in Node, u \in Url :
    /\ <>[](n \in Known /\ nodes[n].url = u /\ up[u]) => <>[](nodes[n].healthy)
    /\ <>[](n \in Known /\ nodes[n].url = u /\ ~up[u]) => []<>(~nodes[n].healthy)
=============================================================================
