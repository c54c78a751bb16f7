--------------------------- MODULE DispatchProofs ---------------------------
(***************************************************************************)
(* Permit and load accounting of concurrent dispatches, for every finite   *)
(* set of dispatches and every set of nodes, ceilings and registrations.   *)
(*                                                                         *)
(* Inv is inductive: the permit count needs the targets of TypeOK, the     *)
(* load counter needs that a counted dispatch is one of the holders.       *)
(***************************************************************************)
EXTENDS Dispatch, NodeRegistryProofs, FiniteSetTheorems, TLAPS

Inv == TypeOK /\ PermitsExact /\ LoadNeverOvercounted

-----------------------------------------------------------------------------
(* What one registry call changes *)

(* Replacing a known entry. *)
LEMMA UpdateEffect ==
  ASSUME RegistryTypeOK, NEW n \in Known, NEW r \in Registration,
         nodes' = [nodes EXCEPT ![n] = r]
  PROVE  /\ RegistryTypeOK'
         /\ Known' = Known
         /\ nodes'[n] = r
         /\ \A m \in Node \ {n} : nodes'[m] = nodes[m]
<1>1. n \in Node /\ nodes \in [Node -> Registration \cup {Absent}]
  BY DEF Known, KnownIn, RegistryTypeOK, Registry
<1>2. nodes'[n] = r /\ \A m \in Node \ {n} : nodes'[m] = nodes[m]
  BY <1>1
<1>3. nodes' \in [Node -> Registration \cup {Absent}]
  BY <1>1
<1>4. Known' = Known
  BY <1>1, <1>2, RegistryAssumption DEF Known, KnownIn
<1> QED
  BY <1>2, <1>3, <1>4 DEF RegistryTypeOK, Registry

(* A known node has a well-formed entry. *)
LEMMA KnownEntry ==
  ASSUME RegistryTypeOK, NEW n \in Known
  PROVE  n \in Node /\ nodes[n] \in Registration
BY DEF Known, KnownIn, RegistryTypeOK, Registry

LEMMA IncrementEffect ==
  ASSUME RegistryTypeOK, NEW n \in Node, IncrementActive(n)
  PROVE  /\ RegistryTypeOK' /\ Known' = Known
         /\ nodes'[n].active = nodes[n].active + 1
         /\ \A m \in Node \ {n} : nodes'[m] = nodes[m]
<1> DEFINE r == [nodes[n] EXCEPT !.active = @ + 1]
<1>1. n \in Known /\ nodes[n] \in Registration
  BY KnownEntry DEF IncrementActive
<1>2. r \in Registration /\ r.active = nodes[n].active + 1
  BY <1>1 DEF Registration
<1> HIDE DEF r
<1>3. nodes' = [nodes EXCEPT ![n] = r]
  BY DEF IncrementActive, r
<1> QED
  BY <1>1, <1>2, <1>3, UpdateEffect

LEMMA DecrementEffect ==
  ASSUME RegistryTypeOK, NEW n \in Node, DecrementActive(n)
  PROVE  /\ RegistryTypeOK' /\ Known' = Known
         /\ nodes'[n].active = OneLess(nodes[n].active)
         /\ \A m \in Node \ {n} : nodes'[m] = nodes[m]
<1> DEFINE r == [nodes[n] EXCEPT !.active = OneLess(@)]
<1>1. n \in Known /\ nodes[n] \in Registration
  BY KnownEntry DEF DecrementActive
<1>2. OneLess(nodes[n].active) \in Nat
  BY <1>1, OneLessIsNat DEF Registration
<1>3. r \in Registration /\ r.active = OneLess(nodes[n].active)
  BY <1>1, <1>2 DEF Registration
<1> HIDE DEF r
<1>4. nodes' = [nodes EXCEPT ![n] = r]
  BY DEF DecrementActive, r
<1> QED
  BY <1>1, <1>3, <1>4, UpdateEffect

LEMMA HealthEffect ==
  ASSUME RegistryTypeOK, NEW n \in Node, NEW value \in BOOLEAN, SetHealth(n, value)
  PROVE  /\ RegistryTypeOK' /\ Known' = Known
         /\ \A m \in Known : nodes'[m].active = nodes[m].active
<1> DEFINE r == [nodes[n] EXCEPT !.healthy = value]
<1>1. n \in Known /\ nodes[n] \in Registration
  BY KnownEntry DEF SetHealth
<1>2. r \in Registration /\ r.active = nodes[n].active
  BY <1>1 DEF Registration
<1> HIDE DEF r
<1>3. nodes' = [nodes EXCEPT ![n] = r]
  BY DEF SetHealth, r
<1> QED
  BY <1>1, <1>2, <1>3, UpdateEffect, KnownEntry

LEMMA FailOverEffect ==
  ASSUME RegistryTypeOK, NEW n \in Known,
         nodes' = [nodes EXCEPT ![n].healthy = FALSE, ![n].active = OneLess(@)]
  PROVE  /\ RegistryTypeOK' /\ Known' = Known
         /\ nodes'[n].active = OneLess(nodes[n].active)
         /\ \A m \in Node \ {n} : nodes'[m] = nodes[m]
<1> DEFINE q == [nodes[n] EXCEPT !.healthy = FALSE]
           r == [q EXCEPT !.active = OneLess(nodes[n].active)]
<1>1. n \in Node /\ nodes[n] \in Registration
  BY KnownEntry
<1>2. OneLess(nodes[n].active) \in Nat
  BY <1>1, OneLessIsNat DEF Registration
<1>3. q \in Registration /\ q.active = nodes[n].active
  BY <1>1 DEF Registration
<1>4. r \in Registration /\ r.active = OneLess(nodes[n].active)
  BY <1>2, <1>3 DEF Registration
<1>5. nodes' = [nodes EXCEPT ![n] = r]
  <2>1. nodes \in [Node -> Registration \cup {Absent}]
    BY DEF RegistryTypeOK, Registry
  <2>2. [nodes EXCEPT ![n].healthy = FALSE] = [nodes EXCEPT ![n] = q]
    OBVIOUS
  <2>3. nodes' = [[nodes EXCEPT ![n] = q] EXCEPT ![n].active = OneLess(@)]
    BY <2>2
  <2>4. [nodes EXCEPT ![n] = q][n] = q
    BY <1>1, <2>1
  <2> QED
    BY <1>1, <1>3, <2>1, <2>3, <2>4
<1> HIDE DEF q, r
<1> QED
  BY <1>4, <1>5, UpdateEffect

LEMMA RegisterEffect ==
  ASSUME RegistryTypeOK, NEW n \in Node, NEW r \in Fresh, NEW overwrite \in BOOLEAN,
         RegisterNode(n, r, overwrite)
  PROVE  /\ RegistryTypeOK' /\ Known \subseteq Known' /\ Known' \subseteq Known \cup {n}
         /\ nodes'[n].active = 0
         /\ \A m \in Node \ {n} : nodes'[m] = nodes[m]
<1>1. r \in Registration /\ r.active = 0
  BY FreshIsRegistration DEF Fresh
<1>2. nodes \in [Node -> Registration \cup {Absent}] /\ nodes' = [nodes EXCEPT ![n] = r]
  BY DEF RegisterNode, RegistryTypeOK, Registry
<1> QED
  BY <1>1, <1>2, RegistryAssumption DEF RegistryTypeOK, Registry, Known, KnownIn

-----------------------------------------------------------------------------
(* Counting *)

(* Both sets are finite. *)
LEMMA Counts ==
  ASSUME NEW n
  PROVE  /\ IsFiniteSet(HoldersOf(n)) /\ Cardinality(HoldersOf(n)) \in Nat
         /\ IsFiniteSet(CountedOn(n)) /\ Cardinality(CountedOn(n)) \in Nat
<1>1. HoldersOf(n) \in SUBSET Task /\ CountedOn(n) \in SUBSET Task
  BY DEF HoldersOf, CountedOn
<1>2. IsFiniteSet(HoldersOf(n)) /\ IsFiniteSet(CountedOn(n))
  BY <1>1, FS_Subset, DispatchAssumption
<1> QED
  BY <1>2, FS_CardinalityType

(* A step that changes no dispatch changes neither set. *)
LEMMA SameCounts ==
  ASSUME UNCHANGED <<pc, target>>, NEW n
  PROVE  HoldersOf(n)' = HoldersOf(n) /\ CountedOn(n)' = CountedOn(n)
BY DEF HoldersOf, CountedOn, Holding, Counted

(* An idle dispatch that is admitted joins the holders of its node only.      *)
LEMMA JoinHolders ==
  ASSUME TypeOK, NEW t \in Task, NEW n \in Node, pc[t] = "idle",
         pc' = [pc EXCEPT ![t] = "admitted"],
         NEW u, target' = [target EXCEPT ![t] = [node |-> n, url |-> u]]
  PROVE  /\ Cardinality(HoldersOf(n)') = Cardinality(HoldersOf(n)) + 1
         /\ \A m \in Node \ {n} : HoldersOf(m)' = HoldersOf(m)
         /\ \A m \in Node : CountedOn(m)' = CountedOn(m)
<1>1. HoldersOf(n)' = HoldersOf(n) \cup {t} /\ t \notin HoldersOf(n)
  BY DEF TypeOK, HoldersOf, Holding
<1>2. \A m \in Node \ {n} : HoldersOf(m)' = HoldersOf(m)
  BY DEF TypeOK, HoldersOf, Holding
<1>3. \A m \in Node : CountedOn(m)' = CountedOn(m)
  BY DEF TypeOK, CountedOn, Counted
<1>4. Cardinality(HoldersOf(n) \cup {t}) = Cardinality(HoldersOf(n)) + 1
  BY <1>1, Counts, FS_AddElement
<1> QED
  BY <1>1, <1>2, <1>3, <1>4

(* A dispatch that leaves gives up its place among the holders of its node,   *)
(* and among the counted ones if it had one.                                  *)
LEMMA LeaveHolders ==
  ASSUME TypeOK, NEW t \in Task, NEW n \in Node, pc[t] # "idle", target[t].node = n, Leave(t)
  PROVE  /\ Cardinality(HoldersOf(n)) > 0
         /\ Cardinality(HoldersOf(n)') = Cardinality(HoldersOf(n)) - 1
         /\ \A m \in Node \ {n} : HoldersOf(m)' = HoldersOf(m)
         /\ CountedOn(n)' = CountedOn(n) \ {t}
         /\ \A m \in Node \ {n} : CountedOn(m)' = CountedOn(m)
<1>1. HoldersOf(n)' = HoldersOf(n) \ {t} /\ t \in HoldersOf(n)
  BY DEF TypeOK, Leave, HoldersOf, Holding
<1>2. \A m \in Node \ {n} : HoldersOf(m)' = HoldersOf(m)
  BY DEF TypeOK, Leave, HoldersOf, Holding
<1>3. CountedOn(n)' = CountedOn(n) \ {t}
  BY DEF TypeOK, Leave, CountedOn, Counted
<1>4. \A m \in Node \ {n} : CountedOn(m)' = CountedOn(m)
  BY DEF TypeOK, Leave, CountedOn, Counted
<1>5. Cardinality(HoldersOf(n) \ {t}) = Cardinality(HoldersOf(n)) - 1
  BY <1>1, Counts, FS_RemoveElement
<1>6. Cardinality(HoldersOf(n)) # 0
  BY <1>1, Counts, FS_EmptySet
<1> QED
  BY <1>1, <1>2, <1>3, <1>4, <1>5, <1>6, Counts

-----------------------------------------------------------------------------
(* The actions of a dispatch *)

(* Whatever a packet is routed by, it is given a registered node. *)
LEMMA RoutedIsKnown ==
  ASSUME NEW route, NEW n, ResolvesTo(route, n)
  PROVE  n \in Known
BY DEF ResolvesTo, ResolvesDestination, Resolves, ResolvesIn, CandidatesIn, Known

LEMMA AdmitPreserves ==
  ASSUME Inv, NEW t \in Task, NEW route \in Route, NEW n \in Node, Admit(t, route, n)
  PROVE  Inv'
<1>1. /\ n \in Known /\ nodes[n] \in Registration
      /\ nodes[n].max \in Nat /\ nodes[n].url \in Url
  BY RoutedIsKnown, KnownEntry, RegistryAssumption DEF Inv, TypeOK, Admit, Registration
<1>2. /\ Cardinality(HoldersOf(n)') = Cardinality(HoldersOf(n)) + 1
      /\ \A m \in Node \ {n} : HoldersOf(m)' = HoldersOf(m)
      /\ \A m \in Node : CountedOn(m)' = CountedOn(m)
  BY JoinHolders DEF Inv, Admit
<1>3. TypeOK'
  <2>1. RegistryTypeOK' /\ Known' = Known
    BY DEF Inv, TypeOK, Admit, RegistryTypeOK, Known
  <2>2. limit' \in [Node -> Nat] /\ permits' \in [Node -> Nat]
    BY <1>1 DEF Inv, TypeOK, Admit
  <2>3. pc' \in [Task -> PcState] /\ target' \in [Task -> Target \cup {NoTarget}]
    BY <1>1 DEF Inv, TypeOK, Admit, PcState, Target
  <2>4. [node |-> n, url |-> nodes[n].url] # NoTarget
    BY <1>1, DispatchAssumption
  <2>5. \A u \in Task : target'[u] = NoTarget <=> pc'[u] = "idle"
    BY <2>4 DEF Inv, TypeOK, Admit
  <2>6. \A u \in Task : pc'[u] # "idle" => target'[u].node \in Known
    BY <1>1 DEF Inv, TypeOK, Admit
  <2> QED
    BY <2>1, <2>2, <2>3, <2>5, <2>6 DEF Inv, TypeOK, Admit, monitorVars
<1>4. PermitsExact'
  BY <1>2 DEF Inv, TypeOK, PermitsExact, Admit
<1>5. LoadNeverOvercounted'
  BY <1>2 DEF Inv, LoadNeverOvercounted, Admit, Known, KnownIn
<1> QED
  BY <1>3, <1>4, <1>5 DEF Inv

(* Giving up a permit preserves all that is not the load counter.             *)
LEMMA LeavePreserves ==
  ASSUME Inv, NEW t \in Task, NEW n \in Node, pc[t] # "idle", target[t].node = n, Leave(t),
         RegistryTypeOK', Known' = Known, UNCHANGED <<limit, up, monitorVars>>
  PROVE  TypeOK' /\ PermitsExact'
<1>1. OneLess(permits[n]) \in Nat
  BY OneLessIsNat DEF Inv, TypeOK
<1>2. permits' = [permits EXCEPT ![n] = OneLess(permits[n])]
  BY DEF Leave
<1>3. TypeOK'
  <2>1. permits' \in [Node -> Nat]
    BY <1>1, <1>2 DEF Inv, TypeOK
  <2>2. pc' \in [Task -> PcState] /\ target' \in [Task -> Target \cup {NoTarget}]
    BY DEF Inv, TypeOK, Leave, PcState
  <2>3. \A u \in Task : target'[u] = NoTarget <=> pc'[u] = "idle"
    BY DEF Inv, TypeOK, Leave
  <2>4. \A u \in Task : pc'[u] # "idle" => target'[u].node \in Known
    BY DEF Inv, TypeOK, Leave
  <2> QED
    BY <2>1, <2>2, <2>3, <2>4 DEF Inv, TypeOK, monitorVars
<1>4. PermitsExact'
  <2>1. permits[n] > 0 /\ Cardinality(HoldersOf(n)') = permits[n] - 1
    BY LeaveHolders DEF Inv, PermitsExact
  <2>2. permits'[n] = permits[n] - 1
    BY <1>2, <2>1 DEF Inv, TypeOK, OneLess
  <2>3. \A m \in Node \ {n} : permits'[m] = permits[m] /\ HoldersOf(m)' = HoldersOf(m)
    BY <1>2, LeaveHolders DEF Inv, TypeOK
  <2> QED
    BY <2>1, <2>2, <2>3 DEF Inv, PermitsExact
<1> QED
  BY <1>3, <1>4

(* Leaving the worker call gives back the count together with the permit.     *)
LEMMA UncountPreserves ==
  ASSUME Inv, NEW t \in Task, NEW n \in Node,
         pc[t] \in {"sending", "unreachable"}, target[t].node = n, Leave(t),
         RegistryTypeOK', Known' = Known,
         nodes'[n].active = OneLess(nodes[n].active),
         \A m \in Node \ {n} : nodes'[m] = nodes[m]
  PROVE  LoadNeverOvercounted'
<1>1. n \in Known /\ nodes[n].active \in Nat
  BY KnownEntry DEF Inv, TypeOK, Registration
<1>2. t \in CountedOn(n)
  BY DEF CountedOn, Counted
<1>3. Cardinality(CountedOn(n)') = Cardinality(CountedOn(n)) - 1
  <2>1. CountedOn(n)' = CountedOn(n) \ {t}
    BY LeaveHolders DEF Inv
  <2> QED
    BY <1>2, <2>1, Counts, FS_RemoveElement
<1>4. nodes[n].active <= Cardinality(CountedOn(n)) /\ Cardinality(CountedOn(n)) > 0
  <2>1. Cardinality(CountedOn(n)) # 0
    BY <1>2, Counts, FS_EmptySet
  <2> QED
    BY <1>1, <2>1, Counts DEF Inv, LoadNeverOvercounted
<1>5. nodes'[n].active <= Cardinality(CountedOn(n)')
  BY <1>1, <1>3, <1>4, Counts DEF OneLess
<1>6. \A m \in Known \ {n} : nodes'[m].active <= Cardinality(CountedOn(m)')
  <2>1. \A m \in Node \ {n} : CountedOn(m)' = CountedOn(m)
    BY LeaveHolders DEF Inv
  <2> QED
    BY <2>1, KnownEntry DEF Inv, TypeOK, LoadNeverOvercounted
<1> QED
  BY <1>5, <1>6 DEF LoadNeverOvercounted

LEMMA EnterPreserves ==
  ASSUME Inv, NEW t \in Task, Enter(t)
  PROVE  Inv'
<1> DEFINE n == target[t].node
<1>1. n \in Known /\ n \in Node /\ nodes[n].active \in Nat
  BY KnownEntry DEF Inv, TypeOK, Enter, Registration
<1>2. /\ RegistryTypeOK' /\ Known' = Known
      /\ nodes'[n].active = nodes[n].active + 1
      /\ \A m \in Node \ {n} : nodes'[m] = nodes[m]
  BY <1>1, IncrementEffect DEF Inv, TypeOK, Enter
<1>3. /\ target' = target
      /\ pc' = [pc EXCEPT ![t] = "sending"]
  BY DEF Enter
<1>4. TypeOK'
  BY <1>2, <1>3 DEF Inv, TypeOK, Enter, PcState, limiterVars, monitorVars
<1>5. PermitsExact'
  <2>1. \A m \in Node : HoldersOf(m)' = HoldersOf(m)
    BY <1>3 DEF Inv, TypeOK, HoldersOf, Holding, Enter
  <2> QED
    BY <2>1 DEF Inv, PermitsExact, Enter, limiterVars
<1>6. LoadNeverOvercounted'
  <2> SUFFICES ASSUME NEW m \in Known PROVE nodes'[m].active <= Cardinality(CountedOn(m)')
    BY <1>2 DEF LoadNeverOvercounted
  <2>1. CASE m = n
    <3>1. CountedOn(m)' = CountedOn(m) \cup {t} /\ t \notin CountedOn(m)
      BY <1>3, <2>1 DEF Inv, TypeOK, CountedOn, Counted, Enter
    <3>2. Cardinality(CountedOn(m)') = Cardinality(CountedOn(m)) + 1
      BY <3>1, Counts, FS_AddElement
    <3> QED
      BY <1>1, <1>2, <2>1, <3>2, Counts DEF Inv, LoadNeverOvercounted
  <2>2. CASE m # n
    <3>1. CountedOn(m)' = CountedOn(m)
      BY <1>3, <2>2 DEF Inv, TypeOK, CountedOn, Counted
    <3> QED
      BY <1>2, <2>2, <3>1, KnownEntry DEF Inv, TypeOK, LoadNeverOvercounted
  <2> QED
    BY <2>1, <2>2
<1> QED
  BY <1>4, <1>5, <1>6 DEF Inv

LEMMA EnterRefusedPreserves ==
  ASSUME Inv, NEW t \in Task, EnterRefused(t)
  PROVE  Inv'
<1>1. /\ pc[t] = "admitted" /\ target[t].node \in Node
      /\ nodes' = nodes /\ Leave(t) /\ UNCHANGED <<limit, up, monitorVars>>
  BY KnownEntry DEF Inv, TypeOK, EnterRefused
<1>2. RegistryTypeOK' /\ Known' = Known
  BY <1>1 DEF Inv, TypeOK, RegistryTypeOK, Known
<1>3. TypeOK' /\ PermitsExact'
  BY <1>1, <1>2, LeavePreserves
<1>4. LoadNeverOvercounted'
  <2>1. \A m \in Node : CountedOn(m)' = CountedOn(m)
    BY <1>1 DEF Inv, TypeOK, Leave, CountedOn, Counted
  <2> QED
    BY <1>1, <1>2, <2>1, KnownEntry DEF Inv, TypeOK, LoadNeverOvercounted
<1> QED
  BY <1>3, <1>4 DEF Inv

LEMMA FinishPreserves ==
  ASSUME Inv, NEW t \in Task, Finish(t)
  PROVE  Inv'
<1>1. /\ pc[t] \in {"sending", "unreachable"} /\ pc[t] # "idle" /\ target[t].node \in Node
      /\ DecrementActive(target[t].node) /\ Leave(t) /\ UNCHANGED <<limit, up, monitorVars>>
  BY KnownEntry DEF Inv, TypeOK, Finish
<1>2. \A n \in Node : target[t].node = n =>
        /\ RegistryTypeOK' /\ Known' = Known
        /\ nodes'[n].active = OneLess(nodes[n].active)
        /\ \A m \in Node \ {n} : nodes'[m] = nodes[m]
  BY <1>1, DecrementEffect DEF Inv, TypeOK
<1> QED
  BY <1>1, <1>2, LeavePreserves, UncountPreserves DEF Inv

LEMMA ConnectionFailsPreserves ==
  ASSUME Inv, NEW t \in Task, ConnectionFails(t)
  PROVE  Inv'
<1>1. /\ pc' = [pc EXCEPT ![t] = "unreachable"] /\ pc[t] = "sending"
      /\ UNCHANGED <<nodes, limit, permits, target, up, snap, probe>>
  BY DEF ConnectionFails, limiterVars, monitorVars
<1>2. TypeOK'
  BY <1>1 DEF Inv, TypeOK, PcState, RegistryTypeOK, Known
<1>3. \A m \in Node : HoldersOf(m)' = HoldersOf(m) /\ CountedOn(m)' = CountedOn(m)
  BY <1>1 DEF Inv, TypeOK, HoldersOf, Holding, CountedOn, Counted
<1>4. PermitsExact'
  BY <1>1, <1>3 DEF Inv, PermitsExact
<1>5. LoadNeverOvercounted'
  BY <1>1, <1>3, KnownEntry DEF Inv, TypeOK, LoadNeverOvercounted, Known
<1> QED
  BY <1>2, <1>4, <1>5 DEF Inv

LEMMA FailOverPreserves ==
  ASSUME Inv, NEW t \in Task, FailOver(t)
  PROVE  Inv'
<1>1. /\ pc[t] \in {"sending", "unreachable"} /\ pc[t] # "idle"
      /\ target[t].node \in Node /\ target[t].node \in Known
      /\ nodes' = [nodes EXCEPT ![target[t].node].healthy = FALSE,
                               ![target[t].node].active = OneLess(@)]
      /\ Leave(t) /\ UNCHANGED <<limit, up, monitorVars>>
  BY KnownEntry DEF Inv, TypeOK, FailOver
<1>2. \A n \in Node : target[t].node = n =>
        /\ RegistryTypeOK' /\ Known' = Known
        /\ nodes'[n].active = OneLess(nodes[n].active)
        /\ \A m \in Node \ {n} : nodes'[m] = nodes[m]
  BY <1>1, FailOverEffect DEF Inv, TypeOK
<1> QED
  BY <1>1, <1>2, LeavePreserves, UncountPreserves DEF Inv

-----------------------------------------------------------------------------
(* The monitor and the environment *)

(* A step of no dispatch that keeps the counters and leaves TypeOK true.      *)
LEMMA BystanderPreserves ==
  ASSUME Inv, TypeOK', UNCHANGED <<permits, pc, target>>,
         \A m \in Known' : nodes'[m].active = 0 \/ (m \in Known /\ nodes'[m].active = nodes[m].active)
  PROVE  Inv'
<1>1. \A m \in Node : HoldersOf(m)' = HoldersOf(m) /\ CountedOn(m)' = CountedOn(m)
  BY SameCounts
<1>2. PermitsExact'
  BY <1>1 DEF Inv, PermitsExact
<1>3. LoadNeverOvercounted'
  <2> SUFFICES ASSUME NEW m \in Known' PROVE nodes'[m].active <= Cardinality(CountedOn(m)')
    BY DEF LoadNeverOvercounted
  <2>1. m \in Node
    BY DEF Known, KnownIn
  <2>2. CASE nodes'[m].active = 0
    BY <1>1, <2>1, <2>2, Counts
  <2>3. CASE m \in Known /\ nodes'[m].active = nodes[m].active
    BY <1>1, <2>1, <2>3 DEF Inv, LoadNeverOvercounted
  <2> QED
    BY <2>2, <2>3
<1> QED
  BY <1>2, <1>3 DEF Inv

LEMMA MonitorPreserves ==
  ASSUME Inv, MonitorStep
  PROVE  Inv'
<1>1. CASE StartRound
  <2>1. \A n \in Known : nodes[n].url \in Url /\ nodes[n].healthy \in BOOLEAN
    BY KnownEntry DEF Inv, TypeOK, Registration
  <2>2. TypeOK'
    BY <1>1, <2>1, DispatchAssumption
    DEF Inv, TypeOK, StartRound, RoundOver, limiterVars, RegistryTypeOK, Known
  <2> QED
    BY <1>1, <2>2, BystanderPreserves DEF StartRound, limiterVars, Known
<1>2. CASE \E n \in Node : ProbeNode(n)
  <2>1. PICK n \in Node : ProbeNode(n)
    BY <1>2
  <2>2. snap[n].url \in Url
    BY <2>1 DEF Inv, TypeOK, ProbeNode
  <2>3. TypeOK'
    BY <2>1, <2>2, DispatchAssumption
    DEF Inv, TypeOK, ProbeNode, limiterVars, RegistryTypeOK, Known
  <2> QED
    BY <2>1, <2>3, BystanderPreserves DEF ProbeNode, limiterVars, Known
<1>3. CASE ApplyProbe
  <2>1. probe.node \in Node /\ probe.healthy \in BOOLEAN
    BY <1>3 DEF Inv, TypeOK, ApplyProbe
  <2>2. /\ RegistryTypeOK' /\ Known' = Known
        /\ \A m \in Known : nodes'[m].active = nodes[m].active
    BY <1>3, <2>1, HealthEffect DEF Inv, TypeOK, ApplyProbe, RegistryTypeOK, Known
  <2>3. TypeOK'
    BY <1>3, <2>2 DEF Inv, TypeOK, ApplyProbe, limiterVars
  <2> QED
    BY <1>3, <2>2, <2>3, BystanderPreserves DEF ApplyProbe, limiterVars
<1> QED
  BY <1>1, <1>2, <1>3 DEF MonitorStep

LEMMA RegisterPreserves ==
  ASSUME Inv, NEW n \in Node, NEW r \in Fresh, NEW overwrite \in BOOLEAN,
         Register(n, r, overwrite)
  PROVE  Inv'
<1>1. /\ RegistryTypeOK' /\ Known \subseteq Known' /\ Known' \subseteq Known \cup {n}
      /\ nodes'[n].active = 0
      /\ \A m \in Node \ {n} : nodes'[m] = nodes[m]
  BY RegisterEffect DEF Inv, TypeOK, Register
<1>2. TypeOK'
  BY <1>1 DEF Inv, TypeOK, Register, limiterVars, monitorVars
<1>3. \A m \in Known' : nodes'[m].active = 0 \/ (m \in Known /\ nodes'[m].active = nodes[m].active)
  <2> SUFFICES ASSUME NEW m \in Known'
               PROVE  nodes'[m].active = 0 \/ (m \in Known /\ nodes'[m].active = nodes[m].active)
    OBVIOUS
  <2>1. m \in Node
    BY DEF Known, KnownIn
  <2>2. m = n \/ (m \in Known /\ m \in Node \ {n})
    BY <1>1, <2>1
  <2> QED
    BY <1>1, <2>2
<1> QED
  BY <1>2, <1>3, BystanderPreserves DEF Register, limiterVars

LEMMA WorkerChangesPreserves ==
  ASSUME Inv, NEW u \in Url, WorkerChanges(u)
  PROVE  Inv'
<1>1. TypeOK'
  BY DEF Inv, TypeOK, WorkerChanges, limiterVars, monitorVars, RegistryTypeOK, Known
<1> QED
  BY <1>1, BystanderPreserves DEF WorkerChanges, limiterVars, Known

-----------------------------------------------------------------------------
(* The theorems *)

LEMMA InitEstablishes == Init => Inv
<1> SUFFICES ASSUME Init PROVE Inv
  OBVIOUS
<1>1. nodes \in YamlFile
  BY DEF Init, RegistryInit, LoadFromYaml
<1>2. TypeOK
  BY <1>1, RegistryAssumption DEF Init, TypeOK, RegistryTypeOK, PcState, RoundOver
<1>3. PermitsExact
  <2> SUFFICES ASSUME NEW n \in Node PROVE permits[n] = Cardinality(HoldersOf(n))
    BY DEF PermitsExact
  <2>1. HoldersOf(n) = {}
    BY DEF Init, HoldersOf, Holding
  <2> QED
    BY <2>1, FS_EmptySet DEF Init
<1>4. LoadNeverOvercounted
  <2> SUFFICES ASSUME NEW n \in Known PROVE nodes[n].active <= Cardinality(CountedOn(n))
    BY DEF LoadNeverOvercounted
  <2>1. nodes[n].active = 0
    BY <1>1, DispatchAssumption DEF Known
  <2> QED
    BY <2>1, Counts
<1> QED
  BY <1>2, <1>3, <1>4 DEF Inv

LEMMA StepPreserves == Inv /\ [Next]_vars => Inv'
<1> SUFFICES ASSUME Inv, [Next]_vars PROVE Inv'
  OBVIOUS
<1>1. CASE \E t \in Task, route \in Route, n \in Node : Admit(t, route, n)
  BY <1>1, AdmitPreserves
<1>2. CASE \E t \in Task, route \in Route, n \in Node : RefuseAtLimit(t, route, n)
  <2>1. PICK t \in Task, route \in Route, n \in Node : RefuseAtLimit(t, route, n)
    BY <1>2
  <2>2. nodes[n].max \in Nat
    BY <2>1, RoutedIsKnown, KnownEntry, RegistryAssumption
    DEF Inv, TypeOK, RefuseAtLimit, Registration
  <2>3. TypeOK'
    BY <2>1, <2>2 DEF Inv, TypeOK, RefuseAtLimit, monitorVars, RegistryTypeOK, Known
  <2> QED
    BY <2>1, <2>3, BystanderPreserves DEF RefuseAtLimit, Known
<1>3. CASE \E t \in Task : TaskStep(t)
  BY <1>3, EnterPreserves, EnterRefusedPreserves, FinishPreserves, ConnectionFailsPreserves,
     FailOverPreserves DEF TaskStep
<1>4. CASE MonitorStep
  BY <1>4, MonitorPreserves
<1>5. CASE \E offer \in Offer, overwrite \in BOOLEAN : Register(offer[1], offer[2], overwrite)
  <2>1. PICK offer \in Offer, overwrite \in BOOLEAN : Register(offer[1], offer[2], overwrite)
    BY <1>5
  <2>2. offer[1] \in Node /\ offer[2] \in Fresh
    BY DispatchAssumption
  <2> QED
    BY <2>1, <2>2, RegisterPreserves
<1>6. CASE \E u \in Url : WorkerChanges(u)
  BY <1>6, WorkerChangesPreserves
<1>7. CASE UNCHANGED vars
  <2>1. TypeOK'
    BY <1>7 DEF vars, Inv, TypeOK, RegistryTypeOK, Known
  <2> QED
    BY <1>7, <2>1, BystanderPreserves DEF vars, Known
<1> QED
  BY <1>1, <1>2, <1>3, <1>4, <1>5, <1>6, <1>7 DEF Next

THEOREM Invariance == Spec => []Inv
<1>1. Init => Inv
  BY InitEstablishes
<1>2. Inv /\ [Next]_vars => Inv'
  BY StepPreserves
<1> QED
  BY <1>1, <1>2, PTL DEF Spec

(* The dispatch model keeps its shape: counters are natural numbers, exactly  *)
(* the running dispatches have a target, and every target is registered.      *)
THEOREM DispatchTypeCorrect == Spec => []TypeOK
<1>1. Inv => TypeOK
  BY DEF Inv
<1> QED
  BY <1>1, Invariance, PTL

(* No interleaving of dispatches, health probes and registrations leaks a     *)
(* permit of runtime/node_limits.py or frees one twice.                       *)
THEOREM PermitAccounting == Spec => []PermitsExact
<1>1. Inv => PermitsExact
  BY DEF Inv
<1> QED
  BY <1>1, Invariance, PTL

(* The registry's load counter never outlives the dispatches it counts, so no *)
(* sequence of failures and registrations takes a worker out of the rotation  *)
(* for good by its load.                                                      *)
THEOREM LoadAccounting == Spec => []LoadNeverOvercounted
<1>1. Inv => LoadNeverOvercounted
  BY DEF Inv
<1> QED
  BY <1>1, Invariance, PTL

(* A refusal by the registry's counter means that more permits are out than   *)
(* the ceiling now allows: the waiting holder itself is not yet counted.      *)
THEOREM PermitAuthority == Spec => []PermitPrevails
<1>1. Inv => PermitPrevails
  <2> SUFFICES ASSUME Inv, NEW t \in Task, pc[t] = "admitted", AtCeiling(target[t].node)
               PROVE  permits[target[t].node] > nodes[target[t].node].max
    BY DEF PermitPrevails
  <2> DEFINE n == target[t].node
  <2>1. n \in Known /\ n \in Node /\ nodes[n] \in Registration
    BY KnownEntry DEF Inv, TypeOK
  <2>2. nodes[n].active \in Nat /\ nodes[n].max \in Nat /\ nodes[n].active >= nodes[n].max
    BY <2>1, RegistryAssumption DEF Registration, AtCeiling
  <2> HIDE DEF n
  <2>3. t \in HoldersOf(n) /\ t \notin CountedOn(n)
    BY DEF n, HoldersOf, Holding, CountedOn, Counted
  <2>4. CountedOn(n) \subseteq HoldersOf(n) \ {t}
    BY <2>3 DEF HoldersOf, Holding, CountedOn, Counted
  <2>5. /\ IsFiniteSet(HoldersOf(n) \ {t})
        /\ Cardinality(HoldersOf(n) \ {t}) = Cardinality(HoldersOf(n)) - 1
    BY <2>1, <2>3, Counts, FS_RemoveElement
  <2>6. Cardinality(CountedOn(n)) <= Cardinality(HoldersOf(n)) - 1
    BY <2>4, <2>5, FS_Subset
  <2>7. nodes[n].active <= Cardinality(CountedOn(n)) /\ permits[n] = Cardinality(HoldersOf(n))
    BY <2>1 DEF Inv, LoadNeverOvercounted, PermitsExact
  <2>8. Cardinality(CountedOn(n)) \in Nat /\ Cardinality(HoldersOf(n)) \in Nat
    BY <2>1, Counts
  <2> QED
    BY <2>2, <2>6, <2>7, <2>8 DEF n
<1> QED
  BY <1>1, Invariance, PTL

-----------------------------------------------------------------------------
(* The dispatcher implements WorkerSlots *)

(* Where a call stands in the abstract specification. *)
LEMMA PlaceFacts ==
  ASSUME TypeOK
  PROVE  /\ \A t \in Task : PlaceOf[t] = NoTarget <=> pc[t] = "idle"
         /\ \A n \in Node : Slots!On(n) = HoldersOf(n)
<1>1. ASSUME NEW t \in Task, pc[t] # "idle" PROVE target[t].node \in Node
  BY <1>1 DEF TypeOK, Target
<1>2. \A t \in Task : PlaceOf[t] = NoTarget <=> pc[t] = "idle"
  BY <1>1, DispatchAssumption DEF PlaceOf
<1>3. \A n \in Node : Slots!On(n) = HoldersOf(n)
  BY DispatchAssumption DEF Slots!On, PlaceOf, HoldersOf, Holding
<1> QED
  BY <1>2, <1>3

(* A registry call that keeps the ceiling of the entry it replaces. *)
LEMMA SameCeiling ==
  ASSUME RegistryTypeOK, NEW n \in Known, NEW r \in Registration, r.max = nodes[n].max,
         nodes' = [nodes EXCEPT ![n] = r]
  PROVE  CeilingOf' = CeilingOf
<1>1. Known' = Known /\ nodes'[n] = r /\ \A m \in Node \ {n} : nodes'[m] = nodes[m]
  BY UpdateEffect
<1>2. \A m \in Known : nodes'[m].max = nodes[m].max
  BY <1>1 DEF Known, KnownIn
<1> QED
  BY <1>1, <1>2 DEF CeilingOf

LEMMA CountersKeepCeiling ==
  ASSUME RegistryTypeOK, NEW n \in Node, IncrementActive(n) \/ DecrementActive(n)
  PROVE  CeilingOf' = CeilingOf
<1>1. n \in Known /\ nodes[n] \in Registration /\ OneLess(nodes[n].active) \in Nat
  BY KnownEntry, OneLessIsNat DEF IncrementActive, DecrementActive, Registration
<1>2. CASE IncrementActive(n)
  <2> DEFINE r == [nodes[n] EXCEPT !.active = @ + 1]
  <2>1. r \in Registration /\ r.max = nodes[n].max
    BY <1>1 DEF Registration
  <2> HIDE DEF r
  <2>2. nodes' = [nodes EXCEPT ![n] = r]
    BY <1>2 DEF IncrementActive, r
  <2> QED
    BY <1>1, <2>1, <2>2, SameCeiling
<1>3. CASE DecrementActive(n)
  <2> DEFINE r == [nodes[n] EXCEPT !.active = OneLess(@)]
  <2>1. r \in Registration /\ r.max = nodes[n].max
    BY <1>1 DEF Registration
  <2> HIDE DEF r
  <2>2. nodes' = [nodes EXCEPT ![n] = r]
    BY <1>3 DEF DecrementActive, r
  <2> QED
    BY <1>1, <2>1, <2>2, SameCeiling
<1> QED
  BY <1>2, <1>3

LEMMA HealthKeepsCeiling ==
  ASSUME RegistryTypeOK, NEW n \in Node, NEW value \in BOOLEAN, SetHealth(n, value)
  PROVE  CeilingOf' = CeilingOf
<1> DEFINE r == [nodes[n] EXCEPT !.healthy = value]
<1>1. n \in Known /\ nodes[n] \in Registration
  BY KnownEntry DEF SetHealth
<1>2. r \in Registration /\ r.max = nodes[n].max
  BY <1>1 DEF Registration
<1> HIDE DEF r
<1>3. nodes' = [nodes EXCEPT ![n] = r]
  BY DEF SetHealth, r
<1> QED
  BY <1>1, <1>2, <1>3, SameCeiling

LEMMA FailOverKeepsCeiling ==
  ASSUME RegistryTypeOK, NEW n \in Known,
         nodes' = [nodes EXCEPT ![n].healthy = FALSE, ![n].active = OneLess(@)]
  PROVE  CeilingOf' = CeilingOf
<1>1. n \in Node /\ nodes[n] \in Registration /\ nodes \in [Node -> Registration \cup {Absent}]
  BY KnownEntry DEF RegistryTypeOK, Registry
<1>2. Known' = Known /\ \A m \in Node \ {n} : nodes'[m] = nodes[m]
  BY FailOverEffect
<1>3. nodes'[n].max = nodes[n].max
  <2>1. nodes'[n] = [[nodes[n] EXCEPT !.healthy = FALSE] EXCEPT !.active = OneLess(@)]
    BY <1>1
  <2> QED
    BY <1>1, <2>1 DEF Registration
<1>4. \A m \in Known : nodes'[m].max = nodes[m].max
  BY <1>2, <1>3 DEF Known, KnownIn
<1> QED
  BY <1>2, <1>4 DEF CeilingOf

(* A dispatch that leaves gives back its slot and no other. *)
LEMMA LeaveGivesBack ==
  ASSUME TypeOK, NEW t \in Task, pc[t] # "idle", Leave(t), CeilingOf' = CeilingOf
  PROVE  Slots!GiveBack(t)
<1>1. PlaceOf[t] # NoTarget
  BY PlaceFacts
<1>2. pc' = [pc EXCEPT ![t] = "idle"] /\ target' = [target EXCEPT ![t] = NoTarget]
  BY DEF Leave
<1>3. PlaceOf' = [PlaceOf EXCEPT ![t] = NoTarget]
  <2>1. \A s \in Task \ {t} : pc'[s] = pc[s] /\ target'[s] = target[s]
    BY <1>2 DEF TypeOK
  <2>2. pc'[t] = "idle"
    BY <1>2 DEF TypeOK
  <2> QED
    BY <2>1, <2>2 DEF PlaceOf
<1> QED
  BY <1>1, <1>3 DEF Slots!GiveBack

LEMMA AdmitTakes ==
  ASSUME Inv, NEW t \in Task, NEW route \in Route, NEW n \in Node, Admit(t, route, n)
  PROVE  Slots!Take(t, n)
<1>1. n \in Known /\ nodes[n].max \in Nat
  BY RoutedIsKnown, KnownEntry, RegistryAssumption DEF Inv, TypeOK, Admit, Registration
<1>2. PlaceOf[t] = NoTarget /\ Slots!On(n) = HoldersOf(n)
  BY PlaceFacts DEF Inv, Admit
<1>3. Slots!Cardinality(Slots!On(n)) < CeilingOf[n]
  <2>1. Cardinality(HoldersOf(n)) < CeilingOf[n]
    BY <1>1, Counts DEF Inv, PermitsExact, Admit, Saturated, CeilingOf
  <2>2. Slots!Cardinality(HoldersOf(n)) = Cardinality(HoldersOf(n))
    BY DEF Slots!Cardinality, Cardinality
  <2> QED
    BY <1>2, <2>1, <2>2
<1>4. PlaceOf' = [PlaceOf EXCEPT ![t] = n]
  <2>1. \A s \in Task \ {t} : pc'[s] = pc[s] /\ target'[s] = target[s]
    BY DEF Admit, Inv, TypeOK
  <2>2. pc'[t] # "idle" /\ target'[t].node = n
    BY DEF Admit, Inv, TypeOK
  <2> QED
    BY <2>1, <2>2 DEF PlaceOf
<1>5. CeilingOf' = CeilingOf
  BY DEF Admit, CeilingOf, Known
<1> QED
  BY <1>2, <1>3, <1>4, <1>5 DEF Slots!Take

LEMMA RegisterResizes ==
  ASSUME TypeOK, NEW n \in Node, NEW r \in Fresh, NEW overwrite \in BOOLEAN,
         Register(n, r, overwrite)
  PROVE  Slots!Resize(n)
<1>1. PlaceOf' = PlaceOf
  BY DEF Register, PlaceOf
<1>2. /\ RegistryTypeOK' /\ Known' \ {n} = Known \ {n}
      /\ \A m \in Node \ {n} : nodes'[m] = nodes[m]
  BY RegisterEffect DEF Register, TypeOK
<1>3. CeilingOf'[n] \in Nat
  <2>1. CASE n \in Known'
    BY <1>2, <2>1, RegistryAssumption DEF CeilingOf, RegistryTypeOK, Registry, Known, KnownIn, Registration
  <2>2. CASE n \notin Known'
    BY <2>2 DEF CeilingOf
  <2> QED
    BY <2>1, <2>2
<1>4. \A m \in Node \ {n} : CeilingOf'[m] = CeilingOf[m]
  BY <1>2 DEF CeilingOf
<1>5. CeilingOf' = [CeilingOf EXCEPT ![n] = CeilingOf'[n]]
  BY <1>4 DEF CeilingOf
<1> QED
  BY <1>1, <1>3, <1>5 DEF Slots!Resize

(* Every step of the dispatcher is a step of WorkerSlots or none at all. *)
LEMMA StepSimulates == Inv /\ [Next]_vars => [Slots!Next]_(Slots!vars)
<1> SUFFICES ASSUME Inv, [Next]_vars PROVE Slots!Next \/ UNCHANGED <<PlaceOf, CeilingOf>>
  BY DEF Slots!vars
<1>0. TypeOK /\ RegistryTypeOK
  BY DEF Inv, TypeOK
<1>1. CASE \E t \in Task, route \in Route, n \in Node : Admit(t, route, n)
  BY <1>1, AdmitTakes DEF Slots!Next
<1>2. CASE \E t \in Task : TaskStep(t)
  <2>1. PICK t \in Task : TaskStep(t)
    BY <1>2
  <2>2. pc[t] # "idle" /\ target[t].node \in Known /\ target[t].node \in Node
    BY <1>0, <2>1 DEF TypeOK, TaskStep, Enter, EnterRefused, Finish, ConnectionFails, FailOver, Known, KnownIn
  <2>3. CASE Enter(t) \/ ConnectionFails(t)
    <3>1. CeilingOf' = CeilingOf
      BY <1>0, <2>2, <2>3, CountersKeepCeiling DEF Enter, ConnectionFails, CeilingOf, Known
    <3>2. target' = target /\ \A s \in Task : (pc'[s] = "idle" <=> pc[s] = "idle")
      BY <1>0, <2>2, <2>3 DEF Enter, ConnectionFails, TypeOK
    <3>3. PlaceOf' = PlaceOf
      BY <3>2 DEF PlaceOf
    <3> QED
      BY <3>1, <3>3
  <2>4. CASE EnterRefused(t) \/ Finish(t) \/ FailOver(t)
    <3>1. CeilingOf' = CeilingOf
      <4>1. CASE EnterRefused(t)
        BY <4>1 DEF EnterRefused, CeilingOf, Known
      <4>2. CASE Finish(t)
        BY <1>0, <2>2, <4>2, CountersKeepCeiling DEF Finish
      <4>3. CASE FailOver(t)
        BY <1>0, <2>2, <4>3, FailOverKeepsCeiling DEF FailOver
      <4> QED
        BY <2>4, <4>1, <4>2, <4>3
    <3>2. Leave(t)
      BY <2>4 DEF EnterRefused, Finish, FailOver
    <3> QED
      BY <1>0, <2>2, <3>1, <3>2, LeaveGivesBack DEF Slots!Next
  <2> QED
    BY <2>1, <2>3, <2>4 DEF TaskStep
<1>3. CASE ApplyProbe
  <2>1. PlaceOf' = PlaceOf
    BY <1>3 DEF ApplyProbe, PlaceOf
  <2>2. CASE UNCHANGED nodes
    BY <2>1, <2>2 DEF CeilingOf, Known
  <2>3. CASE SetHealth(probe.node, probe.healthy)
    <3>1. probe.node \in Node /\ probe.healthy \in BOOLEAN
      BY <1>0, <1>3 DEF TypeOK, ApplyProbe
    <3> QED
      BY <1>0, <2>1, <2>3, <3>1, HealthKeepsCeiling
  <2> QED
    BY <1>3, <2>2, <2>3 DEF ApplyProbe
<1>4. CASE \E offer \in Offer, overwrite \in BOOLEAN : Register(offer[1], offer[2], overwrite)
  <2>1. PICK offer \in Offer, overwrite \in BOOLEAN : Register(offer[1], offer[2], overwrite)
    BY <1>4
  <2>2. offer[1] \in Node /\ offer[2] \in Fresh
    BY DispatchAssumption
  <2> QED
    BY <1>0, <2>1, <2>2, RegisterResizes DEF Slots!Next
<1>5. CASE UNCHANGED <<nodes, pc, target>>
  BY <1>5 DEF PlaceOf, CeilingOf, Known
<1> QED
  BY <1>1, <1>2, <1>3, <1>4, <1>5
  DEF Next, RefuseAtLimit, MonitorStep, StartRound, ProbeNode, WorkerChanges, vars

(* For any number of dispatches and workers, any ceilings and registrations:  *)
(* what dispatch.py does with permits and load counters implements the plain  *)
(* slots of WorkerSlots.                                                      *)
THEOREM Refinement == Spec => ImplementsSlots
<1>1. Init => Slots!Init
  <2> SUFFICES ASSUME Init PROVE Slots!Init
    OBVIOUS
  <2>1. TypeOK
    BY InitEstablishes DEF Inv
  <2>2. PlaceOf = [t \in Task |-> NoTarget]
    BY DEF Init, PlaceOf
  <2>3. CeilingOf \in [Node -> Nat]
    BY <2>1, KnownEntry, RegistryAssumption DEF CeilingOf, TypeOK, Registration
  <2> QED
    BY <2>2, <2>3 DEF Slots!Init
<1>2. Inv /\ [Next]_vars => [Slots!Next]_(Slots!vars)
  BY StepSimulates
<1> QED
  BY <1>1, <1>2, Invariance, PTL DEF Spec, ImplementsSlots, Slots!Spec

-----------------------------------------------------------------------------
(* The registry under the dispatcher.  Running calls, probes and failures     *)
(* share the table with the registrations; FailOver is the one step that      *)
(* makes two method calls at once.                                            *)

LEMMA FailOverKeepsOwners ==
  ASSUME RegistryTypeOK, OwnershipIn(nodes), NEW n \in Known,
         nodes' = [nodes EXCEPT ![n].healthy = FALSE, ![n].active = OneLess(@)]
  PROVE  OwnershipIn(nodes')
<1>1. n \in Node /\ nodes[n] \in Registration /\ nodes \in [Node -> Registration \cup {Absent}]
  BY KnownEntry DEF RegistryTypeOK, Registry
<1>2. PICK k \in Nat : k = OneLess(nodes[n].active)
  BY <1>1, OneLessIsNat DEF Registration
<1> DEFINE q == [nodes[n] EXCEPT !.healthy = FALSE]
           r == [q EXCEPT !.active = k]
<1>3. q \in Registration /\ q.active = nodes[n].active
      /\ q.actions = nodes[n].actions /\ q.tag = nodes[n].tag
  BY <1>1 DEF Registration
<1>4. r \in Registration /\ r.actions = nodes[n].actions /\ r.tag = nodes[n].tag
  BY <1>3 DEF Registration
<1>5. nodes' = [nodes EXCEPT ![n] = r]
  <2>1. [nodes EXCEPT ![n].healthy = FALSE] = [nodes EXCEPT ![n] = q]
    OBVIOUS
  <2>2. nodes' = [[nodes EXCEPT ![n] = q] EXCEPT ![n].active = OneLess(@)]
    BY <2>1
  <2>3. [nodes EXCEPT ![n] = q][n] = q
    BY <1>1
  <2> QED
    BY <1>1, <1>2, <1>3, <2>2, <2>3
<1> HIDE DEF q, r
<1> QED  BY <1>4, <1>5, OwnershipSameClaims

(* Every step but FailOver is a call of one registry method, or of none. *)
LEMMA OneCallAtMost ==
  ASSUME TypeOK, [Next]_vars, \A t \in Task : ~FailOver(t)
  PROVE  [RegistryNext]_registryVars
<1>1. ASSUME NEW t \in Task, NEW route \in Route, NEW n \in Node,
             Admit(t, route, n) \/ RefuseAtLimit(t, route, n)
      PROVE  UNCHANGED nodes
  BY <1>1 DEF Admit, RefuseAtLimit
<1>2. ASSUME NEW t \in Task, TaskStep(t)
      PROVE  UNCHANGED nodes \/ \E n \in Node : IncrementActive(n) \/ DecrementActive(n)
  <2>1. CASE Enter(t)
    BY <2>1 DEF Enter, IncrementActive, Known, KnownIn
  <2>2. CASE Finish(t)
    BY <2>2 DEF Finish, DecrementActive, Known, KnownIn
  <2> QED
    BY <1>2, <2>1, <2>2 DEF TaskStep, EnterRefused, ConnectionFails
<1>3. ASSUME MonitorStep
      PROVE  UNCHANGED nodes \/ \E n \in Node, value \in BOOLEAN : SetHealth(n, value)
  <2>1. CASE ApplyProbe
    <3>1. probe.node \in Node /\ probe.healthy \in BOOLEAN
      BY <2>1 DEF ApplyProbe, TypeOK
    <3> QED  BY <2>1, <3>1 DEF ApplyProbe
  <2> QED  BY <1>3, <2>1 DEF MonitorStep, StartRound, ProbeNode
<1>4. ASSUME NEW offer \in Offer, NEW overwrite \in BOOLEAN, Register(offer[1], offer[2], overwrite)
      PROVE  \E n \in Node, r \in Fresh : RegisterNode(n, r, overwrite)
  <2>1. offer[1] \in Node /\ offer[2] \in Fresh
    BY DispatchAssumption
  <2> QED  BY <1>4, <2>1 DEF Register
<1>5. ASSUME NEW u \in Url, WorkerChanges(u) PROVE UNCHANGED nodes
  BY <1>5 DEF WorkerChanges
<1>6. CASE UNCHANGED vars
  BY <1>6 DEF vars, registryVars
<1> QED
  BY <1>1, <1>2, <1>3, <1>4, <1>5, <1>6 DEF Next, RegistryNext, registryVars

LEMMA DispatchKeepsOwners ==
  TypeOK /\ OwnershipIn(nodes) /\ [Next]_vars => OwnershipIn(nodes')
<1> SUFFICES ASSUME TypeOK, OwnershipIn(nodes), [Next]_vars PROVE OwnershipIn(nodes')
  OBVIOUS
<1>1. CASE \E t \in Task : FailOver(t)
  BY <1>1, FailOverKeepsOwners DEF FailOver, TypeOK
<1>2. CASE \A t \in Task : ~FailOver(t)
  BY <1>2, OneCallAtMost, OwnershipStep DEF TypeOK
<1> QED  BY <1>1, <1>2

(* If the seed file respects the ownership table, so does every registry that *)
(* running calls, failing workers, probes and registrations can bring about,  *)
(* and readiness keeps telling what routing does.                             *)
THEOREM RoutingStaysOwned ==
  ASSUME \A file \in YamlFile : CanonicalActionsOwnedIn(file) /\ NoMixedReplicasIn(file)
  PROVE  Spec => [](CanonicalActionsOwned /\ NoMixedReplicas /\ ReadinessIsRouting)
<1> DEFINE Ownership == OwnershipIn(nodes)
<1>1. Init => Ownership
  BY DEF Init, RegistryInit, LoadFromYaml, OwnershipIn
<1>2. TypeOK /\ Ownership /\ [Next]_vars => Ownership'
  BY DispatchKeepsOwners
<1>3. TypeOK /\ Ownership => CanonicalActionsOwned /\ NoMixedReplicas /\ ReadinessIsRouting
  BY OwnedIsReady DEF TypeOK, OwnershipIn, CanonicalActionsOwned, NoMixedReplicas
<1> QED
  BY <1>1, <1>2, <1>3, DispatchTypeCorrect, PTL DEF Spec

(* A packet addressed to Gate that asks for a canonical action only starts a  *)
(* call on a node of its owner, whichever node the sort by load picks and     *)
(* whoever registered while earlier calls were running.  (A Gate-authored     *)
(* packet that names its worker is not routed by its action at all.)          *)
OwnersDispatch ==
  \A t \in Task, a \in Action, n \in Node :
    Admit(t, a, n) /\ RequiredOwner[a] # NoOwner => OwnerOf(n, nodes[n]) = RequiredOwner[a]

(* If the seed file respects the ownership table, no packet addressed to Gate *)
(* takes a canonical action to another owner's node.                          *)
THEOREM CallsStayOwned ==
  ASSUME \A file \in YamlFile : CanonicalActionsOwnedIn(file) /\ NoMixedReplicasIn(file)
  PROVE  Spec => [][OwnersDispatch]_vars
<1>1. CanonicalActionsOwned => OwnersDispatch
  <2>1. \A a \in Action, n \in Node : ResolvesTo(a, n) => n \in KnownIn(nodes) /\ a \in nodes[n].actions
    BY DispatchAssumption DEF ResolvesTo, Resolves, ResolvesIn, CandidatesIn
  <2> QED  BY <2>1 DEF CanonicalActionsOwned, CanonicalActionsOwnedIn, OwnersDispatch, Admit
<1> QED
  BY <1>1, RoutingStaysOwned, PTL
=============================================================================
