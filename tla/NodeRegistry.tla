---------------------------- MODULE NodeRegistry ----------------------------
(***************************************************************************)
(* The Gate's node registry (routing/node_registry.py) and the action      *)
(* ownership rules it enforces (routing/action_ownership.py): which worker *)
(* nodes exist, which actions each one serves, who owns an action, which   *)
(* nodes are in rotation, and how many dispatches each one has running.    *)
(*                                                                         *)
(* The registry guards every method with one RLock, so a method is one     *)
(* step.  Names are already normalised (stripped, lower case); a node name *)
(* stands for its rank in the lexicographic order of names.                *)
(***************************************************************************)
EXTENDS Naturals

CONSTANTS
  Node,             \* node names, ordered like their strings
  Action,           \* action names
  ADMISSION_ACTION, \* the reserved action no node may register
  Owner,            \* semantic owners ("ceg", "eie", or an unknown owner's own name)
  NoOwner,          \* Python's None where an owner is asked for
  Tag,              \* the values of metadata["owner"] a registration may carry
  NoTag,            \* metadata has no owner, or a blank one
  Url,              \* worker base addresses (internal_url)
  MaxCeiling,       \* bound on max_concurrent
  RequiredOwner,    \* CANONICAL_ACTION_OWNERS, NoOwner for the other actions
  TagOwner,         \* normalize_owner(tag, allow_unknown=True)
  NameOwner,        \* normalize_owner(name, allow_unknown=False)
  Absent,           \* the value of a name with no entry
  YamlFile          \* the registries node_registry.yaml may describe

Actions == (SUBSET (Action \ {ADMISSION_ACTION})) \ {{}}

(* NodeRegistration: what the registry keeps per name.  Its validators       *)
(* refuse an empty action list and the reserved action.  active_requests     *)
(* counts the dispatches running on the node.                                *)
Registration ==
  [actions : Actions,
   tag     : Tag \cup {NoTag},
   url     : Url,
   max     : 1 .. MaxCeiling,
   healthy : BOOLEAN,
   active  : Nat]

Registry == [Node -> Registration \cup {Absent}]

ASSUME RegistryAssumption ==
  /\ Node \subseteq Nat
  /\ MaxCeiling \in Nat \ {0}
  /\ NoOwner \notin Owner
  /\ NoTag \notin Tag
  /\ Absent \notin Registration
  /\ RequiredOwner \in [Action -> Owner \cup {NoOwner}]
  /\ TagOwner \in [Tag -> Owner]
  /\ NameOwner \in [Node -> Owner \cup {NoOwner}]
  /\ YamlFile \subseteq Registry

VARIABLE nodes      \* NodeRegistry._nodes

registryVars == <<nodes>>

KnownIn(reg) == {n \in Node : reg[n] # Absent}

Known == KnownIn(nodes)

-----------------------------------------------------------------------------
(* Ownership *)

(* owner_for_registration: an explicit tag wins over the node's name. *)
OwnerOf(n, r) == IF r.tag # NoTag THEN TagOwner[r.tag] ELSE NameOwner[n]

(* The claim of a registration on one action, checked against the canonical *)
(* owner of that action.                                                    *)
ClaimAllowed(a, claimant) ==
  RequiredOwner[a] # NoOwner => claimant = RequiredOwner[a]

(* Mutant: only canonical actions are checked for a collision. *)
MayShare_CanonicalOnly(a, claimant, other) ==
  \/ RequiredOwner[a] = NoOwner
  \/ claimant = NoOwner \/ other = NoOwner \/ claimant = other

(* Mutant: a claim without an owner is weighed against the others like any.  *)
MayShare_OneWay(a, claimant, other) == other = NoOwner \/ claimant = other

(* Two nodes may serve one action when the second conjunct of each check in *)
(* assert_registration_ownership lets them: an action nobody owns may have  *)
(* replicas as long as one of the two names no owner.                       *)
MayShare(a, claimant, other) ==
  \/ RequiredOwner[a] = NoOwner /\ (claimant = NoOwner \/ other = NoOwner)
  \/ /\ claimant = NoOwner \/ other = NoOwner \/ claimant = other
     /\ RequiredOwner[a] = NoOwner \/ other = NoOwner \/ other = RequiredOwner[a]

(* Mutant: the claim itself is not compared with the ownership table. *)
OwnershipAdmits_NoClaimCheck(reg, n, r) ==
  \A a \in r.actions : \A m \in KnownIn(reg) \ {n} :
    a \in reg[m].actions => MayShare(a, OwnerOf(n, r), OwnerOf(m, reg[m]))

(* assert_registration_ownership against every other registered node. *)
OwnershipAdmits(reg, n, r) ==
  \A a \in r.actions :
    /\ ClaimAllowed(a, OwnerOf(n, r))
    /\ \A m \in KnownIn(reg) \ {n} :
         a \in reg[m].actions => MayShare(a, OwnerOf(n, r), OwnerOf(m, reg[m]))

-----------------------------------------------------------------------------
(* Lookups *)

CandidatesIn(reg, a) == {n \in KnownIn(reg) : a \in reg[n].actions /\ reg[n].healthy}

(* The sort key of resolve_action: load, then ceiling, then name. *)
SortsBefore(reg, n, m) ==
  \/ reg[n].active < reg[m].active
  \/ /\ reg[n].active = reg[m].active
     /\ \/ reg[n].max < reg[m].max
        \/ reg[n].max = reg[m].max /\ n < m

(* resolve_action returns n: the first of the healthy nodes serving a. *)
ResolvesIn(reg, a, n) ==
  /\ n \in CandidatesIn(reg, a)
  /\ \A m \in CandidatesIn(reg, a) \ {n} : SortsBefore(reg, n, m)

(* action_routability: an action is routable when it resolves, and resolves   *)
(* to a node of its canonical owner.                                          *)
RoutableIn(reg, a) ==
  \E n \in Node :
    ResolvesIn(reg, a, n) /\ (RequiredOwner[a] # NoOwner => OwnerOf(n, reg[n]) = RequiredOwner[a])

Candidates(a) == CandidatesIn(nodes, a)

Resolves(a, n) == ResolvesIn(nodes, a, n)

Routable(a) == RoutableIn(nodes, a)

(* resolve_destination returns n: a packet that names its worker gets it when *)
(* it is in rotation, whatever actions it serves.                             *)
ResolvesDestination(n) == n \in Known /\ nodes[n].healthy

-----------------------------------------------------------------------------
(* Mutators *)

(* load_from_yaml replaces the whole table.  It runs once, before the Gate  *)
(* serves; an empty table stands for a Gate started without a seed file.    *)
LoadFromYaml(file) == nodes = file

(* register_node: a name already there needs overwrite, and the claim must  *)
(* pass the ownership check; a refused registration changes nothing.        *)
Accepts(reg, n, r, overwrite) ==
  /\ n \in KnownIn(reg) => overwrite
  /\ OwnershipAdmits(reg, n, r)

RegisterNode(n, r, overwrite) ==
  /\ Accepts(nodes, n, r, overwrite)
  /\ nodes' = [nodes EXCEPT ![n] = r]

SetHealth(n, value) ==
  /\ n \in Known
  /\ nodes' = [nodes EXCEPT ![n].healthy = value]

(* Mutant: one dispatch too many. *)
AtCeiling_OffByOne(n) == nodes[n].active > nodes[n].max

AtCeiling(n) == nodes[n].active >= nodes[n].max

IncrementActive(n) ==
  /\ n \in Known
  /\ ~AtCeiling(n)
  /\ nodes' = [nodes EXCEPT ![n].active = @ + 1]

(* Mutant: no floor under the counter. *)
OneLess_NoFloor(k) == k - 1

(* The counter is floored at zero. *)
OneLess(k) == IF k > 0 THEN k - 1 ELSE 0

DecrementActive(n) ==
  /\ n \in Known
  /\ nodes' = [nodes EXCEPT ![n].active = OneLess(@)]

-----------------------------------------------------------------------------
(* The registry under callers that may call any method at any time.  A       *)
(* registration arriving over the admin API is healthy and has no running    *)
(* dispatch.                                                                 *)

Fresh ==
  [actions : Actions, tag : Tag \cup {NoTag}, url : Url, max : 1 .. MaxCeiling,
   healthy : {TRUE}, active : {0}]

RegistryInit == \E file \in YamlFile : LoadFromYaml(file)

RegistryNext ==
  \E n \in Node :
    \/ \E r \in Fresh, overwrite \in BOOLEAN : RegisterNode(n, r, overwrite)
    \/ \E value \in BOOLEAN : SetHealth(n, value)
    \/ IncrementActive(n)
    \/ DecrementActive(n)

RegistrySpec == RegistryInit /\ [][RegistryNext]_registryVars

-----------------------------------------------------------------------------
(* Properties *)

(* The registry is a table of well-formed registrations: no entry ever has   *)
(* an empty action list or serves the reserved admission action.             *)
RegistryTypeOK == nodes \in Registry

(* Every node that serves a canonical action is of the owner the ownership   *)
(* table names for it, through any sequence of registrations, overwrites,    *)
(* health changes and dispatches (action_ownership.py: "cross-owner claims   *)
(* are collisions and must fail closed").                                    *)
CanonicalActionsOwnedIn(reg) ==
  \A n \in KnownIn(reg) : \A a \in reg[n].actions :
    RequiredOwner[a] # NoOwner => OwnerOf(n, reg[n]) = RequiredOwner[a]

CanonicalActionsOwned == CanonicalActionsOwnedIn(nodes)

(* Two nodes that name different owners never serve the same action, so the  *)
(* load balancer of resolve_action never mixes two domain contracts behind   *)
(* one route.  The check runs only against the table of that moment, from    *)
(* the side of the newcomer, and an overwrite may change a node's owner.     *)
NoMixedReplicasIn(reg) ==
  \A n, m \in KnownIn(reg) :
    reg[n].actions \cap reg[m].actions # {} =>
      \/ OwnerOf(n, reg[n]) = NoOwner
      \/ OwnerOf(m, reg[m]) = NoOwner
      \/ OwnerOf(n, reg[n]) = OwnerOf(m, reg[m])

NoMixedReplicas == NoMixedReplicasIn(nodes)

(* The load counter never passes the node's own ceiling, whatever ceiling an *)
(* overwrite brings: registering anew starts the counter at zero.            *)
ActiveWithinCeilingIn(reg) == \A n \in KnownIn(reg) : reg[n].active <= reg[n].max

ActiveWithinCeiling == ActiveWithinCeilingIn(nodes)

(* The readiness check says of every action exactly whether a request for it  *)
(* finds a worker: what resolves always belongs to the right owner, so Gate   *)
(* never serves an action it reports as not routable.                         *)
ReadinessIsRouting == \A a \in Action : Routable(a) <=> Candidates(a) # {}
=============================================================================
