------------------------------ MODULE AdminApi ------------------------------
(***************************************************************************)
(* The registry as its HTTP clients see it: batches of registrations       *)
(* (services/admin_registration_service.py), the capability views          *)
(* (services/capability_service.py) and the readiness report               *)
(* (runtime/routing_readiness.py) behind the routes of api/main.py.        *)
(*                                                                         *)
(* A batch awaits nothing between its entries, so it is one step of the    *)
(* event loop; it is no transaction, though.                               *)
(***************************************************************************)
EXTENDS NodeRegistry, Sequences, FiniteSetsExt

CONSTANTS
  Token,       \* tokens a caller may present
  NoToken,     \* no X-Admin-Token header, or no token configured
  AdminToken,  \* GateSettings.admin_token
  Malformed,   \* an entry the validators of NodeRegistration refuse
  Batch,       \* the batches sent: sequences of <<name, registration>>
  SeamActions, \* SEAM_ACTIONS, the canonical actions readiness is about
  Withheld     \* no address

ASSUME AdminAssumption ==
  /\ NoToken \notin Token
  /\ AdminToken \in Token \cup {NoToken}
  /\ Malformed \notin Fresh
  /\ Batch \subseteq Seq(Node \X (Fresh \cup {Malformed}))
  /\ SeamActions \subseteq {a \in Action : RequiredOwner[a] # NoOwner}
  /\ Withheld \notin Url
  /\ Absent \notin [actions : Actions, tag : Tag \cup {NoTag}, url : {Withheld},
                  max : 1 .. MaxCeiling, healthy : BOOLEAN, active : Nat]

(* _authorize and _is_authorized: a Gate without a token is open. *)
Authorized(presented) == AdminToken = NoToken \/ presented = AdminToken

(* _require_registry_admin_token: without a token, nobody reads the map. *)
RegistrySnapshot(reg, presented) ==
  IF AdminToken # NoToken /\ presented = AdminToken THEN reg ELSE "unauthorized"

-----------------------------------------------------------------------------
(* AdminRegistrationService.register *)

(* The table once the first i entries have been accepted: a name has the      *)
(* last of the entries that name it.                                          *)
TableAfter(reg, batch, i) ==
  [n \in Node |->
    LET mine == {j \in 1 .. i : batch[j][1] = n} IN
    IF mine = {} THEN reg[n] ELSE batch[Max(mine)][2]]

EntryAccepted(reg, batch, i, overwrite) ==
  /\ batch[i][2] # Malformed
  /\ Accepts(TableAfter(reg, batch, i - 1), batch[i][1], batch[i][2], overwrite)

(* How many entries are registered: the first refusal ends the batch. *)
Registered(reg, batch, overwrite) ==
  Max({k \in 0 .. Len(batch) : \A i \in 1 .. k : EntryAccepted(reg, batch, i, overwrite)})

(* The caller is told of success only if every entry was registered. *)
Succeeds(reg, batch, overwrite) == Registered(reg, batch, overwrite) = Len(batch)

(* What was registered before a refusal stays. *)
AfterBatch(reg, batch, overwrite) == TableAfter(reg, batch, Registered(reg, batch, overwrite))

RegisterBatch(batch, overwrite, presented) ==
  /\ Authorized(presented)
  /\ nodes' = AfterBatch(nodes, batch, overwrite)

-----------------------------------------------------------------------------
(* CapabilityService *)

Protected(a) == RequiredOwner[a] # NoOwner

Advertised(reg, a) == \E n \in KnownIn(reg) : a \in reg[n].actions

(* Mutant: the list is not filtered. *)
Projected_All(reg, protectedToo) == {a \in Action : Protected(a) \/ Advertised(reg, a)}

(* The actions _project lists. *)
Projected(reg, protectedToo) ==
  {a \in Action : IF Protected(a) THEN protectedToo ELSE Advertised(reg, a)}

(* The owner of a descriptor.  Of replicas, the last in the order of their   *)
(* first registration is shown: the model has any of them.                   *)
OwnersShown(reg, a) ==
  IF Protected(a)
    THEN {RequiredOwner[a]}
    ELSE {OwnerOf(n, reg[n]) : n \in {m \in KnownIn(reg) : a \in reg[m].actions}}

Descriptors(reg, actions) ==
  UNION {[action : {a}, owner : OwnersShown(reg, a), advertised : {Advertised(reg, a)}] : a \in actions}

(* list_capabilities: the descriptors, of which the ETag is a digest, or a   *)
(* refusal.                                                                  *)
ListCapabilities(reg, presented, includeProtected) ==
  IF includeProtected /\ ~Authorized(presented)
    THEN "unauthorized"
    ELSE Descriptors(reg, Projected(reg, Authorized(presented) \/ includeProtected))

(* Mutant: an action nobody advertises is reported before the token is asked for. *)
GetCapability_LookUpFirst(reg, a, presented) ==
  IF ~Advertised(reg, a) THEN "not_found"
  ELSE IF Protected(a) /\ ~Authorized(presented) THEN "unauthorized"
  ELSE Descriptors(reg, {a})

(* get_capability: a protected action is refused before the registry is      *)
(* looked at.                                                                *)
GetCapability(reg, a, presented) ==
  IF Protected(a) /\ ~Authorized(presented) THEN "unauthorized"
  ELSE IF a \notin Projected(reg, TRUE) THEN "not_found"
  ELSE Descriptors(reg, {a})

-----------------------------------------------------------------------------
(* GET /v1/ready, which asks for no token *)

(* Mutant: the report carries the snapshot's registrations. *)
ActionRoutability_Entries(reg, a) ==
  LET serving == {n \in KnownIn(reg) : a \in reg[n].actions} IN
  [action      |-> a,
   routable    |-> RoutableIn(reg, a),
   resolved    |-> {n \in Node : ResolvesIn(reg, a, n)},
   advertising |-> serving,
   healthy     |-> CandidatesIn(reg, a),
   owners      |-> [n \in serving |-> reg[n]]]

(* action_routability: who serves the action, who of them is in rotation,     *)
(* under which owners, and whom a request would be given to (nobody or one).  *)
ActionRoutability(reg, a) ==
  LET serving == {n \in KnownIn(reg) : a \in reg[n].actions} IN
  [action      |-> a,
   routable    |-> RoutableIn(reg, a),
   resolved    |-> {n \in Node : ResolvesIn(reg, a, n)},
   advertising |-> serving,
   healthy     |-> CandidatesIn(reg, a),
   owners      |-> [n \in serving |-> OwnerOf(n, reg[n])]]

(* routing_readiness over the actions of the seam. *)
RoutingReadiness(reg) ==
  [ready   |-> \A a \in SeamActions : RoutableIn(reg, a),
   actions |-> [a \in SeamActions |-> ActionRoutability(reg, a)]]

-----------------------------------------------------------------------------
AdminNext ==
  \/ RegistryNext
  \/ \E batch \in Batch, overwrite \in BOOLEAN, presented \in Token \cup {NoToken} :
       RegisterBatch(batch, overwrite, presented)

AdminSpec == RegistryInit /\ [][AdminNext]_registryVars

-----------------------------------------------------------------------------
(* Properties *)

(* A client that lost the answer to a batch, or got a refusal, may send the   *)
(* batch again: as long as its entries name different nodes, the second       *)
(* delivery leaves the table of the first, prefix of a refused batch          *)
(* included, and under overwrite, the default, it gets the same verdict.      *)
RepeatIsHarmless ==
  \A batch \in Batch, overwrite \in BOOLEAN :
    LET once == AfterBatch(nodes, batch, overwrite) IN
    (\A i, j \in DOMAIN batch : batch[i][1] = batch[j][1] => i = j) =>
      /\ AfterBatch(once, batch, overwrite) = once
      /\ overwrite => (Succeeds(once, batch, overwrite) <=> Succeeds(nodes, batch, overwrite))

(* The table without the canonical actions, and the table of the seam alone. *)
Redacted(reg) ==
  [n \in Node |-> IF reg[n] = Absent THEN Absent
                  ELSE [reg[n] EXCEPT !.actions = {a \in @ : ~Protected(a)}]]

SeamOnly(reg) ==
  [n \in Node |-> IF reg[n] = Absent \/ reg[n].actions \cap SeamActions = {} THEN Absent
                  ELSE [reg[n] EXCEPT !.actions = @ \cap SeamActions, !.url = Withheld]]

(* What a caller without the token is told by the routes that report the      *)
(* registry.  The registry and capability routes, with any query, answer as   *)
(* if no canonical action were registered: not even the kind of refusal       *)
(* differs.  The readiness route is public and does name nodes and owners; it *)
(* answers as if only the seam's actions were registered, without addresses   *)
(* and without the nodes that serve none of them.                             *)
PublicViewIsBounded ==
  /\ RoutingReadiness(nodes) = RoutingReadiness(SeamOnly(nodes))
  /\ \A presented \in Token \cup {NoToken} : ~Authorized(presented) =>
       /\ RegistrySnapshot(nodes, presented) = RegistrySnapshot(Redacted(nodes), presented)
       /\ \A include \in BOOLEAN :
            ListCapabilities(nodes, presented, include) = ListCapabilities(Redacted(nodes), presented, include)
       /\ \A a \in Action :
            GetCapability(nodes, a, presented) = GetCapability(Redacted(nodes), a, presented)
=============================================================================
