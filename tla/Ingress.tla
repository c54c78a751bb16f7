------------------------------ MODULE Ingress ------------------------------
(***************************************************************************)
(* What stands between a caller and the execution path: the settings Gate  *)
(* agrees to start with (config/settings.py), the validation of a packet   *)
(* under them (boundary/ingress_validator.py), the admission probe that    *)
(* tells a caller what it may invoke, and the rate limiter behind both.    *)
(* Settings are frozen when Gate starts, so they never change here.        *)
(*                                                                         *)
(* The packet itself is checked by the node SDK, an external library; of   *)
(* its checks the model keeps the signature, when one is required, and the *)
(* list of allowed actions.                                                *)
(***************************************************************************)
EXTENDS RateLimiter

CONSTANTS
  KeyId,      \* signing key ids
  Tenant,
  Action,     \* routable actions
  Admission,  \* ADMISSION_ACTION, reserved for the probe
  PolicyOf,   \* the caller policy a key id has, if one is configured for it
  OwnKeys,    \* the key ids Gate may sign with itself, or none
  Allowed,    \* the values of L9_ALLOWED_ACTIONS; the empty set allows all
  NoKey,      \* unsigned; no key id
  NoPacket

ASSUME IngressAssumption ==
  /\ PolicyOf \in [KeyId -> [node : Key, tenants : SUBSET Tenant, actions : SUBSET Action]]
  /\ Admission \notin Action
  /\ NoKey \notin KeyId
  /\ OwnKeys \subseteq KeyId \cup {NoKey}
  /\ Allowed \subseteq SUBSET Action

(* strays: the packet claims to come from a node and targets a peer directly, *)
(* or names another original source.  genuine: the signature is the key's.    *)
Packet ==
  [key : KeyId \cup {NoKey}, genuine : BOOLEAN, source : Key, tenant : Tenant,
   action : Action \cup {Admission}, strays : BOOLEAN]

ASSUME NoPacketAssumption == NoPacket \notin Packet

(* What the running Gate reads of its settings.  trusted: staging or prod.    *)
Settings ==
  [trusted : BOOLEAN, require_signature : BOOLEAN, verifying_keys : SUBSET KeyId,
   signing_key_id : OwnKeys, caller_policies : SUBSET KeyId, allowed_actions : Allowed]

VARIABLES
  settings,
  last  \* history: the packet last let through, or NoPacket

vars == <<settings, last, limiterVars>>

-----------------------------------------------------------------------------
(* Settings Gate starts with. *)

(* Mutant: policies are accepted though nothing proves the key id. *)
PoliciesAreProvable_Unsigned(s) == s.caller_policies \subseteq s.verifying_keys

(* validate_caller_policies *)
PoliciesAreProvable(s) ==
  /\ s.caller_policies # {} => s.require_signature
  /\ s.caller_policies \subseteq s.verifying_keys

(* validate_production_trust_boundary, where the boundary is declared as      *)
(* "signature", "network" or nothing, and evidence may be missing.            *)
BoundaryProven(s, boundary, evidence, devMode) ==
  /\ ~devMode
  /\ s.require_signature => s.verifying_keys # {}
  /\ s.require_signature \/ (boundary = "network" /\ evidence)

(* The model validators of GateSettings, in their order: the settings s pass  *)
(* them with some values of those that are read at startup only.              *)
Starts(s) ==
  \E boundary \in {"unset", "network", "signature"} :
    \E evidence, devMode, adminToken \in BOOLEAN :
      /\ PoliciesAreProvable(s)
      /\ s.trusted =>
           /\ BoundaryProven(s, boundary, evidence, devMode)
           /\ adminToken
           /\ s.verifying_keys \subseteq s.caller_policies

-----------------------------------------------------------------------------
(* Validation of a packet. *)

(* resolve_verifying_key *)
Resolvable(k) == k \in settings.verifying_keys \cup ({settings.signing_key_id} \ {NoKey})

(* The SDK's check.  Where no signature is required the model checks none, a  *)
(* claimed key then proves nothing.                                           *)
SignatureHolds(p) == settings.require_signature => p.genuine /\ Resolvable(p.key)

(* _validate_packet, with the list of actions the caller of it passes on. *)
PacketHolds(p, allowedActions) ==
  /\ SignatureHolds(p)
  /\ allowedActions # {} => p.action \in allowedActions
  /\ ~p.strays

PolicyInForce == settings.caller_policies # {} \/ settings.trusted

(* Mutant: with an empty map every packet passes, in production too. *)
PolicyAdmits_EmptyMapIsOpen(p, checkAction) ==
  settings.caller_policies = {} \/
    /\ p.key \in settings.caller_policies
    /\ p.source = PolicyOf[p.key].node
    /\ p.tenant \in PolicyOf[p.key].tenants
    /\ checkAction => p.action \in PolicyOf[p.key].actions

(* Mutant: the source node is not compared with the policy's. *)
PolicyAdmits_AnySource(p, checkAction) ==
  PolicyInForce =>
    /\ p.key \in settings.caller_policies
    /\ p.tenant \in PolicyOf[p.key].tenants
    /\ checkAction => p.action \in PolicyOf[p.key].actions

(* _resolve_caller_policy raises nothing. *)
PolicyAdmits(p, checkAction) ==
  PolicyInForce =>
    /\ p.key \in settings.caller_policies
    /\ p.source = PolicyOf[p.key].node
    /\ p.tenant \in PolicyOf[p.key].tenants
    /\ checkAction => p.action \in PolicyOf[p.key].actions

(* validate *)
Validates(p) ==
  /\ PacketHolds(p, settings.allowed_actions)
  /\ p.action # Admission
  /\ PolicyAdmits(p, TRUE)

(* validate_admission: the probe passes the same checks, but for the allowed  *)
(* actions and its own action, and must be signed.                            *)
ValidatesAdmission(p) ==
  /\ PacketHolds(p, {})
  /\ p.action = Admission
  /\ p.key # NoKey
  /\ PolicyAdmits(p, FALSE)

(* Mutant: the answer is what is registered, whatever the caller's scope. *)
GrantedActions_AllRoutable(p, routable) == routable

(* AdmissionService.admit: the actions the receipt grants, of those routable. *)
GrantedActions(p, routable) ==
  IF PolicyInForce THEN PolicyOf[p.key].actions \cap routable ELSE routable

-----------------------------------------------------------------------------

(* Mutant: the limiter is asked before the packet is validated. *)
Ingest_LimitFirst(p) ==
  /\ Allow(p.source)
  /\ last' = IF Validates(p) THEN p ELSE last
  /\ UNCHANGED settings

(* execute up to and including the rate limiter, for a packet that passes:    *)
(* one that is refused by either leaves nothing behind.                       *)
Ingest(p) ==
  /\ Validates(p)
  /\ Allow(p.source)
  /\ last' = p
  /\ UNCHANGED settings

Tick == TimePasses /\ UNCHANGED <<settings, last>>

Init ==
  /\ settings \in {s \in Settings : Starts(s)}
  /\ last = NoPacket
  /\ LimiterInit

Next == (\E p \in Packet : Ingest(p)) \/ Tick

Spec == Init /\ [][Next]_vars

-----------------------------------------------------------------------------
(* Properties *)

(* The limiter's counters keep their shape and bound, and a packet let        *)
(* through is a packet.                                                       *)
TypeOK ==
  /\ LimiterTypeOK
  /\ settings \in Settings
  /\ last \in Packet \cup {NoPacket}

(* p is signed with a configured key whose policy names its source, tenant    *)
(* and action.                                                                *)
Scoped(p) ==
  /\ p.genuine
  /\ p.key \in settings.verifying_keys \cap settings.caller_policies
  /\ p.source = PolicyOf[p.key].node
  /\ p.tenant \in PolicyOf[p.key].tenants
  /\ p.action \in PolicyOf[p.key].actions

(* In staging and prod, and elsewhere once any policy is configured, nothing  *)
(* passes but what a proven key's policy covers.  The proof of the key is the *)
(* settings' business and the policy the validator's: neither is enough.      *)
OnlyScopedPackets == last # NoPacket /\ PolicyInForce => Scoped(last)

(* In staging and prod the quota of a source node is spent by keys bound to   *)
(* that node only: a refused packet costs nobody a request.                   *)
SpentByOwner ==
  \A n \in Key :
    counters'[n] # counters[n] /\ settings.trusted =>
      /\ last' # NoPacket
      /\ last'.source = n
      /\ last'.key \in settings.caller_policies
      /\ PolicyOf[last'.key].node = n

QuotaIsOwn == [][SpentByOwner]_vars

(* The receipt of a probe is what execute does: it grants exactly the         *)
(* routable actions the same caller could invoke, unless the list of allowed  *)
(* actions, which the probe does not read, says otherwise.                    *)
ProbeIsExact ==
  settings.allowed_actions = {} =>
    \A p \in {q \in Packet : ValidatesAdmission(q)} : \A routable \in SUBSET Action :
      GrantedActions(p, routable) = {act \in routable : Validates([p EXCEPT !.action = act])}

(* The network boundary is one of the two ways the settings offer to run in   *)
(* staging and prod; a Gate that starts with it lets some packet through.     *)
NetworkBoundaryServes ==
  settings.trusted /\ ~settings.require_signature => \E p \in Packet : Validates(p)
=============================================================================
