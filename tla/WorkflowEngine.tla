--------------------------- MODULE WorkflowEngine ---------------------------
(***************************************************************************)
(* One composite action (orchestration/workflow_engine.py): the steps of   *)
(* its definition run one after the other, each through the dispatcher,    *)
(* all on the one budget of the packet (resilience/deadline.py), which     *)
(* ExecuteService enforces from outside.                                   *)
(*                                                                         *)
(* A payload maps each key to the step that wrote its value, 0 for the     *)
(* caller.  A condition that reads a value gets any value: the model keeps *)
(* which keys there are, and which step wrote them, not what they hold.    *)
(***************************************************************************)
EXTENDS Conditions

CONSTANTS
  Definition,   \* the workflow definitions an execution may run
  PayloadKey,   \* the keys of a payload
  DataKey,      \* the key "data", which merge_results looks into
  CallerKeys,   \* the keys the caller sends
  Verdict,      \* what a response hop may report: success TRUE, failure FALSE
  HeaderTimeout, \* header.timeout_ms of the packet a step follows, Unset for none
  NodeCap,      \* timeout_ms of the workers' registrations, in ticks
  Budget,       \* the packet's budget, in ticks
  Value         \* the values a condition may read

(* A response: its keys, the keys under "data" if that is a mapping, and the  *)
(* status its response hop reports.                                           *)
Response == [keys : SUBSET PayloadKey, data : SUBSET PayloadKey \cup {Unset}, ok : Verdict]

(* "data" can be a mapping only where the response has that key. *)
WellFormed(resp) == resp.data # Unset => DataKey \in resp.keys

(* A step as WorkflowStep validates it; a definition has at least one. *)
WorkflowStep ==
  [merge     : {"identity", "merge_payload", "merge_results"},
   condition : Expr \cup {Unset},
   timeout   : (Nat \ {0}) \cup {Unset}]

ASSUME WorkflowAssumption ==
  /\ DataKey \in PayloadKey /\ CallerKeys \subseteq PayloadKey
  /\ Verdict \subseteq BOOLEAN
  /\ HeaderTimeout \subseteq (Nat \ {0}) \cup {Unset}
  /\ {NodeCap, Budget} \subseteq Nat \ {0}
  /\ Unset \notin Nat
  /\ \A d \in Definition : d \in Seq(WorkflowStep) /\ d # <<>>

VARIABLES
  definition, \* the steps of this workflow
  index,      \* the step the loop is at
  phase,      \* deciding, waiting for the dispatcher, answered or failed
  payload,    \* current_payload
  latest,     \* latest_response_payload
  advertised, \* header.timeout_ms of the step packet
  attempt,    \* what is left to the worker attempt
  elapsed,    \* time since the packet's deadline was set
  log         \* history: the steps run, each with its response

vars == <<definition, index, phase, payload, latest, advertised, attempt, elapsed, log>>

step == definition[index]

remaining == Budget - elapsed

Smaller(a, b) == IF a < b THEN a ELSE b

-----------------------------------------------------------------------------
(* Conditions and payloads *)

(* What a condition sees: the keys of the current payload and of the latest   *)
(* response, each with some value.                                            *)
Contexts ==
  {[keys  |-> [payload  |-> {k \in PayloadKey : payload[k] # Unset},
               response |-> IF latest = Unset THEN Unset ELSE latest.keys],
    value |-> v] : v \in [{"payload", "response"} -> [PayloadKey -> Value]]}

(* _should_execute_step: the ways the condition may come out.  A step without *)
(* one always runs.                                                           *)
Outcomes(cond) == IF cond = Unset THEN {1} ELSE {Eval(c)[cond] : c \in Contexts}

Raises(cond) == Raise \in Outcomes(cond)

MayFail(cond) == 0 \in Outcomes(cond)

MayHold(cond) == Outcomes(cond) \ {0, Raise} # {}

(* dict.update of the current payload with keys step i wrote. *)
Updated(keys, i) == [k \in PayloadKey |-> IF k \in keys THEN i ELSE payload[k]]

(* Mutant: merge_results takes the envelope, not the data in it. *)
MergePayload_KeepsEnvelope(strategy, resp, i) ==
  IF strategy = "identity" THEN [k \in PayloadKey |-> IF k \in resp.keys THEN i ELSE Unset]
  ELSE Updated(resp.keys, i)

(* _merge_payload *)
MergePayload(strategy, resp, i) ==
  IF strategy = "identity" THEN [k \in PayloadKey |-> IF k \in resp.keys THEN i ELSE Unset]
  ELSE IF strategy = "merge_results" /\ resp.data # Unset THEN Updated(resp.data, i)
  ELSE Updated(resp.keys, i)

-----------------------------------------------------------------------------
(* Budgets *)

(* What a step may ask for: its own timeout, else that of the caller's packet *)
(* or of the answer before it.                                                *)
Declared(inherited) == IF step.timeout # Unset THEN step.timeout ELSE inherited

(* Mutant: a declared timeout is not held to what remains. *)
StepTimeout_Unclamped(inherited) ==
  IF Declared(inherited) = Unset THEN remaining ELSE Declared(inherited)

(* _step_timeout_ms: the declared timeout, within what remains. *)
StepTimeout(inherited) ==
  IF Declared(inherited) = Unset THEN remaining ELSE Smaller(Declared(inherited), remaining)

(* Mutant: the attempt gets the node's timeout whatever remains. *)
WorkerBudget_NodeCapOnly == NodeCap

(* Dispatcher._worker_budget_ms, which the dispatched packet advertises in    *)
(* place of the step packet's own timeout.                                    *)
WorkerBudget == Smaller(NodeCap, remaining)

-----------------------------------------------------------------------------
(* The loop *)

(* The condition is false: on to the next step. *)
Skip ==
  /\ phase = "deciding" /\ index <= Len(definition)
  /\ MayFail(step.condition)
  /\ index' = index + 1
  /\ UNCHANGED <<definition, phase, payload, latest, advertised, attempt, elapsed, log>>

(* Evaluating the condition raises, or no budget is left for the step.        *)
Abort ==
  /\ phase = "deciding" /\ index <= Len(definition)
  /\ Raises(step.condition) \/ (MayHold(step.condition) /\ remaining = 0)
  /\ phase' = "failed"
  /\ UNCHANGED <<definition, index, payload, latest, advertised, attempt, elapsed, log>>

(* The step's packet goes to the dispatcher. *)
DispatchStep(inherited) ==
  /\ phase = "deciding" /\ index <= Len(definition)
  /\ MayHold(step.condition)
  /\ remaining > 0
  /\ advertised' = StepTimeout(inherited)
  /\ attempt' = WorkerBudget
  /\ phase' = "waiting"
  /\ UNCHANGED <<definition, index, payload, latest, elapsed, log>>

(* The worker answers, with a success or with a failure it reports: the       *)
(* engine merges the answer and goes on in either case.                       *)
StepAnswers(resp) ==
  /\ phase = "waiting"
  /\ latest' = resp
  /\ payload' = MergePayload(step.merge, resp, index)
  /\ log' = Append(log, [step |-> index, response |-> resp])
  /\ index' = index + 1
  /\ phase' = "deciding"
  /\ attempt' = 0
  /\ UNCHANGED <<definition, advertised, elapsed>>

(* The dispatcher raises: no worker, no permit, a failed call, or a call that *)
(* outlasts the attempt's budget.                                             *)
StepRaises ==
  /\ phase = "waiting"
  /\ phase' = "failed"
  /\ attempt' = 0
  /\ UNCHANGED <<definition, index, payload, latest, advertised, elapsed, log>>

(* Every step ran or was skipped: the response to the packet is derived.      *)
Respond ==
  /\ phase = "deciding" /\ index = Len(definition) + 1
  /\ phase' = "answered"
  /\ UNCHANGED <<definition, index, payload, latest, advertised, attempt, elapsed, log>>

(* ExecuteService's wait_for gives up on the whole workflow. *)
BudgetSpent ==
  /\ phase = "waiting" /\ remaining = 0
  /\ phase' = "failed"
  /\ attempt' = 0
  /\ UNCHANGED <<definition, index, payload, latest, advertised, elapsed, log>>

(* Time passes while a worker is busy, and between steps only as far as the   *)
(* event loop takes its time.                                                 *)
Tick ==
  /\ phase \in {"deciding", "waiting"} /\ remaining > 0
  /\ phase = "waiting" => attempt > 0
  /\ elapsed' = elapsed + 1
  /\ attempt' = IF phase = "waiting" THEN attempt - 1 ELSE attempt
  /\ UNCHANGED <<definition, index, phase, payload, latest, advertised, log>>

-----------------------------------------------------------------------------
Init ==
  /\ definition \in Definition
  /\ index = 1 /\ phase = "deciding"
  /\ payload = [k \in PayloadKey |-> IF k \in CallerKeys THEN 0 ELSE Unset]
  /\ latest = Unset
  /\ advertised = 0 /\ attempt = 0 /\ elapsed = 0
  /\ log = <<>>

Next ==
  \/ Skip
  \/ Abort
  \/ \E inherited \in HeaderTimeout : DispatchStep(inherited)
  \/ Respond
  \/ \E resp \in Response : WellFormed(resp) /\ StepAnswers(resp)
  \/ StepRaises
  \/ BudgetSpent
  \/ Tick

Spec == Init /\ [][Next]_vars

-----------------------------------------------------------------------------
(* Properties *)

TypeOK ==
  /\ definition \in Definition
  /\ index \in 1 .. Len(definition) + 1
  /\ phase \in {"deciding", "waiting", "answered", "failed"}
  /\ payload \in [PayloadKey -> 0 .. Len(definition) \cup {Unset}]
  /\ latest \in Response \cup {Unset}
  /\ {advertised, attempt, elapsed} \subseteq 0 .. Budget
  /\ log \in Seq([step : Nat, response : Response])

(* No attempt of any step can outlast the packet that authorised the work,    *)
(* whatever its predecessors used up (deadline.py: every stage "draws from    *)
(* the same remaining budget").                                               *)
AttemptFitsBudget == phase = "waiting" => elapsed + attempt <= Budget

(* Whatever the steps return, the payload handed on holds for every key the   *)
(* value of the last step that decides about it: a merge_results step decides *)
(* about the keys of its data, if it has any, an identity step about every    *)
(* key, and every other step about the keys it returns.  (That an identity    *)
(* step hands on its response is the code's reading of it, not that of the    *)
(* documents: see IdentityPassesPayload.)                                     *)
Decides(entry, k) ==
  LET s == definition[entry.step] IN
  \/ s.merge = "identity"
  \/ s.merge = "merge_payload" /\ k \in entry.response.keys
  \/ s.merge = "merge_results" /\ entry.response.data = Unset /\ k \in entry.response.keys
  \/ s.merge = "merge_results" /\ entry.response.data # Unset /\ k \in entry.response.data

LastWriter(k) ==
  LET deciders == {i \in 1 .. Len(log) : Decides(log[i], k)} IN
  IF deciders = {} THEN (IF k \in CallerKeys THEN 0 ELSE Unset)
  ELSE LET entry == log[Max(deciders)] IN
       IF definition[entry.step].merge = "identity" /\ k \notin entry.response.keys
         THEN Unset ELSE entry.step

PayloadHasLastWriter == \A k \in PayloadKey : payload[k] = LastWriter(k)

(* A condition decides as its expression reads, in every state a workflow     *)
(* gets to, unless it compares or reckons with what an and or an or gives:    *)
(* evaluating all operands may make it raise where the language would have    *)
(* stopped before, but never changes the verdict nor hides a failure.         *)
ConditionsDecideRightly ==
  phase = "deciding" /\ index <= Len(definition) /\ step.condition \in PlainExpr =>
    \A c \in Contexts :
      LET decided == Eval(c)[step.condition]
          meant   == Meaning(c)[step.condition]
      IN decided = Raise \/ (meant # Raise /\ (decided = 0 <=> meant = 0))

(* contracts/WORKFLOW_SPEC.md: "`identity` - pass current payload unchanged". *)
(* A workflow whose steps so far were all identity steps still has the        *)
(* caller's payload.                                                          *)
IdentityPassesPayload ==
  (\A i \in 1 .. Len(log) : definition[log[i].step].merge = "identity") =>
    \A k \in PayloadKey : payload[k] = IF k \in CallerKeys THEN 0 ELSE Unset

(* contracts/WORKFLOW_SPEC.md: "step failure terminates workflow".  A step    *)
(* that answers with a failure packet is the last one dispatched.             *)
FailureTerminates == \A i \in 1 .. Len(log) : i < Len(log) => log[i].response.ok
=============================================================================
