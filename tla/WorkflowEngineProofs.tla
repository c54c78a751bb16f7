------------------------ MODULE WorkflowEngineProofs ------------------------
(* Proofs about WorkflowEngine, for workflows of any length and any budgets. *)
EXTENDS WorkflowEngine, Extremes, TLAPS

Entry == [step : Nat, response : Response]

(* The loop waits for steps of the definition only, and only they are logged. *)
LoopInv ==
  /\ phase = "waiting" => index <= Len(definition)
  /\ \A i \in 1 .. Len(log) : log[i].step \in 1 .. Len(definition)

TimeInv == TypeOK /\ LoopInv /\ AttemptFitsBudget

(* What the steps of a definition are. *)
LEMMA StepType ==
  ASSUME definition \in Definition, index \in Nat \ {0}, index <= Len(definition)
  PROVE  step \in WorkflowStep
  BY WorkflowAssumption DEF step

(* A step's own timeout and its worker's budget fit what remains. *)
LEMMA BudgetTypes ==
  ASSUME TypeOK, index <= Len(definition), NEW inherited \in HeaderTimeout
  PROVE  /\ StepTimeout(inherited) \in 0 .. Budget
         /\ WorkerBudget \in 0 .. Budget /\ elapsed + WorkerBudget <= Budget
<1>1. elapsed \in 0 .. Budget /\ Budget \in Nat /\ NodeCap \in Nat
  BY WorkflowAssumption DEF TypeOK
<1>2. remaining \in 0 .. Budget /\ elapsed + remaining = Budget
  BY <1>1 DEF remaining
<1>3. Len(definition) \in Nat
  BY WorkflowAssumption DEF TypeOK
<1>4. step.timeout \in Nat \cup {Unset}
  <2>1. index \in Nat \ {0} /\ definition \in Definition
    BY <1>3 DEF TypeOK
  <2> QED  BY <2>1, StepType DEF WorkflowStep
<1>5. StepTimeout(inherited) \in 0 .. Budget
  <2>1. Declared(inherited) \in Nat \cup {Unset}
    BY <1>4, WorkflowAssumption DEF Declared
  <2> QED  BY <1>1, <1>2, <2>1 DEF StepTimeout, Smaller
<1>6. WorkerBudget \in 0 .. Budget /\ WorkerBudget <= remaining
  BY <1>1, <1>2 DEF WorkerBudget, Smaller
<1> QED  BY <1>1, <1>2, <1>5, <1>6

(* Merging writes the number of the step, keeps an older one, or removes. *)
LEMMA MergeType ==
  ASSUME TypeOK, NEW resp \in Response, NEW strategy, index <= Len(definition)
  PROVE  MergePayload(strategy, resp, index) \in [PayloadKey -> 0 .. Len(definition) \cup {Unset}]
<1>1. Len(definition) \in Nat
  BY WorkflowAssumption DEF TypeOK
<1>2. index \in 0 .. Len(definition)
  BY <1>1 DEF TypeOK
<1>3. payload \in [PayloadKey -> 0 .. Len(definition) \cup {Unset}]
  BY DEF TypeOK
<1> QED  BY <1>2, <1>3 DEF MergePayload, Updated

LEMMA TimeInit == Init => TimeInv
<1> SUFFICES ASSUME Init PROVE TimeInv
  OBVIOUS
<1>1. Len(definition) \in Nat /\ Budget \in Nat
  BY WorkflowAssumption DEF Init
<1>2. payload \in [PayloadKey -> 0 .. Len(definition) \cup {Unset}]
  BY <1>1 DEF Init
<1>3. log \in Seq(Entry) /\ Len(log) = 0
  BY DEF Init
<1> QED  BY <1>1, <1>2, <1>3 DEF Init, TimeInv, TypeOK, LoopInv, AttemptFitsBudget, Entry

LEMMA TimeStep == TimeInv /\ [Next]_vars => TimeInv'
<1> SUFFICES ASSUME TimeInv, [Next]_vars PROVE TimeInv'
  OBVIOUS
<1> USE DEF TimeInv
<1>1. /\ definition \in Definition /\ Len(definition) \in Nat /\ Budget \in Nat
      /\ index \in 1 .. Len(definition) + 1
      /\ advertised \in 0 .. Budget /\ attempt \in 0 .. Budget /\ elapsed \in 0 .. Budget
      /\ payload \in [PayloadKey -> 0 .. Len(definition) \cup {Unset}]
      /\ latest \in Response \cup {Unset} /\ log \in Seq(Entry)
  BY WorkflowAssumption DEF TypeOK, Entry
<1>2. definition' = definition
  BY DEF Next, vars, Skip, Abort, DispatchStep, Respond, StepAnswers, StepRaises, BudgetSpent, Tick
<1>3. CASE Skip
  <2>1. index' \in 1 .. Len(definition) + 1
    BY <1>1, <1>3 DEF Skip
  <2> QED  BY <1>1, <1>2, <1>3, <2>1 DEF Skip, TypeOK, LoopInv, AttemptFitsBudget
<1>4. CASE Abort \/ Respond
  BY <1>1, <1>2, <1>4 DEF Abort, Respond, TypeOK, LoopInv, AttemptFitsBudget
<1>5. ASSUME NEW inherited \in HeaderTimeout, DispatchStep(inherited)
      PROVE  TimeInv'
  <2>1. /\ advertised' \in 0 .. Budget /\ attempt' \in 0 .. Budget /\ elapsed + attempt' <= Budget
    BY <1>5, BudgetTypes DEF DispatchStep
  <2> QED  BY <1>1, <1>2, <1>5, <2>1 DEF DispatchStep, TypeOK, LoopInv, AttemptFitsBudget
<1>6. ASSUME NEW resp \in Response, StepAnswers(resp)
      PROVE  TimeInv'
  <2> DEFINE new == [step |-> index, response |-> resp]
  <2>1. index <= Len(definition) /\ index' = index + 1 /\ index' \in 1 .. Len(definition) + 1
    BY <1>1, <1>6 DEF StepAnswers, LoopInv
  <2>2. payload' \in [PayloadKey -> 0 .. Len(definition) \cup {Unset}]
    BY <1>6, <2>1, MergeType DEF StepAnswers
  <2>3. new \in Entry /\ log' = Append(log, new)
    BY <1>1, <1>6 DEF StepAnswers, Entry
  <2>4. log' \in Seq(Entry) /\ \A i \in 1 .. Len(log') : log'[i].step \in 1 .. Len(definition)
    <3>1. new.step \in 1 .. Len(definition)
      BY <1>1, <2>1
    <3> HIDE DEF new
    <3> QED  BY <1>1, <2>3, <3>1 DEF LoopInv
  <2>5. TypeOK'
    BY <1>1, <1>2, <1>6, <2>1, <2>2, <2>4 DEF StepAnswers, TypeOK, Entry
  <2> QED  BY <1>2, <1>6, <2>4, <2>5 DEF StepAnswers, LoopInv, AttemptFitsBudget
<1>7. CASE StepRaises \/ BudgetSpent
  BY <1>1, <1>2, <1>7 DEF StepRaises, BudgetSpent, TypeOK, LoopInv, AttemptFitsBudget
<1>8. CASE Tick
  <2>1. /\ elapsed' = elapsed + 1 /\ elapsed < Budget
        /\ UNCHANGED <<index, phase, payload, latest, advertised, log>>
        /\ phase # "waiting" => attempt' = attempt
        /\ phase = "waiting" => attempt > 0 /\ attempt' = attempt - 1
    BY <1>1, <1>8 DEF Tick, remaining
  <2>2. elapsed' \in 0 .. Budget /\ attempt' \in 0 .. Budget
    BY <1>1, <2>1
  <2>3. TypeOK'
    BY <1>1, <1>2, <2>1, <2>2 DEF TypeOK
  <2>4. LoopInv'
    BY <1>2, <2>1 DEF LoopInv
  <2>5. AttemptFitsBudget'
    BY <1>1, <2>1 DEF AttemptFitsBudget
  <2> QED  BY <2>3, <2>4, <2>5
<1>9. CASE UNCHANGED vars
  BY <1>9 DEF vars, TypeOK, LoopInv, AttemptFitsBudget
<1> QED  BY <1>3, <1>4, <1>5, <1>6, <1>7, <1>8, <1>9 DEF Next

LEMMA TimeHolds == Spec => []TimeInv
  BY TimeInit, TimeStep, PTL DEF Spec

(* The loop stays within its definition, and every time within the budget.    *)
THEOREM WorkflowTypeCorrect == Spec => []TypeOK
<1>1. TimeInv => TypeOK
  BY DEF TimeInv
<1> QED  BY <1>1, TimeHolds, PTL

(* However many steps a workflow has and whatever they declare, no attempt    *)
(* outlasts the packet's budget.                                              *)
THEOREM BudgetShared == Spec => []AttemptFitsBudget
<1>1. TimeInv => AttemptFitsBudget
  BY DEF TimeInv
<1> QED  BY <1>1, TimeHolds, PTL

-----------------------------------------------------------------------------
(* The payload *)

(* A step that answers becomes the last writer of the keys it decides about,  *)
(* and leaves the others with theirs.                                         *)
LEMMA MergeWrites ==
  ASSUME TimeInv, PayloadHasLastWriter, NEW resp \in Response, StepAnswers(resp)
  PROVE  PayloadHasLastWriter'
<1> DEFINE new == [step |-> index, response |-> resp]
           n == Len(log)
           Deciders(k) == {i \in 1 .. n : Decides(log[i], k)}
<1>1. /\ definition' = definition /\ log' = Append(log, new) /\ new \in Entry
      /\ log \in Seq(Entry) /\ n \in Nat /\ index <= Len(definition)
  BY WorkflowAssumption DEF StepAnswers, TimeInv, TypeOK, LoopInv, Entry
<1>2. step \in WorkflowStep /\ new.step = index /\ new.response = resp
  BY <1>1, StepType, WorkflowAssumption DEF TimeInv, TypeOK
<1>3. /\ Len(log') = n + 1 /\ log'[n + 1] = new
      /\ \A i \in 1 .. n : log'[i] = log[i]
  <2> HIDE DEF new
  <2> QED  BY <1>1
<1> SUFFICES ASSUME NEW k \in PayloadKey PROVE payload'[k] = LastWriter(k)'
  BY DEF PayloadHasLastWriter
<1> DEFINE D2 == {i \in 1 .. n + 1 : Decides(log'[i], k)}
<1>4. LastWriter(k)' =
        IF D2 = {} THEN (IF k \in CallerKeys THEN 0 ELSE Unset)
        ELSE IF definition[log'[Max(D2)].step].merge = "identity" /\ k \notin log'[Max(D2)].response.keys
               THEN Unset ELSE log'[Max(D2)].step
  BY <1>1, <1>3 DEF LastWriter, Decides
<1>5. payload'[k] = MergePayload(step.merge, resp, index)[k] /\ payload[k] = LastWriter(k)
  BY DEF StepAnswers, PayloadHasLastWriter
<1>6. CASE Decides(new, k)
  <2>1. n + 1 \in D2 /\ D2 \subseteq 1 .. n + 1
    BY <1>1, <1>3, <1>6
  <2>2. Max(D2) = n + 1
    <3>0. n + 1 \in Nat /\ D2 # {}
      BY <1>1, <2>1
    <3> HIDE DEF D2, n
    <3>1. Max(D2) \in D2 /\ \A j \in D2 : Max(D2) >= j
      <4>1. n + 1 \in Nat /\ D2 \subseteq 0 .. n + 1 /\ D2 # {}
        BY <2>1, <3>0
      <4> QED  BY <4>1, GreatestOf
    <3>2. Max(D2) \in 1 .. n + 1 /\ Max(D2) >= n + 1
      BY <2>1, <3>1
    <3> QED  BY <3>0, <3>2
  <2>3. LastWriter(k)' = IF step.merge = "identity" /\ k \notin resp.keys THEN Unset ELSE index
    BY <1>2, <1>3, <1>4, <2>1, <2>2 DEF step
  <2>4. MergePayload(step.merge, resp, index)[k] =
          IF step.merge = "identity" /\ k \notin resp.keys THEN Unset ELSE index
    BY <1>2, <1>6 DEF Decides, MergePayload, Updated, step, WorkflowStep
  <2> QED  BY <1>5, <2>3, <2>4
<1>7. CASE ~Decides(new, k)
  <2>1. D2 = Deciders(k)
    BY <1>1, <1>3, <1>7
  <2>2. MergePayload(step.merge, resp, index)[k] = payload[k]
    BY <1>2, <1>7 DEF Decides, MergePayload, Updated, step, WorkflowStep
  <2>3. LastWriter(k)' = LastWriter(k)
    <3> DEFINE Dk == Deciders(k)
    <3>0. LastWriter(k) =
            IF Dk = {} THEN (IF k \in CallerKeys THEN 0 ELSE Unset)
            ELSE IF definition[log[Max(Dk)].step].merge = "identity" /\ k \notin log[Max(Dk)].response.keys
                   THEN Unset ELSE log[Max(Dk)].step
      BY DEF LastWriter
    <3>a. Dk \subseteq 1 .. n /\ D2 = Dk
      BY <2>1
    <3> HIDE DEF Dk, D2
    <3>1. CASE Dk = {}
      BY <1>4, <3>0, <3>a, <3>1
    <3>2. CASE Dk # {}
      <4>1. Max(Dk) \in 1 .. n
        <5>1. n \in Nat /\ Dk \subseteq 0 .. n
          BY <1>1, <3>a
        <5>2. Max(Dk) \in Dk
          BY <3>2, <5>1, GreatestOf
        <5> QED  BY <3>a, <5>2
      <4>2. log'[Max(D2)] = log[Max(Dk)]
        BY <1>3, <3>a, <4>1
      <4> QED  BY <1>4, <3>0, <3>a, <3>2, <4>2
    <3> QED  BY <3>1, <3>2
  <2> QED  BY <1>5, <2>2, <2>3
<1> QED  BY <1>6, <1>7

(* For workflows of any length, all strategies and all answers: every key of  *)
(* the payload carries the value of the last step that decides about it.      *)
THEOREM LastWriterWins == Spec => []PayloadHasLastWriter
<1>1. Init => PayloadHasLastWriter
  BY DEF Init, PayloadHasLastWriter, LastWriter
<1>2. TimeInv /\ PayloadHasLastWriter /\ [Next]_vars => PayloadHasLastWriter'
  <2> SUFFICES ASSUME TimeInv, PayloadHasLastWriter, [Next]_vars PROVE PayloadHasLastWriter'
    OBVIOUS
  <2>1. CASE UNCHANGED <<definition, payload, log>>
    BY <2>1 DEF PayloadHasLastWriter, LastWriter, Decides
  <2>2. ASSUME NEW resp \in Response, StepAnswers(resp) PROVE PayloadHasLastWriter'
    BY <2>2, MergeWrites
  <2> QED  BY <2>1, <2>2
              DEF Next, vars, Skip, Abort, DispatchStep, Respond, StepRaises, BudgetSpent, Tick
<1> QED  BY <1>1, <1>2, TimeHolds, PTL DEF Spec

-----------------------------------------------------------------------------
(* Conditions *)

(* What an expression gets, given the values of the expressions below it. *)
Body(context, lazily, f, e) ==
  LET v == [i \in DOMAIN e.args |-> f[e.args[i]]] IN
  IF e.args = <<>> THEN Leaf(e, context)
  ELSE IF lazily THEN Lazy(e, v) ELSE Eager(e, v)

(* f evaluates the expressions of C, which needs no others for it. *)
Evaluates(context, lazily, C, f) ==
  /\ C \subseteq Expr
  /\ \A e \in C : \A i \in DOMAIN e.args : e.args[i] \in C
  /\ f = [e \in C |-> Body(context, lazily, f, e)]

(* An expression gets its value from its operands alone. *)
LEMMA OperandsDetermine ==
  ASSUME NEW context, NEW lazily, NEW e, NEW f, NEW g,
         \A i \in DOMAIN e.args : f[e.args[i]] = g[e.args[i]]
  PROVE  Body(context, lazily, f, e) = Body(context, lazily, g, e)
<1>1. [i \in DOMAIN e.args |-> f[e.args[i]]] = [i \in DOMAIN e.args |-> g[e.args[i]]]
  OBVIOUS
<1> QED  BY <1>1 DEF Body

(* Two evaluations agree wherever both are defined. *)
LEMMA EvaluationUnique ==
  ASSUME NEW context, NEW lazily, NEW C, NEW f, NEW D, NEW g,
         Evaluates(context, lazily, C, f), Evaluates(context, lazily, D, g),
         NEW x \in C \cap D
  PROVE  f[x] = g[x]
<1> DEFINE Bad == {y \in C \cap D : f[y] # g[y]}
<1>1. Bad \in SUBSET Expr
  BY DEF Evaluates
<1>2. CASE Bad # {}
  <2>1. PICK e \in Bad : \A i \in DOMAIN e.args : e.args[i] \notin Bad
    <3> HIDE DEF Bad
    <3> QED  BY <1>1, <1>2, ExprAssumption
  <2>2. e \in C /\ e \in D /\ f[e] # g[e]
    BY <2>1
  <2>3. \A i \in DOMAIN e.args : f[e.args[i]] = g[e.args[i]]
    BY <2>1, <2>2 DEF Evaluates
  <2>4. f[e] = Body(context, lazily, f, e) /\ g[e] = Body(context, lazily, g, e)
    BY <2>2 DEF Evaluates
  <2> QED  BY <2>2, <2>3, <2>4, OperandsDetermine
<1>3. CASE Bad = {}
  BY <1>3
<1> QED  BY <1>2, <1>3

(* Every expression has a value: the largest set that has an evaluation is    *)
(* the set of all, or the simplest expression outside could be added to it.   *)
LEMMA EvaluationExists ==
  ASSUME NEW context, NEW lazily
  PROVE  \E f : Evaluates(context, lazily, Expr, f)
<1> DEFINE Ev(C, f) == Evaluates(context, lazily, C, f)
           U == UNION {C \in SUBSET Expr : \E f : Ev(C, f)}
           Of(x) == CHOOSE f : \E C \in SUBSET Expr : x \in C /\ Ev(C, f)
           F == [x \in U |-> Of(x)[x]]
<1>1. \A C, f : Ev(C, f) => C \in SUBSET Expr
  BY DEF Evaluates
<1>2. \A x \in U : \E C \in SUBSET Expr : x \in C /\ Ev(C, Of(x))
  <2> SUFFICES ASSUME NEW x \in U PROVE \E C \in SUBSET Expr : x \in C /\ Ev(C, Of(x))
    OBVIOUS
  <2>1. \E f : \E C \in SUBSET Expr : x \in C /\ Ev(C, f)
    <3> HIDE DEF Ev
    <3> QED  OBVIOUS
  <2> HIDE DEF Ev
  <2> QED  BY <2>1
<1>3. U \subseteq Expr /\ \A e \in U : \A i \in DOMAIN e.args : e.args[i] \in U
  BY DEF Evaluates
<1>4. \A x \in U : F[x] = Body(context, lazily, F, x)
  <2> SUFFICES ASSUME NEW x \in U PROVE F[x] = Body(context, lazily, F, x)
    OBVIOUS
  <2>1. PICK C \in SUBSET Expr : x \in C /\ Ev(C, Of(x))
    BY <1>2
  <2>2. F[x] = Of(x)[x]
    OBVIOUS
  <2>3. Of(x)[x] = Body(context, lazily, Of(x), x)
    <3> HIDE DEF Of
    <3> QED  BY <2>1 DEF Evaluates
  <2>4. ASSUME NEW i \in DOMAIN x.args PROVE F[x.args[i]] = Of(x)[x.args[i]]
    <3> DEFINE y == x.args[i]
    <3>1. y \in U /\ y \in C
      <4> HIDE DEF Of, U
      <4> QED  BY <1>3, <2>1 DEF Evaluates
    <3>2. PICK D \in SUBSET Expr : y \in D /\ Ev(D, Of(y))
      BY <1>2, <3>1
    <3>3. F[y] = Of(y)[y]
      BY <3>1
    <3> HIDE DEF Of, y, U, F
    <3>4. Of(y)[y] = Of(x)[y]
      BY <2>1, <3>1, <3>2, EvaluationUnique
    <3> QED  BY <3>3, <3>4 DEF y
  <2> HIDE DEF Of, F
  <2>5. Body(context, lazily, F, x) = Body(context, lazily, Of(x), x)
    BY <2>4, OperandsDetermine
  <2> QED  BY <2>2, <2>3, <2>5
<1>5. Ev(U, F)
  <2>1. F = [x \in U |-> F[x]]
    OBVIOUS
  <2> HIDE DEF F, U
  <2> QED  BY <1>3, <1>4, <2>1 DEF Evaluates
<1>6. U = Expr
  <2> SUFFICES ASSUME Expr \ U # {} PROVE FALSE
    BY <1>3
  <2> HIDE DEF U, F
  <2>1. PICK e \in Expr \ U : \A i \in DOMAIN e.args : e.args[i] \notin Expr \ U
    BY ExprAssumption
  <2>2. \A i \in DOMAIN e.args : e.args[i] \in U
    BY <2>1, ExprAssumption
  <2> DEFINE W == U \cup {e}
             G == [x \in W |-> IF x = e THEN Body(context, lazily, F, e) ELSE F[x]]
  <2>3. \A x \in W : \A i \in DOMAIN x.args : x.args[i] \in U
    BY <1>3, <2>2
  <2>4. \A y \in U : G[y] = F[y]
    BY <2>1
  <2>5. ASSUME NEW x \in W PROVE G[x] = Body(context, lazily, G, x)
    <3>1. \A i \in DOMAIN x.args : F[x.args[i]] = G[x.args[i]]
      BY <2>3, <2>4
    <3>2. G[x] = Body(context, lazily, F, x)
      BY <1>4, <2>1
    <3> HIDE DEF G
    <3> QED  BY <3>1, <3>2, OperandsDetermine
  <2>6. G = [x \in W |-> G[x]]
    OBVIOUS
  <2> HIDE DEF G
  <2>7. Ev(W, G)
    BY <1>3, <2>1, <2>3, <2>5, <2>6 DEF Evaluates
  <2>8. W \subseteq U
    BY <1>1, <2>7 DEF U
  <2> QED  BY <2>1, <2>8
<1> QED  BY <1>5, <1>6

(* So the recursive definition is one. *)
LEMMA ValuesOf ==
  ASSUME NEW context, NEW lazily, NEW e \in Expr
  PROVE  Values(context, lazily)[e] = Body(context, lazily, Values(context, lazily), e)
<1> DEFINE Is(f) == f = [x \in Expr |-> Body(context, lazily, f, x)]
<1>1. Values(context, lazily) = CHOOSE f : Is(f)
  BY DEF Values, Body
<1>2. \E f : Is(f)
  BY EvaluationExists DEF Evaluates
<1>3. Is(CHOOSE f : Is(f))
  <2> HIDE DEF Is
  <2> QED  BY <1>2
<1>4. Is(Values(context, lazily))
  BY <1>1, <1>3
<1> QED  BY <1>4

(* The first of the positions that decide, or the last position of all. *)
LEMMA FirstOrLast ==
  ASSUME NEW n \in Nat \ {0}, NEW S, S \subseteq 1 .. n
  PROVE  /\ Min(S \cup {n}) \in 1 .. n
         /\ Min(S \cup {n}) \in S <=> S # {}
<1> DEFINE T == S \cup {n}
<1>1. T \subseteq Nat /\ T # {} /\ T \subseteq 1 .. n
  OBVIOUS
<1>2. \E i \in T : \A j \in T : i <= j
  <2> HIDE DEF T
  <2> QED  BY <1>1, LeastOf
<1>3. Min(T) \in T /\ \A j \in T : Min(T) <= j
  <2> HIDE DEF T
  <2> QED  BY <1>2 DEF Min
<1>4. ASSUME NEW i \in S PROVE Min(T) \in S
  <2>1. Min(T) <= i /\ i \in 1 .. n /\ (Min(T) \in S \/ Min(T) = n)
    BY <1>3, <1>4
  <2>2. Min(T) = n => i = n
    BY <2>1
  <2> QED  BY <2>1, <2>2
<1> QED  BY <1>1, <1>3, <1>4

(* What holds of an expression that Gate evaluates to d and the language to   *)
(* m: Gate's value, if there is one, has the same truth, and but for and and  *)
(* or it is the same value.                                                   *)
Agree(e, d, m) ==
  d # Raise =>
    /\ m # Raise
    /\ d = 0 <=> m = 0
    /\ e.op \notin {"and", "or"} => d = m

(* If the operands agree, the operator does, unless it needs more of an and   *)
(* or an or than its truth.                                                   *)
LEMMA OperatorAgrees ==
  ASSUME NEW e \in Expr, e.args # <<>>, ~UsesChoice(e),
         NEW v, NEW w, DOMAIN v = DOMAIN e.args, DOMAIN w = DOMAIN e.args,
         \A i \in DOMAIN e.args : Agree(e.args[i], v[i], w[i])
  PROVE  Agree(e, Eager(e, v), Lazy(e, w))
<1> DEFINE n == Len(e.args)
           raised == {i \in DOMAIN w : w[i] = Raise}
           decides == {i \in DOMAIN w \ raised :
                         \/ e.op = "and" /\ w[i] = 0
                         \/ e.op = "or" /\ w[i] # 0
                         \/ /\ e.op = "compare" /\ i > 1 /\ i - 1 \notin raised
                            /\ ~Compares(e.rels[i - 1], w[i - 1], w[i])}
           last == Min(raised \cup decides \cup {n})
<1> SUFFICES ASSUME Eager(e, v) # Raise PROVE Agree(e, Eager(e, v), Lazy(e, w))
  BY DEF Agree
<1>1. n \in Nat \ {0} /\ DOMAIN e.args = 1 .. n /\ e.op \in Operators
  BY ExprAssumption
<1>2. (\A i \in 1 .. n : v[i] # Raise) /\ Eager(e, v) = Combine(e, v)
  BY <1>1 DEF Eager
<1>3. \A i \in 1 .. n : w[i] # Raise /\ (v[i] = 0 <=> w[i] = 0)
  BY <1>1, <1>2 DEF Agree
<1>4. e.op \in {"compare", "binop"} => \A i \in 1 .. n : v[i] = w[i]
  BY <1>1, <1>2 DEF Agree, UsesChoice
<1>5. raised = {}
  BY <1>1, <1>3
<1>6. decides \subseteq 1 .. n /\ raised \cup decides \cup {n} = decides \cup {n}
  BY <1>1, <1>5
<1>7. last \in 1 .. n /\ (last \in decides <=> decides # {}) /\ last \notin raised
  <2>1. last = Min(decides \cup {n})
    BY <1>6
  <2> HIDE DEF decides
  <2> QED  BY <1>1, <1>5, <1>6, <2>1, FirstOrLast
<1>8. Raise # 0 /\ Raise # 1
  BY ExprAssumption
<1>9. CASE e.op = "not"
  <2>1. Lazy(e, w) = Truth(w[last] = 0)
    BY <1>7, <1>9 DEF Lazy
  <2>2. Combine(e, v) = Truth(v[1] = 0)
    BY <1>9 DEF Combine
  <2>3. n = 1
    BY <1>9, ExprAssumption
  <2> HIDE DEF last, n
  <2>4. last = 1
    BY <1>7, <2>3
  <2> QED  BY <1>1, <1>2, <1>3, <1>8, <2>1, <2>2, <2>4 DEF Agree, Truth
<1>10. CASE e.op = "and"
  <2>1. Lazy(e, w) = w[last]
    BY <1>7, <1>10 DEF Lazy
  <2>2. Combine(e, v) = Truth(\A i \in 1 .. n : v[i] # 0)
    BY <1>1, <1>10 DEF Combine
  <2>3. \A i \in 1 .. n : i \in decides <=> w[i] = 0
    BY <1>1, <1>5, <1>10
  <2> HIDE DEF last, n, decides
  <2>4. w[last] = 0 <=> \E i \in 1 .. n : w[i] = 0
    BY <1>6, <1>7, <2>3
  <2> QED  BY <1>2, <1>3, <1>7, <1>8, <1>10, <2>1, <2>2, <2>4 DEF Agree, Truth
<1>11. CASE e.op = "or"
  <2>1. Lazy(e, w) = w[last]
    BY <1>7, <1>11 DEF Lazy
  <2>2. Combine(e, v) = Truth(\E i \in 1 .. n : v[i] # 0)
    BY <1>1, <1>11 DEF Combine
  <2>3. \A i \in 1 .. n : i \in decides <=> w[i] # 0
    BY <1>1, <1>5, <1>11
  <2> HIDE DEF last, n, decides
  <2>4. w[last] # 0 <=> \E i \in 1 .. n : w[i] # 0
    BY <1>6, <1>7, <2>3
  <2> QED  BY <1>2, <1>3, <1>7, <1>8, <1>11, <2>1, <2>2, <2>4 DEF Agree, Truth
<1>12. CASE e.op = "compare"
  <2>1. Lazy(e, w) = Truth(last \notin decides)
    BY <1>7, <1>12 DEF Lazy
  <2>2. Combine(e, v) = Truth(\A i \in DOMAIN e.rels : Compares(e.rels[i], v[i], v[i + 1]))
    BY <1>12 DEF Combine
  <2>3. DOMAIN e.rels = 1 .. n - 1
    BY <1>1, <1>12, ExprAssumption
  <2>4. \A i \in 1 .. n : i \in decides <=> i > 1 /\ ~Compares(e.rels[i - 1], w[i - 1], w[i])
    BY <1>1, <1>5, <1>12
  <2>5. decides = {} <=> \A i \in 1 .. n - 1 : Compares(e.rels[i], w[i], w[i + 1])
    <3> HIDE DEF decides, n
    <3>1. ASSUME decides = {}, NEW i \in 1 .. n - 1 PROVE Compares(e.rels[i], w[i], w[i + 1])
      <4>1. i + 1 \in 1 .. n /\ i + 1 > 1 /\ (i + 1) - 1 = i
        BY <1>1
      <4>2. i + 1 \notin decides
        BY <3>1
      <4> QED  BY <2>4, <4>1, <4>2
    <3>2. ASSUME \A i \in 1 .. n - 1 : Compares(e.rels[i], w[i], w[i + 1]), NEW j \in decides PROVE FALSE
      <4>1. j \in 1 .. n /\ j > 1 /\ ~Compares(e.rels[j - 1], w[j - 1], w[j])
        BY <1>6, <2>4
      <4>2. j - 1 \in 1 .. n - 1 /\ (j - 1) + 1 = j
        BY <1>1, <4>1
      <4> QED  BY <3>2, <4>1, <4>2
    <3> QED  BY <3>1, <3>2
  <2>6. \A i \in 1 .. n - 1 : v[i] = w[i] /\ v[i + 1] = w[i + 1]
    <3> HIDE DEF n
    <3> QED  BY <1>1, <1>4, <1>12
  <2> HIDE DEF last, n, decides
  <2>7. Combine(e, v) = Lazy(e, w)
    BY <1>7, <2>1, <2>2, <2>3, <2>5, <2>6 DEF Truth
  <2>8. Lazy(e, w) \in {0, 1}
    BY <2>1 DEF Truth
  <2> QED  BY <1>2, <1>8, <2>7, <2>8 DEF Agree
<1>13. CASE e.op = "binop"
  <2>1. Lazy(e, w) = Arithmetic(e.fn, w[1], w[2])
    BY <1>7, <1>13 DEF Lazy
  <2>2. Combine(e, v) = Arithmetic(e.fn, v[1], v[2])
    BY <1>13 DEF Combine
  <2>3. n = 2
    BY <1>13, ExprAssumption
  <2>4. v[1] = w[1] /\ v[2] = w[2]
    BY <1>4, <1>13, <2>3
  <2> QED  BY <1>2, <2>1, <2>2, <2>4 DEF Agree
<1> QED  BY <1>1, <1>9, <1>10, <1>11, <1>12, <1>13 DEF Operators

(* For expressions of any size, by their structure. *)
LEMMA PlainAgrees ==
  ASSUME NEW context, NEW e \in PlainExpr
  PROVE  Agree(e, Eval(context)[e], Meaning(context)[e])
<1> DEFINE d == Eval(context)
           m == Meaning(context)
           Bad == {x \in PlainExpr : ~Agree(x, d[x], m[x])}
<1>1. /\ PlainExpr \subseteq Expr
      /\ \A x \in PlainExpr : ~UsesChoice(x) /\ \A i \in DOMAIN x.args : x.args[i] \in PlainExpr
  BY DEF PlainExpr
<1>2. CASE Bad # {}
  <2>1. PICK x \in Bad : \A i \in DOMAIN x.args : x.args[i] \notin Bad
    <3>1. Bad \in SUBSET Expr
      BY <1>1
    <3> HIDE DEF Bad
    <3> QED  BY <1>2, <3>1, ExprAssumption
  <2>2. x \in PlainExpr /\ x \in Expr /\ ~Agree(x, d[x], m[x])
    BY <1>1, <2>1
  <2>3. \A i \in DOMAIN x.args : Agree(x.args[i], d[x.args[i]], m[x.args[i]])
    BY <1>1, <2>1, <2>2
  <2> DEFINE v == [i \in DOMAIN x.args |-> d[x.args[i]]]
             w == [i \in DOMAIN x.args |-> m[x.args[i]]]
  <2>4. d[x] = Body(context, FALSE, d, x) /\ m[x] = Body(context, TRUE, m, x)
    BY <2>2, ValuesOf DEF Eval, Meaning
  <2> HIDE DEF d, m, Bad
  <2>5. CASE x.args = <<>>
    <3>1. d[x] = Leaf(x, context) /\ m[x] = Leaf(x, context)
      BY <2>4, <2>5 DEF Body
    <3> QED  BY <2>2, <3>1 DEF Agree
  <2>6. CASE x.args # <<>>
    <3>1. d[x] = Eager(x, v) /\ m[x] = Lazy(x, w)
      BY <2>4, <2>6 DEF Body
    <3>2. /\ DOMAIN v = DOMAIN x.args /\ DOMAIN w = DOMAIN x.args
          /\ \A i \in DOMAIN x.args : Agree(x.args[i], v[i], w[i])
      BY <2>3
    <3> HIDE DEF v, w
    <3>3. Agree(x, Eager(x, v), Lazy(x, w))
      BY <1>1, <2>2, <2>6, <3>2, OperatorAgrees
    <3> QED  BY <2>2, <3>1, <3>3
  <2> QED  BY <2>5, <2>6
<1>3. CASE Bad = {}
  BY <1>3
<1> QED  BY <1>2, <1>3

(* Whatever the expressions, workflows and values: a condition decides as it  *)
(* reads, or raises, unless it compares or reckons with an and or an or.      *)
THEOREM ConditionsHold == Spec => []ConditionsDecideRightly
<1>1. ConditionsDecideRightly
  <2> SUFFICES ASSUME step.condition \in PlainExpr, NEW c \in Contexts,
                      Eval(c)[step.condition] # Raise
               PROVE  /\ Meaning(c)[step.condition] # Raise
                      /\ Eval(c)[step.condition] = 0 <=> Meaning(c)[step.condition] = 0
    BY DEF ConditionsDecideRightly
  <2>1. Agree(step.condition, Eval(c)[step.condition], Meaning(c)[step.condition])
    BY PlainAgrees
  <2> QED  BY <2>1 DEF Agree
<1> QED  BY <1>1, PTL
=============================================================================
