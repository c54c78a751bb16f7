-------------------------- MODULE MCWorkflowEngine --------------------------
(* Workflow definitions of up to three steps for model-checking               *)
(* WorkflowEngine: every merge strategy, conditions of all operators over     *)
(* both names, timeouts below and above the budget.                           *)
EXTENDS WorkflowEngine, FiniteSets

CONSTANTS f, data

Step(merge, condition, timeout) == [merge |-> merge, condition |-> condition, timeout |-> timeout]

In(of)  == [op |-> "in", of |-> of, key |-> f, args |-> <<>>]
Get(of) == [op |-> "get", of |-> of, key |-> f, args |-> <<>>]
One     == [op |-> "const", value |-> 1, args |-> <<>>]

Op(op, args)        == [op |-> op, args |-> args]
Compare(rels, args) == [op |-> "compare", rels |-> rels, args |-> args]
Binop(fn, args)     == [op |-> "binop", fn |-> fn, args |-> args]

Merges == {"identity", "merge_payload", "merge_results"}

Leaves == {In("payload"), In("response"), Get("payload"), Get("response"), One}

(* Bare leaves, the guarded read, its negation, an alternative, chains of     *)
(* comparisons of one and of two relations, a guarded remainder, and a        *)
(* comparison of what an and gives, which is not plain.                       *)
Operands ==
  {Op("not", <<In("response")>>),
   Op("and", <<Get("payload"), Get("response")>>),
   Binop("%", <<Get("payload"), Get("response")>>)}

Compound ==
  {Op("and", <<In("payload"), Get("payload")>>),
   Op("or", <<Op("not", <<In("response")>>), Get("response")>>),
   Op("and", <<Get("response"), Binop("%", <<Get("payload"), Get("response")>>)>>),
   Compare(<<"==">>, <<Get("response"), Get("payload")>>),
   Compare(<<"==">>, <<Op("and", <<Get("payload"), Get("response")>>), One>>),
   Compare(<<"<=", "!=">>, <<Get("payload"), One, Get("response")>>),
   Compare(<<"<", "<=">>, <<Get("payload"), Get("response"), One>>)}

MCExpr == Leaves \cup Operands \cup Compound

StepConditions == {Unset} \cup (MCExpr \ {One})

(* Every pair of steps, the second one conditional or not, and the triples    *)
(* of unconditional steps with three different strategies.                    *)
MCDefinition ==
  {<<Step(m1, Unset, Unset), Step(m2, c, 1)>> : m1, m2 \in Merges, c \in StepConditions}
  \cup {<<Step(m1, c, Unset)>> : m1 \in Merges, c \in StepConditions}
  \cup {<<Step(m[1], Unset, 4), Step(m[2], Unset, Unset), Step(m[3], Unset, 1)>> :
           m \in {t \in Merges \X Merges \X Merges : Cardinality({t[1], t[2], t[3]}) = 3}}

PairDefinition == {<<Step(m, Unset, 1), Step("merge_payload", Unset, Unset)>> : m \in Merges}
=============================================================================
