----------------------------- MODULE Conditions -----------------------------
(***************************************************************************)
(* SafeConditionEvaluator (orchestration/condition_eval.py) as a recursive *)
(* function over expressions, and what the same expression means in the    *)
(* language it is written in.  The two differ in that the evaluator        *)
(* evaluates every operand before it combines them, and that its and and   *)
(* or give a truth value, not one of their operands.                       *)
(*                                                                         *)
(* Values are whole numbers, with 0 and 1 for the truth values; a failure  *)
(* of any kind is Raise.                                                   *)
(***************************************************************************)
EXTENDS Integers, Sequences, FiniteSetsExt

CONSTANTS
  Expr,   \* the expressions in use, closed under taking operands
  Raise,  \* the evaluation raises
  Unset   \* there is no response yet

Operators == {"not", "and", "or", "compare", "binop"}

(* An expression is [op, args, ...]: "const" has a value; "in" and "get" ask  *)
(* a mapping (of) about a key; "compare" has the relations between its        *)
(* operands, "binop" the arithmetic of its two.  A parsed expression is       *)
(* finite: going from operator to operand comes to an end.                    *)
ASSUME ExprAssumption ==
  /\ \A e \in Expr :
       /\ e.args \in Seq(Expr)
       /\ e.op \in Operators <=> e.args # <<>>
       /\ e.op = "not" => Len(e.args) = 1
       /\ e.op = "compare" => e.rels \in Seq(STRING) /\ Len(e.args) = Len(e.rels) + 1
       /\ e.op = "binop" => Len(e.args) = 2
  /\ \A S \in SUBSET Expr :
       S # {} => \E e \in S : \A i \in DOMAIN e.args : e.args[i] \notin S
  /\ Raise \notin Int

Truth(p) == IF p THEN 1 ELSE 0

(* _apply_compare *)
Compares(rel, left, right) ==
  CASE rel = "==" -> left = right
    [] rel = "!=" -> left # right
    [] rel = "<"  -> left < right
    [] rel = "<=" -> left <= right
    [] rel = ">"  -> left > right
    [] rel = ">=" -> left >= right

(* _apply_binop.  A remainder has the sign of its divisor. *)
Arithmetic(fn, left, right) ==
  CASE fn = "+" -> left + right
    [] fn = "-" -> left - right
    [] fn = "*" -> left * right
    [] fn = "%" -> IF right = 0 THEN Raise
                   ELSE IF right > 0 THEN left % right ELSE -((-left) % (-right))

(* Names, constants and subscripts, in a context of the keys each mapping has *)
(* and their values.  Asking the response before there is one raises, and so  *)
(* does reading a key that is absent.                                         *)
Leaf(e, context) ==
  IF e.op = "const" THEN e.value
  ELSE IF context.keys[e.of] = Unset THEN Raise
  ELSE IF e.op = "in" THEN Truth(e.key \in context.keys[e.of])
  ELSE IF e.key \in context.keys[e.of] THEN context.value[e.of][e.key] ELSE Raise

(* Mutant: a chain compares its first operand with each of the others. *)
Combine_KeepsLeft(e, v) ==
  CASE e.op = "not"     -> Truth(v[1] = 0)
    [] e.op = "and"     -> Truth(\A i \in DOMAIN v : v[i] # 0)
    [] e.op = "or"      -> Truth(\E i \in DOMAIN v : v[i] # 0)
    [] e.op = "compare" -> Truth(\A i \in DOMAIN e.rels : Compares(e.rels[i], v[1], v[i + 1]))
    [] e.op = "binop"   -> Arithmetic(e.fn, v[1], v[2])

(* The value of an operator, once its operands have theirs. *)
Combine(e, v) ==
  CASE e.op = "not"     -> Truth(v[1] = 0)
    [] e.op = "and"     -> Truth(\A i \in DOMAIN v : v[i] # 0)
    [] e.op = "or"      -> Truth(\E i \in DOMAIN v : v[i] # 0)
    [] e.op = "compare" -> Truth(\A i \in DOMAIN e.rels : Compares(e.rels[i], v[i], v[i + 1]))
    [] e.op = "binop"   -> Arithmetic(e.fn, v[1], v[2])

(* All operands come first, and the first to raise ends the evaluation. *)
Eager(e, v) == IF \E i \in DOMAIN v : v[i] = Raise THEN Raise ELSE Combine(e, v)

-----------------------------------------------------------------------------
(* The language itself: and, or and a chain of comparisons stop at the first  *)
(* operand that decides, and what and and or give is that operand.            *)

Lazy(e, v) ==
  LET raised  == {i \in DOMAIN v : v[i] = Raise}
      decides == {i \in DOMAIN v \ raised :
                    \/ e.op = "and" /\ v[i] = 0
                    \/ e.op = "or" /\ v[i] # 0
                    \/ /\ e.op = "compare" /\ i > 1 /\ i - 1 \notin raised
                       /\ ~Compares(e.rels[i - 1], v[i - 1], v[i])}
      last    == Min(raised \cup decides \cup {Len(e.args)})
  IN IF last \in raised THEN Raise
     ELSE CASE e.op = "not"           -> Truth(v[last] = 0)
            [] e.op \in {"and", "or"} -> v[last]
            [] e.op = "compare"       -> Truth(last \notin decides)
            [] e.op = "binop"         -> Arithmetic(e.fn, v[1], v[2])

-----------------------------------------------------------------------------
(* _eval, and the same walk over an expression as the language has it. *)
Values(context, lazily) ==
  LET value[e \in Expr] ==
        LET v == [i \in DOMAIN e.args |-> value[e.args[i]]] IN
        IF e.args = <<>> THEN Leaf(e, context)
        ELSE IF lazily THEN Lazy(e, v) ELSE Eager(e, v)
  IN value

Eval(context) == Values(context, FALSE)

Meaning(context) == Values(context, TRUE)

(* A comparison or a sum, say, of what an and or an or gives: the one place   *)
(* where a truth value does not do for the operand.                           *)
UsesChoice(e) ==
  e.op \in {"compare", "binop"} /\ \E i \in DOMAIN e.args : e.args[i].op \in {"and", "or"}

(* The expressions that are free of it down to their last operand. *)
PlainExpr ==
  {e \in Expr : \E S \in SUBSET Expr :
     e \in S /\ \A x \in S : ~UsesChoice(x) /\ \A i \in DOMAIN x.args : x.args[i] \in S}
=============================================================================
