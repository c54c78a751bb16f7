----------------------------- MODULE MCDispatch -----------------------------
(* Constants for model-checking Dispatch: replicas of one action that nobody *)
(* owns, each at an address of its own.                                      *)
EXTENDS Dispatch, TLC

CONSTANTS score, admission, u1, u2, CeilingsOf

MCAction == {score, admission}
MCRequiredOwner == [a \in MCAction |-> NoOwner]
MCTagOwner == <<>>
MCNameOwner == [n \in Node |-> NoOwner]
UrlOf(n) == IF n = 1 THEN u1 ELSE u2

Replica(n, ceiling) ==
  [actions |-> {score}, tag |-> NoTag, url |-> UrlOf(n), max |-> ceiling,
   healthy |-> TRUE, active |-> 0]

(* Every node starts registered with its first ceiling. *)
MCYamlFile == {[n \in Node |-> Replica(n, CHOOSE c \in CeilingsOf[n] : \A d \in CeilingsOf[n] : c >= d)]}

MCOffer == UNION {{<<n, Replica(n, c)>> : c \in CeilingsOf[n]} : n \in Node}

MCSymmetry == Permutations(Task)

OneAndOne == <<{1}, {1}>>
ShrinkingAndOne == <<{1, 2}, {1}>>
=============================================================================
