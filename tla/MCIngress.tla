----------------------------- MODULE MCIngress -----------------------------
(* Two keys with overlapping policies: k1 is a consumer bound to n1, k2 a     *)
(* worker bound to n2, which Gate may also sign with.                         *)
EXTENDS Ingress

CONSTANTS k1, k2, n1, n2, t1, t2, a, b

MCPolicyOf ==
  [k \in KeyId |->
    IF k = k1 THEN [node |-> n1, tenants |-> {t1}, actions |-> {a}]
    ELSE [node |-> n2, tenants |-> {t1, t2}, actions |-> {a, b}]]

MCOwnKeys == {NoKey, k2}

MCAllowed == {{}, {a}}
=============================================================================
