-------------------------- MODULE MCExecuteService --------------------------
(* Values for model-checking ExecuteService. *)
EXTENDS ExecuteService, TLC

CONSTANTS p1, p2, p3, p4, ta, tb, a, b, k

(* p1 and p2 are two packets of one operation, p3 is of another tenant, and   *)
(* p4 of the same tenant, for another action: all with the same raw key.      *)
MCTenantOf == [p \in Packet |-> IF p = p3 THEN tb ELSE ta]
MCActionOf == [p \in Packet |-> IF p = p4 THEN b ELSE a]
MCKeyOf    == [p \in Packet |-> k]

(* p1 asks for a timeout whose budget outlasts the replay window. *)
MCTimeoutOf == [p \in Packet |-> IF p = p1 THEN 3 ELSE 0]
=============================================================================
