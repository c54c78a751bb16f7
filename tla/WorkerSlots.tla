---------------------------- MODULE WorkerSlots ----------------------------
(***************************************************************************)
(* What the dispatcher promises a worker, without limiters, load counters, *)
(* registrations or probes: a call holds at most one slot, it takes one    *)
(* only where the worker's ceiling of the moment leaves room, and keeps it *)
(* on that worker until it ends.  Ceilings change at any time; a lower one *)
(* takes no slot away.                                                     *)
(***************************************************************************)
EXTENDS Naturals, FiniteSets

CONSTANTS
  Call,    \* calls that may run at the same time
  Worker,
  Free     \* where a call that holds no slot is

VARIABLES
  place,   \* the worker on which each call holds a slot
  ceiling  \* the slots each worker offers

vars == <<place, ceiling>>

On(w) == {c \in Call : place[c] = w}

Init ==
  /\ place = [c \in Call |-> Free]
  /\ ceiling \in [Worker -> Nat]

Take(c, w) ==
  /\ place[c] = Free
  /\ Cardinality(On(w)) < ceiling[w]
  /\ place' = [place EXCEPT ![c] = w]
  /\ UNCHANGED ceiling

GiveBack(c) ==
  /\ place[c] # Free
  /\ place' = [place EXCEPT ![c] = Free]
  /\ UNCHANGED ceiling

Resize(w) ==
  /\ UNCHANGED place
  /\ ceiling'[w] \in Nat
  /\ ceiling' = [ceiling EXCEPT ![w] = ceiling'[w]]

Next ==
  \/ \E w \in Worker : Resize(w)
  \/ \E c \in Call : GiveBack(c)
  \/ \E c \in Call, w \in Worker : Take(c, w)

Spec == Init /\ [][Next]_vars

-----------------------------------------------------------------------------
(* Every call that took a slot gives it back. *)
EveryCallEnds == \A c \in Call : place[c] # Free ~> place[c] = Free
=============================================================================
