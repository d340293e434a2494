--------------------------- MODULE NamespaceSlots ---------------------------
(***************************************************************************)
(* What the limit per namespace promises, without counters, timers or a    *)
(* queue: a namespace has a number of slots, a request that asks for one   *)
(* gets a free one or is refused, and it is refused only while every slot  *)
(* really is in use.  ReconcileLoop.tla implements this.                   *)
(***************************************************************************)
EXTENDS Integers, FiniteSets

CONSTANTS
    Requests,
    Namespace,         \* [Requests -> the namespace of the request]
    Slots,             \* per namespace; none when it is 0 or negative
    Workers            \* how many requests may ask or hold a slot at a time

VARIABLE stage         \* "out", "asking" or "in"

Active == {k \in Requests : stage[k] # "out"}
Holders(ns) == {k \in Requests : Namespace[k] = ns /\ stage[k] = "in"}

Move(k, from, to) ==
    /\ stage[k] = from
    /\ stage' = [stage EXCEPT ![k] = to]

-----------------------------------------------------------------------------
Ask(k) == Cardinality(Active) < Workers /\ Move(k, "out", "asking")

Enter(k) == Cardinality(Holders(Namespace[k])) < Slots /\ Move(k, "asking", "in")

Refuse(k) == Cardinality(Holders(Namespace[k])) >= Slots /\ Move(k, "asking", "out")

Leave(k) == Move(k, "in", "out")

(* The process ends; nobody holds anything in the next one. *)
Reset == stage' = [k \in Requests |-> "out"]

Init == stage = [k \in Requests |-> "out"]

Next ==
    \/ \E k \in Requests : Ask(k) \/ Enter(k) \/ Refuse(k) \/ Leave(k)
    \/ Reset

Spec == Init /\ [][Next]_stage
=============================================================================
