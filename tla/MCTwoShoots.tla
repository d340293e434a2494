---------------------------- MODULE MCTwoShoots ----------------------------
(***************************************************************************)
(* Two shoots on two workers: they compete for a quota, or what is read    *)
(* for them changes while both are worked on.                              *)
(***************************************************************************)
EXTENDS ShootHistory, TLC

CONSTANTS s1, s2, ns

MCNamespace == [s \in Shoots |-> ns]

(* Only the identity of shoots and certificates matters. *)
MCSymmetry == Permutations(Shoots) \cup Permutations(CaCerts)

Let(kinds, changes, faults) == [kinds |-> kinds, changes |-> changes, faults |-> faults]

MCTwo ==
    { Let({"quota", "remove"}, 3, 0),
      Let({"addresses", "ca", "relist"}, 2, 1),
      Let({"lifecycle", "ca"}, 1, 0) }
=============================================================================
