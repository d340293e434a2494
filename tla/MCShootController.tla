------------------------- MODULE MCShootController -------------------------
(***************************************************************************)
(* Instances of ShootController with one shoot.  Each run allows the       *)
(* scenarios its question is about.                                        *)
(***************************************************************************)
EXTENDS ShootController, TLC

CONSTANTS s1, ns

MCNamespace == [s \in Shoots |-> ns]

MCCaSymmetry == Permutations(CaCerts)

Let(kinds, changes, faults) == [kinds |-> kinds, changes |-> changes, faults |-> faults]

(***************************************************************************)
(* One shoot: its life cycle with a watch that breaks; changes of what is  *)
(* rendered with several that do, and of the result; changes that must not *)
(* cost the kubeconfig; an owner reference that is taken away before the   *)
(* shoot goes.                                                             *)
(***************************************************************************)
MCSettles ==
    { Let({"lifecycle", "addresses", "relist"}, 3, 1),
      Let({"addresses", "ca", "relist"}, 3, 2),
      Let({"addresses", "ca", "edit", "remove"}, 3, 2),
      Let({"addresses", "ca", "damage", "upgrade"}, 3, 2),
      Let({"lifecycle", "damage", "disown"}, 3, 0) }

(* The end of the changes, of lists that fail and of the process. *)
MCConverges ==
    { Let({"lifecycle", "quota", "others", "remove"}, 2, 0),
      Let({"quota", "others", "remove", "edit", "listing"}, 2, 1) }

MCDamagedCa == { Let({"ca", "damage"}, 2, 0) }

MCQuotaFreed == { Let({"quota", "remove"}, 3, 0) }
=============================================================================
