---------------------------- MODULE MCQuotaWatch ----------------------------
(***************************************************************************)
(* Two quotas and amounts up to two.  The limit of the second resource     *)
(* never changes: it must not hide an increase of the first.               *)
(***************************************************************************)
EXTENDS QuotaWatch, TLC

CONSTANTS configmaps, pods

MCAmounts == 0..2

MCLists ==
    {<<>>} \cup [{configmaps} -> MCAmounts]
           \cup {(configmaps :> n) @@ (pods :> 1) : n \in MCAmounts}

MCObjects ==
    [spec : {{}, {configmaps}}, hard : MCLists, used : MCLists]
=============================================================================
