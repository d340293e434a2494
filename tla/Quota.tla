------------------------------- MODULE Quota -------------------------------
(***************************************************************************)
(* What the shoot controller makes of ResourceQuota objects: whether there *)
(* is room for one more configMap (hasSufficientQuota), and which updates  *)
(* of a quota are worth an event (resourceQuotaPredicate).                 *)
(*                                                                         *)
(* A resource list is a function from the names it mentions to amounts.  A *)
(* quota has the names its spec limits (the code never reads the amounts   *)
(* of the spec) and the two lists of its status.                           *)
(***************************************************************************)
EXTENDS Integers

CONSTANTS Resources, CountConfigMaps

ASSUME QuotaAssumption == CountConfigMaps \in Resources

IsResourceList(list) ==
    DOMAIN list \subseteq Resources /\ \A r \in DOMAIN list : list[r] \in Nat

IsQuota(quota) ==
    /\ quota.spec \subseteq Resources
    /\ IsResourceList(quota.hard)
    /\ IsResourceList(quota.used)

-----------------------------------------------------------------------------
(* quotav1.Mask and quotav1.Equals of k8s.io/apiserver. *)
Mask(list, names) == [r \in DOMAIN list \cap names |-> list[r]]

Equals(a, b) ==
    DOMAIN a = DOMAIN b /\ \A r \in DOMAIN b : a[r] = b[r]

(* util.LessThan: keys that only one of the lists has are not compared. *)
LessThan(a, b) == \A r \in DOMAIN b : r \in DOMAIN a => a[r] < b[r]

(***************************************************************************)
(* The answer hasSufficientQuota derives from one quota: "error" when the  *)
(* status does not yet account for what the spec limits.                   *)
(***************************************************************************)
Verdict(quota) ==
    IF CountConfigMaps \notin quota.spec THEN "sufficient"
    ELSE IF CountConfigMaps \notin DOMAIN quota.hard \cap DOMAIN quota.used
         THEN "error"
    ELSE IF quota.used[CountConfigMaps] + 1 <= quota.hard[CountConfigMaps]
         THEN "sufficient"
    ELSE "insufficient"

(***************************************************************************)
(* hasSufficientQuota over the quotas of a namespace.  The loop ends at    *)
(* the first quota that does not leave room, and the order in which the    *)
(* cache lists them is arbitrary.                                          *)
(***************************************************************************)
hasSufficientQuota(quotas) ==
    LET objections == {Verdict(q) : q \in quotas} \ {"sufficient"}
    IN  IF objections = {} THEN {"sufficient"} ELSE objections

(* resourceQuotaPredicate on an update event. *)
quotaIncreased(old, new) ==
    LET oldHard == Mask(old.hard, {CountConfigMaps})
        newHard == Mask(new.hard, {CountConfigMaps})
    IN  ~Equals(oldHard, newHard) /\ LessThan(oldHard, newHard)

capacityFreed(old, new) ==
    LET oldHard == Mask(old.hard, {CountConfigMaps})
        newHard == Mask(new.hard, {CountConfigMaps})
        oldUsed == Mask(old.used, {CountConfigMaps})
        newUsed == Mask(new.used, {CountConfigMaps})
    IN  /\ ~Equals(oldUsed, newUsed)
        /\ ~LessThan(oldUsed, oldHard)
        /\ LessThan(newUsed, newHard)

(* Mutants: other resources compared as well; freed usage overlooked. *)
quotaIncreasedUnmasked(old, new) ==
    ~Equals(old.hard, new.hard) /\ LessThan(old.hard, new.hard)

resourceQuotaPredicateUnmasked(old, new) ==
    quotaIncreasedUnmasked(old, new) \/ capacityFreed(old, new)

resourceQuotaPredicateHardOnly(old, new) == quotaIncreased(old, new)

resourceQuotaPredicate(old, new) ==
    quotaIncreased(old, new) \/ capacityFreed(old, new)
=============================================================================
