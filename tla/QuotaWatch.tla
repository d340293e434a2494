----------------------------- MODULE QuotaWatch -----------------------------
(***************************************************************************)
(* The quotas of one project namespace as the controller's cache shows     *)
(* them, and a shoot without a kubeconfig configMap.  When handleRequest   *)
(* finds no room it gives up for QuotaExceededRetryDelay (24 hours) and    *)
(* relies on the quota events to be woken earlier.  Which event wakes      *)
(* which shoot is the subject of ShootController.tla; here every event the *)
(* predicate lets through wakes the shoot.                                 *)
(*                                                                         *)
(* A cache update may take a quota from any object to any other: watch     *)
(* events are coalesced by a relist.                                       *)
(***************************************************************************)
EXTENDS Quota

CONSTANTS
    QuotaNames,
    Objects       \* the quota objects considered, each an IsQuota

ASSUME QuotaWatchAssumption == \A q \in Objects : IsQuota(q)

VARIABLES
    quotas,    \* the cached quotas, a function from names to Objects
    waiting    \* handleRequest found no room and nothing woke the shoot since

quotaVars == <<quotas, waiting>>

Cached == {quotas[n] : n \in DOMAIN quotas}

QuotaInit ==
    /\ quotas \in UNION {[names -> Objects] : names \in SUBSET QuotaNames}
    /\ waiting = FALSE

(* Create and delete events always pass. *)
CreateQuota(n, q) ==
    /\ n \notin DOMAIN quotas
    /\ quotas' = [m \in DOMAIN quotas \cup {n} |-> IF m = n THEN q ELSE quotas[m]]
    /\ waiting' = FALSE

DeleteQuota(n) ==
    /\ n \in DOMAIN quotas
    /\ quotas' = [m \in DOMAIN quotas \ {n} |-> quotas[m]]
    /\ waiting' = FALSE

UpdateQuota(n, q) ==
    /\ n \in DOMAIN quotas
    /\ quotas' = [quotas EXCEPT ![n] = q]
    /\ waiting' = (waiting /\ ~resourceQuotaPredicate(quotas[n], q))

(* handleRequest for a shoot whose configMap does not exist. *)
HandleRequest ==
    /\ \E verdict \in hasSufficientQuota(Cached) :
            waiting' = (verdict = "insufficient")
    /\ UNCHANGED quotas

QuotaNext ==
    \/ \E n \in QuotaNames :
        \/ \E q \in Objects : CreateQuota(n, q) \/ UpdateQuota(n, q)
        \/ DeleteQuota(n)
    \/ HandleRequest

QuotaSpec == QuotaInit /\ [][QuotaNext]_quotaVars

-----------------------------------------------------------------------------
QuotaTypeOK ==
    /\ \E names \in SUBSET QuotaNames : quotas \in [names -> Objects]
    /\ waiting \in BOOLEAN

(* The status of the quota leaves no room, whatever its spec says by now. *)
Exhausted(quota) ==
    /\ CountConfigMaps \in DOMAIN quota.hard \cap DOMAIN quota.used
    /\ quota.used[CountConfigMaps] >= quota.hard[CountConfigMaps]

(***************************************************************************)
(* A shoot that waits for the long retry waits for a reason that still     *)
(* holds: of the quotas in the cache one is exhausted.  However the quotas *)
(* changed since the handler looked, and however many updates the watch    *)
(* skipped, no update that made room was filtered out.                     *)
(***************************************************************************)
WaitIsJustified == waiting => \E q \in Cached : Exhausted(q)

(***************************************************************************)
(* Once the quota controller brought the status of every quota in line     *)
(* with its spec, a waiting shoot would be refused again.                  *)
(***************************************************************************)
WaitingWouldBeRefused ==
    (waiting /\ \A q \in Cached : DOMAIN q.hard = q.spec)
        => hasSufficientQuota(Cached) # {"sufficient"}
=============================================================================
