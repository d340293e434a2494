---------------------------- MODULE QuotaProofs ----------------------------
(***************************************************************************)
(* Proofs about QuotaWatch for any number of quotas, any resources and any *)
(* amounts.                                                                *)
(***************************************************************************)
EXTENDS QuotaWatch, TLAPS

(***************************************************************************)
(* The predicate misses nothing: an update of an exhausted quota that is   *)
(* filtered out leaves the quota exhausted.  It covers raised and lowered  *)
(* limits, freed usage, both at once, and keys that appear or vanish.      *)
(***************************************************************************)
LEMMA FilteredStaysExhausted ==
    ASSUME NEW old, NEW new, IsQuota(old), IsQuota(new),
           Exhausted(old), ~resourceQuotaPredicate(old, new)
    PROVE  Exhausted(new)
<1> DEFINE cm == CountConfigMaps
           names == {cm}
<1>1. /\ DOMAIN Mask(old.hard, names) = names
      /\ DOMAIN Mask(old.used, names) = names
      /\ Mask(old.hard, names)[cm] = old.hard[cm]
      /\ Mask(old.used, names)[cm] = old.used[cm]
    BY DEF Exhausted, Mask
<1>2. /\ cm \in DOMAIN new.hard =>
            /\ DOMAIN Mask(new.hard, names) = names
            /\ Mask(new.hard, names)[cm] = new.hard[cm]
      /\ cm \notin DOMAIN new.hard => DOMAIN Mask(new.hard, names) = {}
      /\ cm \in DOMAIN new.used =>
            /\ DOMAIN Mask(new.used, names) = names
            /\ Mask(new.used, names)[cm] = new.used[cm]
      /\ cm \notin DOMAIN new.used => DOMAIN Mask(new.used, names) = {}
    BY DEF Mask
<1>3. /\ old.hard[cm] \in Nat /\ old.used[cm] \in Nat
      /\ old.used[cm] >= old.hard[cm]
    BY DEF Exhausted, IsQuota, IsResourceList
<1>4. cm \in DOMAIN new.hard => new.hard[cm] \in Nat
    BY DEF IsQuota, IsResourceList
<1>5. cm \in DOMAIN new.used => new.used[cm] \in Nat
    BY DEF IsQuota, IsResourceList
<1>6. cm \in DOMAIN new.hard
  <2>1. SUFFICES ASSUME cm \notin DOMAIN new.hard PROVE FALSE
    OBVIOUS
  <2>2. quotaIncreased(old, new)
    BY <1>1, <1>2, <2>1 DEF quotaIncreased, Equals, LessThan
  <2>3. QED
    BY <2>2 DEF resourceQuotaPredicate
<1>7. ~LessThan(Mask(old.used, names), Mask(old.hard, names))
    BY <1>1, <1>3 DEF LessThan
<1>8. cm \in DOMAIN new.used
  <2>1. SUFFICES ASSUME cm \notin DOMAIN new.used PROVE FALSE
    OBVIOUS
  <2>2. capacityFreed(old, new)
    BY <1>1, <1>2, <1>7, <2>1 DEF capacityFreed, Equals, LessThan
  <2>3. QED
    BY <2>2 DEF resourceQuotaPredicate
<1>9. new.hard[cm] <= old.hard[cm]
  <2>1. SUFFICES ASSUME old.hard[cm] < new.hard[cm] PROVE FALSE
    BY <1>3, <1>4, <1>6
  <2>2. ~Equals(Mask(old.hard, names), Mask(new.hard, names))
    <3>1. old.hard[cm] # new.hard[cm]
      BY <1>3, <1>4, <1>6, <2>1
    <3>2. QED
      BY <1>1, <1>2, <1>6, <3>1 DEF Equals
  <2>3. LessThan(Mask(old.hard, names), Mask(new.hard, names))
    BY <1>1, <1>2, <1>6, <2>1 DEF LessThan
  <2>4. QED
    BY <2>2, <2>3 DEF resourceQuotaPredicate, quotaIncreased
<1>10. new.used[cm] >= new.hard[cm]
  <2>1. CASE new.used[cm] = old.used[cm]
    BY <1>3, <1>4, <1>5, <1>6, <1>8, <1>9, <2>1
  <2>2. CASE new.used[cm] # old.used[cm]
    <3>1. ~Equals(Mask(old.used, names), Mask(new.used, names))
      BY <1>1, <1>2, <1>8, <2>2 DEF Equals
    <3>2. ~LessThan(Mask(new.used, names), Mask(new.hard, names))
      BY <1>7, <3>1 DEF resourceQuotaPredicate, capacityFreed
    <3>3. QED
      BY <1>2, <1>4, <1>5, <1>6, <1>8, <3>2 DEF LessThan
  <2>3. QED
    BY <2>1, <2>2
<1>11. QED
    BY <1>6, <1>8, <1>10 DEF Exhausted

(***************************************************************************)
(* hasSufficientQuota says "insufficient" only on account of an exhausted  *)
(* quota.                                                                  *)
(***************************************************************************)
LEMMA RefusalNamesAQuota ==
    ASSUME \A q \in Cached : IsQuota(q),
           "insufficient" \in hasSufficientQuota(Cached)
    PROVE  \E q \in Cached : Exhausted(q)
<1>1. PICK q \in Cached : Verdict(q) = "insufficient"
    BY DEF hasSufficientQuota
<1>2. Exhausted(q)
    BY <1>1 DEF Verdict, Exhausted, IsQuota, IsResourceList
<1>3. QED
    BY <1>2

-----------------------------------------------------------------------------
(***************************************************************************)
(* A shoot that was refused sleeps for QuotaExceededRetryDelay only while  *)
(* some quota in the cache is exhausted, for any number of quotas and any  *)
(* history of their updates.                                               *)
(***************************************************************************)
THEOREM NoWakeUpMissed == QuotaSpec => [](QuotaTypeOK /\ WaitIsJustified)
<1>1. QuotaInit => QuotaTypeOK /\ WaitIsJustified
    BY DEF QuotaInit, QuotaTypeOK, WaitIsJustified
<1>2. QuotaTypeOK /\ WaitIsJustified /\ [QuotaNext]_quotaVars
        => (QuotaTypeOK /\ WaitIsJustified)'
  <2> SUFFICES ASSUME QuotaTypeOK, WaitIsJustified, [QuotaNext]_quotaVars
               PROVE  QuotaTypeOK' /\ WaitIsJustified'
    OBVIOUS
  <2>0. \A q \in Cached : IsQuota(q)
    BY QuotaWatchAssumption DEF QuotaTypeOK, Cached
  <2>1. CASE UNCHANGED quotaVars
    BY <2>1 DEF quotaVars, QuotaTypeOK, WaitIsJustified, Cached
  <2>2. ASSUME NEW n \in QuotaNames, NEW q \in Objects, CreateQuota(n, q)
        PROVE  QuotaTypeOK' /\ WaitIsJustified'
    <3>1. PICK names \in SUBSET QuotaNames : quotas \in [names -> Objects]
      BY DEF QuotaTypeOK
    <3>2. quotas' \in [names \cup {n} -> Objects]
      BY <2>2, <3>1 DEF CreateQuota
    <3>3. QED
      BY <2>2, <3>2 DEF CreateQuota, QuotaTypeOK, WaitIsJustified
  <2>3. ASSUME NEW n \in QuotaNames, DeleteQuota(n)
        PROVE  QuotaTypeOK' /\ WaitIsJustified'
    <3>1. PICK names \in SUBSET QuotaNames : quotas \in [names -> Objects]
      BY DEF QuotaTypeOK
    <3>2. quotas' \in [names \ {n} -> Objects]
      BY <2>3, <3>1 DEF DeleteQuota
    <3>3. QED
      BY <2>3, <3>2 DEF DeleteQuota, QuotaTypeOK, WaitIsJustified
  <2>4. ASSUME NEW n \in QuotaNames, NEW q \in Objects, UpdateQuota(n, q)
        PROVE  QuotaTypeOK' /\ WaitIsJustified'
    <3>1. QuotaTypeOK'
      BY <2>4 DEF UpdateQuota, QuotaTypeOK
    <3>2. CASE resourceQuotaPredicate(quotas[n], q) \/ ~waiting
      BY <2>4, <3>1, <3>2 DEF UpdateQuota, WaitIsJustified
    <3>3. CASE ~resourceQuotaPredicate(quotas[n], q) /\ waiting
      <4>1. PICK m \in DOMAIN quotas : Exhausted(quotas[m])
        BY <3>3 DEF WaitIsJustified, Cached
      <4>2. IsQuota(q) /\ IsQuota(quotas[n])
        BY <2>0, <2>4, QuotaWatchAssumption DEF UpdateQuota, Cached
      <4>3. Exhausted(quotas'[m])
        <5>1. CASE m = n
          BY <2>4, <3>3, <4>1, <4>2, <5>1, FilteredStaysExhausted
             DEF UpdateQuota, QuotaTypeOK
        <5>2. CASE m # n
          BY <2>4, <4>1, <5>2 DEF UpdateQuota, QuotaTypeOK
        <5>3. QED
          BY <5>1, <5>2
      <4>4. m \in DOMAIN quotas'
        BY <2>4 DEF UpdateQuota, QuotaTypeOK
      <4>5. QED
        BY <3>1, <4>3, <4>4 DEF WaitIsJustified, Cached
    <3>4. QED
      BY <3>1, <3>2, <3>3
  <2>5. ASSUME HandleRequest
        PROVE  QuotaTypeOK' /\ WaitIsJustified'
    <3>1. waiting' => \E q \in Cached : Exhausted(q)
      BY <2>0, <2>5, RefusalNamesAQuota DEF HandleRequest
    <3>2. Cached' = Cached
      BY <2>5 DEF HandleRequest, Cached
    <3>3. QED
      BY <2>5, <3>1, <3>2 DEF HandleRequest, QuotaTypeOK, WaitIsJustified
  <2>6. QED
    BY <2>1, <2>2, <2>3, <2>4, <2>5 DEF QuotaNext
<1>3. QED
    BY <1>1, <1>2, PTL DEF QuotaSpec

(***************************************************************************)
(* With every status in line with its spec, a shoot that waits would be    *)
(* refused again: the long sleep never costs a shoot its kubeconfig.       *)
(***************************************************************************)
THEOREM WaitersAreRefused == QuotaSpec => []WaitingWouldBeRefused
<1>1. QuotaTypeOK /\ WaitIsJustified => WaitingWouldBeRefused
  <2> SUFFICES ASSUME QuotaTypeOK, WaitIsJustified, waiting,
                      \A q \in Cached : DOMAIN q.hard = q.spec
               PROVE  hasSufficientQuota(Cached) # {"sufficient"}
    BY DEF WaitingWouldBeRefused
  <2>1. PICK q \in Cached : Exhausted(q)
    BY DEF WaitIsJustified
  <2>2. IsQuota(q)
    BY QuotaWatchAssumption DEF QuotaTypeOK, Cached
  <2>3. Verdict(q) = "insufficient"
    BY <2>1, <2>2 DEF Exhausted, Verdict, IsQuota, IsResourceList
  <2>4. QED
    BY <2>3 DEF hasSufficientQuota
<1>2. QED
    BY <1>1, NoWakeUpMissed, PTL
=============================================================================
