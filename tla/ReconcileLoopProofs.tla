------------------------ MODULE ReconcileLoopProofs ------------------------
(***************************************************************************)
(* Proofs about ReconcileLoop for any finite set of requests, any          *)
(* namespaces and any limits that validateConfig accepts.                  *)
(***************************************************************************)
EXTENDS ReconcileLoop, FiniteSetTheorems, TLAPS

(***************************************************************************)
(* The sets that are counted are finite, so that their cardinality is a    *)
(* natural number.                                                         *)
(***************************************************************************)
LEMMA CountedAreFinite ==
    /\ IsFiniteSet(Busy) /\ Cardinality(Busy) \in Nat
    /\ \A ns : IsFiniteSet(InHandler(ns)) /\ Cardinality(InHandler(ns)) \in Nat
<1>1. IsFiniteSet(Busy) /\ Cardinality(Busy) \in Nat
    BY LoopAssumption, FS_Subset, FS_CardinalityType DEF Busy
<1>2. ASSUME NEW ns
      PROVE  IsFiniteSet(InHandler(ns)) /\ Cardinality(InHandler(ns)) \in Nat
    BY LoopAssumption, FS_Subset, FS_CardinalityType DEF InHandler
<1>3. QED
    BY <1>1, <1>2

(* Of two delays the earlier one is a delay, and nothing precedes "soon". *)
LEMMA DelaysCompose ==
    ASSUME NEW d \in Delay, NEW e \in Delay
    PROVE  /\ Earlier(d, e) \in Delay
           /\ Earlier(d, "soon") = "soon"
           /\ d = "soon" => Earlier(d, e) = "soon"
BY DEF Delay, Earlier

(***************************************************************************)
(* Type correctness: every step of the loop keeps every variable in its    *)
(* set; a counter in particular stays a natural number because an entry    *)
(* that exists counts at least the request that is about to leave.         *)
(***************************************************************************)
CounterPositive ==
    \A ns \in DOMAIN ReconcilerCountPerNamespace :
        ReconcilerCountPerNamespace[ns] >= 1

(* Every step keeps the types and keeps the counters positive. *)
LEMMA TypeStep ==
    ASSUME LoopTypeOK, CounterPositive, [LoopNext]_loopVars
    PROVE  LoopTypeOK' /\ CounterPositive'
<1> USE LoopAssumption DEF LoopTypeOK, CounterPositive
<1>1. CASE UNCHANGED loopVars
    BY <1>1 DEF loopVars
<1>2. ASSUME NEW S \in SUBSET Requests, Enqueue(S)
      PROVE  LoopTypeOK' /\ CounterPositive'
    BY <1>2 DEF Enqueue
<1>3. ASSUME NEW S \in SUBSET Requests, Restart(S)
      PROVE  LoopTypeOK' /\ CounterPositive'
    BY <1>3 DEF Restart, Phase, Delay
<1>4. ASSUME NEW k \in Requests, TimerFires(k)
      PROVE  LoopTypeOK' /\ CounterPositive'
    BY <1>4 DEF TimerFires, Delay
<1>5. ASSUME NEW k \in Requests, Take(k)
      PROVE  LoopTypeOK' /\ CounterPositive'
    BY <1>5 DEF Take, Phase
<1>6. ASSUME NEW k \in Requests, Admit(k)
      PROVE  LoopTypeOK' /\ CounterPositive'
    BY <1>6 DEF Admit, Phase, WithCounter, IncreasedCounter
<1>7. ASSUME NEW k \in Requests, Reject(k)
      PROVE  LoopTypeOK' /\ CounterPositive'
    BY <1>7 DEF Reject, Phase, Delay
<1>8. ASSUME NEW k \in Requests, NEW d \in Delay, Handle(k, d)
      PROVE  LoopTypeOK' /\ CounterPositive'
    BY <1>8 DEF Handle, Phase
<1>9. ASSUME NEW k \in Requests, Decrease(k)
      PROVE  LoopTypeOK' /\ CounterPositive'
    BY <1>9 DEF Decrease, Decreased, WithCounter, WithoutCounter, Phase
<1>10. ASSUME NEW k \in Requests, Done(k)
       PROVE  LoopTypeOK' /\ CounterPositive'
    BY <1>10, DelaysCompose DEF Done, Phase, Delay
<1>11. QED
    BY <1>1, <1>2, <1>3, <1>4, <1>5, <1>6, <1>7, <1>8, <1>9, <1>10
       DEF LoopNext, WorkerStep

(***************************************************************************)
(* What each kind of step does to the set of requests that are between     *)
(* increaseCounterForNamespace and decreaseCounterForNamespace.            *)
(***************************************************************************)
LEMMA AdmitCounts ==
    ASSUME LoopTypeOK, NEW k \in Requests, Admit(k), NEW ns
    PROVE  Cardinality(InHandler(ns)') =
              Cardinality(InHandler(ns)) + (IF ns = Namespace[k] THEN 1 ELSE 0)
<1>1. CASE ns = Namespace[k]
  <2>1. InHandler(ns)' = InHandler(ns) \cup {k} /\ k \notin InHandler(ns)
    BY <1>1 DEF Admit, InHandler, LoopTypeOK
  <2>2. QED
    BY <1>1, <2>1, CountedAreFinite, FS_AddElement
<1>2. CASE ns # Namespace[k]
  <2>1. InHandler(ns)' = InHandler(ns)
    BY <1>2 DEF Admit, InHandler, LoopTypeOK
  <2>2. QED
    BY <1>2, <2>1, CountedAreFinite
<1>3. QED
    BY <1>1, <1>2

(* A request that leaves is one less in the handler for its namespace only. *)
LEMMA DecreaseCounts ==
    ASSUME LoopTypeOK, NEW k \in Requests, Decrease(k), NEW ns
    PROVE  Cardinality(InHandler(ns)') =
              Cardinality(InHandler(ns)) - (IF ns = Namespace[k] THEN 1 ELSE 0)
<1>1. CASE ns = Namespace[k]
  <2>1. InHandler(ns)' = InHandler(ns) \ {k} /\ k \in InHandler(ns)
    BY <1>1 DEF Decrease, InHandler, LoopTypeOK
  <2>2. QED
    BY <1>1, <2>1, CountedAreFinite, FS_RemoveElement
<1>2. CASE ns # Namespace[k]
  <2>1. InHandler(ns)' = InHandler(ns)
    BY <1>2 DEF Decrease, InHandler, LoopTypeOK
  <2>2. QED
    BY <1>2, <2>1, CountedAreFinite
<1>3. QED
    BY <1>1, <1>2

(***************************************************************************)
(* The inductive form of CounterExact: an entry equals the cardinality and *)
(* is positive, and a namespace without an entry has nobody in the handler.*)
(* It speaks of every ns, so that no namespace needs to be known.          *)
(***************************************************************************)
CounterInv ==
    /\ CounterPositive
    /\ \A ns \in DOMAIN ReconcilerCountPerNamespace :
            ReconcilerCountPerNamespace[ns] = Cardinality(InHandler(ns))
    /\ \A ns \in Namespaces \ DOMAIN ReconcilerCountPerNamespace :
            Cardinality(InHandler(ns)) = 0

(* Every step keeps the counters exact, restarts included. *)
LEMMA CounterInvStep ==
    ASSUME LoopTypeOK, CounterInv, [LoopNext]_loopVars
    PROVE  CounterInv'
<1>0. CounterPositive'
    BY TypeStep DEF CounterInv
<1>1. CASE \A ns : InHandler(ns)' = InHandler(ns) /\
               UNCHANGED ReconcilerCountPerNamespace
    BY <1>0, <1>1 DEF CounterInv
<1>2. ASSUME NEW k \in Requests, Admit(k)
      PROVE  CounterInv'
  <2>1. Namespace[k] \in Namespaces
    BY LoopAssumption
  <2>2. ReconcilerCountPerNamespace' =
            WithCounter(Namespace[k], IncreasedCounter(Namespace[k]))
    BY <1>2 DEF Admit
  <2>3. IncreasedCounter(Namespace[k]) = Cardinality(InHandler(Namespace[k])) + 1
    BY <2>1 DEF IncreasedCounter, CounterInv
  <2>4. Cardinality(InHandler(Namespace[k])') =
            IncreasedCounter(Namespace[k])
    BY <1>2, <2>3, AdmitCounts
  <2>5. \A ns : ns # Namespace[k] =>
            Cardinality(InHandler(ns)') = Cardinality(InHandler(ns))
    BY <1>2, AdmitCounts, CountedAreFinite
  <2>6. QED
    BY <1>0, <2>1, <2>2, <2>4, <2>5 DEF CounterInv, WithCounter
<1>3. ASSUME NEW k \in Requests, Decrease(k)
      PROVE  CounterInv'
  <2>1. Namespace[k] \in DOMAIN ReconcilerCountPerNamespace
    BY <1>3 DEF Decrease
  <2>2. ReconcilerCountPerNamespace' = Decreased(Namespace[k])
    BY <1>3 DEF Decrease
  <2>3. Cardinality(InHandler(Namespace[k])') =
            ReconcilerCountPerNamespace[Namespace[k]] - 1
    BY <1>3, <2>1, DecreaseCounts DEF CounterInv
  <2>4. \A ns : ns # Namespace[k] =>
            Cardinality(InHandler(ns)') = Cardinality(InHandler(ns))
    BY <1>3, DecreaseCounts, CountedAreFinite
  <2>5. QED
    BY <1>0, <2>1, <2>2, <2>3, <2>4
       DEF CounterInv, Decreased, WithCounter, WithoutCounter
<1>4. ASSUME NEW S \in SUBSET Requests, Restart(S)
      PROVE  CounterInv'
  <2>1. \A ns : InHandler(ns)' = {}
    BY <1>4 DEF Restart, InHandler
  <2>2. DOMAIN ReconcilerCountPerNamespace' = {}
    BY <1>4 DEF Restart
  <2>3. QED
    BY <1>0, <2>1, <2>2, FS_EmptySet DEF CounterInv
<1>5. ASSUME NEW S \in SUBSET Requests, Enqueue(S)
      PROVE  CounterInv'
    BY <1>1, <1>5 DEF Enqueue, InHandler
<1>6. ASSUME NEW k \in Requests, NEW d \in Delay,
             TimerFires(k) \/ Take(k) \/ Reject(k) \/ Handle(k, d) \/ Done(k)
      PROVE  CounterInv'
  <2>1. UNCHANGED ReconcilerCountPerNamespace
    BY <1>6 DEF TimerFires, Take, Reject, Handle, Done
  <2>2. \A j \in Requests : phase[j] \in {"handling", "handled"} <=>
                             phase'[j] \in {"handling", "handled"}
    BY <1>6 DEF TimerFires, Take, Reject, Handle, Done, LoopTypeOK
  <2>3. QED
    BY <1>1, <2>1, <2>2 DEF InHandler
<1>7. CASE UNCHANGED loopVars
    BY <1>1, <1>7 DEF loopVars, InHandler
<1>8. QED
    BY <1>2, <1>3, <1>4, <1>5, <1>6, <1>7 DEF LoopNext, WorkerStep, Delay

(***************************************************************************)
(* The two limits.  Only Admit lets the handler grow, and only after it    *)
(* compared the counter, which CounterInv says is the true number; only    *)
(* Take makes a worker busy.                                               *)
(***************************************************************************)
LimitInv ==
    /\ \A ns \in DOMAIN ReconcilerCountPerNamespace :
            ReconcilerCountPerNamespace[ns] <= MaxConcurrentReconcilesPerNamespace
    /\ Cardinality(Busy) <= MaxConcurrentReconciles

(* Only Take, which looks for an idle worker, makes one more busy. *)
LEMMA BusyStep ==
    ASSUME LoopTypeOK, Cardinality(Busy) <= MaxConcurrentReconciles,
           [LoopNext]_loopVars
    PROVE  Cardinality(Busy') <= MaxConcurrentReconciles
<1>1. ASSUME Busy' \subseteq Busy
      PROVE  Cardinality(Busy') <= MaxConcurrentReconciles
  <2>1. Cardinality(Busy') <= Cardinality(Busy) /\ Cardinality(Busy') \in Nat
    BY <1>1, CountedAreFinite, FS_Subset, FS_CardinalityType
  <2>2. QED
    BY <2>1, CountedAreFinite, LoopAssumption
<1>2. ASSUME NEW k \in Requests, Take(k)
      PROVE  Cardinality(Busy') <= MaxConcurrentReconciles
  <2>1. Busy' = Busy \cup {k}
    BY <1>2 DEF Take, Busy, LoopTypeOK
  <2>2. Cardinality(Busy') <= Cardinality(Busy) + 1
    BY <2>1, CountedAreFinite, FS_AddElement
  <2>3. Cardinality(Busy) < MaxConcurrentReconciles
    BY <1>2 DEF Take
  <2>4. Cardinality(Busy') \in Nat
    BY <2>1, CountedAreFinite, FS_AddElement, FS_CardinalityType
  <2>5. QED
    BY <2>2, <2>3, <2>4, CountedAreFinite, LoopAssumption
<1>3. ASSUME NEW S \in SUBSET Requests, Restart(S) \/ Enqueue(S)
      PROVE  Cardinality(Busy') <= MaxConcurrentReconciles
    BY <1>1, <1>3 DEF Restart, Enqueue, Busy
<1>4. ASSUME NEW k \in Requests, NEW d \in Delay,
             TimerFires(k) \/ WorkerStep(k) \/ Handle(k, d)
      PROVE  Cardinality(Busy') <= MaxConcurrentReconciles
  <2>1. \A j \in Requests : phase[j] = "idle" => phase'[j] = "idle"
    BY <1>4 DEF TimerFires, WorkerStep, Admit, Reject, Handle, Decrease, Done,
                LoopTypeOK
  <2>2. QED
    BY <1>1, <2>1 DEF Busy
<1>5. CASE UNCHANGED loopVars
    BY <1>1, <1>5 DEF loopVars, Busy
<1>6. QED
    BY <1>2, <1>3, <1>4, <1>5 DEF LoopNext, Delay

(* Every step keeps within the limits: Admit compares first, the rest shrinks. *)
LEMMA LimitStep ==
    ASSUME LoopTypeOK, CounterInv, LimitInv, [LoopNext]_loopVars
    PROVE  LimitInv'
<1>0. Cardinality(Busy') <= MaxConcurrentReconciles
    BY BusyStep DEF LimitInv
<1>1. ASSUME UNCHANGED ReconcilerCountPerNamespace
      PROVE  LimitInv'
    BY <1>0, <1>1 DEF LimitInv
<1>2. ASSUME NEW k \in Requests, Admit(k)
      PROVE  LimitInv'
    BY <1>0, <1>2 DEF Admit, WithCounter, LimitInv
<1>3. ASSUME NEW k \in Requests, Decrease(k)
      PROVE  LimitInv'
  <2>1. Namespace[k] \in DOMAIN ReconcilerCountPerNamespace
    BY <1>3 DEF Decrease
  <2>2. /\ ReconcilerCountPerNamespace[Namespace[k]] \in Nat
        /\ ReconcilerCountPerNamespace[Namespace[k]]
                <= MaxConcurrentReconcilesPerNamespace
    BY <2>1 DEF LoopTypeOK, LimitInv
  <2>3. ReconcilerCountPerNamespace[Namespace[k]] - 1
            <= MaxConcurrentReconcilesPerNamespace
    BY <2>2, LoopAssumption
  <2>4. QED
    BY <1>0, <1>3, <2>3 DEF Decrease, Decreased, WithCounter, WithoutCounter,
                            LimitInv
<1>4. ASSUME NEW S \in SUBSET Requests, Restart(S)
      PROVE  LimitInv'
    BY <1>0, <1>4 DEF Restart, LimitInv
<1>5. QED
    BY <1>1, <1>2, <1>3, <1>4
       DEF LoopNext, WorkerStep, loopVars, Enqueue, TimerFires, Take, Reject,
           Handle, Done

-----------------------------------------------------------------------------
(***************************************************************************)
(* The inductive invariant of the loop: the parts need each other, the     *)
(* counter's type its positivity, the limit the counter's exactness.       *)
(***************************************************************************)
LoopInv == LoopTypeOK /\ CounterInv /\ LimitInv

(* It holds initially and every step keeps it. *)
THEOREM LoopInvHolds == LoopSpec => []LoopInv
<1>1. LoopInit => LoopInv
  <2>1. SUFFICES ASSUME LoopInit PROVE LoopInv
    OBVIOUS
  <2>2. \A ns : Cardinality(InHandler(ns)) = 0
    <3>1. \A ns : InHandler(ns) = {}
      BY <2>1 DEF LoopInit, InHandler
    <3>2. QED
      BY <3>1, FS_EmptySet
  <2>3. Cardinality(Busy) <= MaxConcurrentReconciles
    <3>1. Busy = {}
      BY <2>1 DEF LoopInit, Busy
    <3>2. QED
      BY <3>1, FS_EmptySet, LoopAssumption
  <2>4. LoopTypeOK
    BY <2>1 DEF LoopInit, LoopTypeOK, Phase, Delay
  <2>5. DOMAIN ReconcilerCountPerNamespace = {}
    BY <2>1 DEF LoopInit
  <2>6. QED
    BY <2>2, <2>3, <2>4, <2>5
       DEF LoopInv, CounterInv, CounterPositive, LimitInv
<1>2. LoopInv /\ [LoopNext]_loopVars => LoopInv'
    BY TypeStep, CounterInvStep, LimitStep
       DEF LoopInv, CounterInv
<1>3. QED
    BY <1>1, <1>2, PTL DEF LoopSpec

(***************************************************************************)
(* Every variable of the loop keeps its type.                              *)
(***************************************************************************)
THEOREM TypeCorrect == LoopSpec => []LoopTypeOK
<1>1. LoopInv => LoopTypeOK
    BY DEF LoopInv
<1>2. QED
    BY <1>1, LoopInvHolds, PTL

(***************************************************************************)
(* ReconcilerCountPerNamespace is exact and keeps no entry at zero, for    *)
(* any number of workers: the increase and the decrease of Reconcile are   *)
(* paired on every interleaving and across restarts.                       *)
(***************************************************************************)
THEOREM CounterIsExact == LoopSpec => []CounterExact
<1>1. LoopInv => CounterExact
  <2>1. SUFFICES ASSUME LoopInv PROVE CounterExact
    OBVIOUS
  <2>2. \A ns : Cardinality(InHandler(ns)) = 0 <=> InHandler(ns) = {}
    BY CountedAreFinite, FS_EmptySet
  <2>3. QED
    BY <2>1, <2>2 DEF LoopInv, LoopTypeOK, CounterInv, CounterPositive, CounterExact
<1>2. QED
    BY <1>1, LoopInvHolds, PTL

(***************************************************************************)
(* decreaseCounterForNamespace always finds the entry it would panic on    *)
(* if it were missing.                                                     *)
(***************************************************************************)
THEOREM DecreaseFindsEntry == LoopSpec => []NeverPanics
<1>1. CounterExact => NeverPanics
    BY LoopAssumption DEF CounterExact, NeverPanics, InHandler
<1>2. QED
    BY <1>1, CounterIsExact, PTL

(***************************************************************************)
(* No namespace ever runs more reconciles than configured, whatever the    *)
(* other namespaces do.                                                    *)
(***************************************************************************)
THEOREM LimitsAreHeld == LoopSpec => []LimitsHold
<1>1. LoopInv => LimitsHold
  <2>1. SUFFICES ASSUME LoopInv PROVE LimitsHold
    OBVIOUS
  <2>2. \A ns : Cardinality(InHandler(ns)) = 0 <=> InHandler(ns) = {}
    BY CountedAreFinite, FS_EmptySet
  <2>3. QED
    BY <2>1, <2>2 DEF LoopInv, CounterInv, LimitInv, LimitsHold
<1>2. QED
    BY <1>1, LoopInvHolds, PTL

(***************************************************************************)
(* A request is never dropped between being added and being handled: the   *)
(* rejection of a full namespace always leaves a short timer behind.       *)
(***************************************************************************)
THEOREM NothingIsLost == LoopSpec => NoLostRequest
<1> DEFINE Lost(k) ==
        Pending(k) /\ ~Pending(k)' =>
            Admit(k) \/ \E S \in SUBSET Requests : Restart(S)
<1>1. LoopTypeOK /\ [LoopNext]_loopVars => [\A k \in Requests : Lost(k)]_loopVars
  <2> SUFFICES ASSUME LoopTypeOK, LoopNext, NEW k \in Requests, Pending(k),
                      ~Pending(k)', ~Admit(k),
                      ~\E S \in SUBSET Requests : Restart(S)
               PROVE  FALSE
    OBVIOUS
  <2> USE DEF LoopTypeOK, Pending
  <2>1. ASSUME NEW S \in SUBSET Requests, Enqueue(S)
        PROVE  FALSE
    BY <2>1 DEF Enqueue
  <2>2. ASSUME NEW j \in Requests, TimerFires(j) \/ Take(j)
        PROVE  FALSE
    BY <2>2 DEF TimerFires, Take
  <2>3. ASSUME NEW j \in Requests, Admit(j) \/ Reject(j)
        PROVE  FALSE
    BY <2>3 DEF Admit, Reject
  <2>4. ASSUME NEW j \in Requests, NEW d \in Delay, Handle(j, d) \/ Decrease(j)
        PROVE  FALSE
    BY <2>4 DEF Handle, Decrease
  <2>5. ASSUME NEW j \in Requests, Done(j)
        PROVE  FALSE
    BY <2>5, DelaysCompose DEF Done
  <2>6. QED
    BY <2>1, <2>2, <2>3, <2>4, <2>5 DEF LoopNext, WorkerStep, Delay
<1>2. QED
    BY <1>1, TypeCorrect, PTL DEF LoopSpec, NoLostRequest

-----------------------------------------------------------------------------
(* The operator of the standard module, seen through the instance. *)
LEMMA SameCardinality == \A S : Contract!Cardinality(S) = Cardinality(S)
BY DEF Contract!Cardinality, Cardinality

(***************************************************************************)
(* The refinement.  The requests that hold a slot are those the counter    *)
(* counts, and whoever asks for or holds one occupies a worker.            *)
(***************************************************************************)
LEMMA SlotsAreCounted ==
    ASSUME LoopTypeOK
    PROVE  /\ \A ns : Contract!Holders(ns) = InHandler(ns)
           /\ Contract!Active \subseteq Busy
<1>1. ASSUME NEW k \in Requests
      PROVE  /\ SlotStages[k] = "in" <=> phase[k] \in {"handling", "handled"}
             /\ SlotStages[k] # "out" => phase[k] # "idle"
    BY DEF SlotStages
<1>2. ASSUME NEW ns
      PROVE  Contract!Holders(ns) = InHandler(ns)
    BY <1>1 DEF Contract!Holders, InHandler, SlotStages
<1>3. Contract!Active \subseteq Busy
    BY <1>1 DEF Contract!Active, Busy, SlotStages
<1>4. QED
    BY <1>2, <1>3

(* A step of one request moves that request alone. *)
LEMMA StageMoves ==
    ASSUME LoopTypeOK, NEW k \in Requests, NEW p \in Phase,
           phase' = [phase EXCEPT ![k] = p]
    PROVE  SlotStages' = [SlotStages EXCEPT ![k] =
                CASE p = "taken" -> "asking"
                  [] p \in {"handling", "handled"} -> "in"
                  [] OTHER -> "out"]
BY DEF SlotStages, LoopTypeOK

(***************************************************************************)
(* The counter decides as the slots do: with CounterInv its next value     *)
(* exceeds the limit exactly when the holders have reached it.             *)
(***************************************************************************)
LEMMA CounterDecides ==
    ASSUME LoopTypeOK, CounterInv, NEW k \in Requests
    PROVE  IncreasedCounter(Namespace[k]) =
                Cardinality(Contract!Holders(Namespace[k])) + 1
<1>1. Namespace[k] \in Namespaces
    BY LoopAssumption
<1>2. IncreasedCounter(Namespace[k]) = Cardinality(InHandler(Namespace[k])) + 1
    BY <1>1 DEF IncreasedCounter, CounterInv
<1>3. QED
    BY <1>2, SlotsAreCounted

(* Every step of the loop is a step of the slots or leaves them alone. *)
LEMMA SlotStep ==
    ASSUME LoopInv, [LoopNext]_loopVars
    PROVE  [Contract!Next]_SlotStages
<1> USE DEF LoopInv
<1>1. ASSUME UNCHANGED phase
      PROVE  UNCHANGED SlotStages
    BY <1>1 DEF SlotStages
<1>2. ASSUME NEW k \in Requests, Take(k)
      PROVE  Contract!Ask(k)
  <2>1. Cardinality(Contract!Active) <= Cardinality(Busy)
    BY SlotsAreCounted, CountedAreFinite, FS_Subset
  <2>2. Cardinality(Contract!Active) \in Nat
    BY SlotsAreCounted, CountedAreFinite, FS_Subset, FS_CardinalityType
  <2>3. Cardinality(Contract!Active) < MaxConcurrentReconciles
    BY <1>2, <2>1, <2>2, CountedAreFinite, LoopAssumption DEF Take
  <2>4. Contract!Move(k, "out", "asking")
    BY <1>2, StageMoves DEF Take, Phase, SlotStages, Contract!Move
  <2>5. QED
    BY <2>3, <2>4, SameCardinality DEF Contract!Ask
<1>3. ASSUME NEW k \in Requests, Admit(k)
      PROVE  Contract!Enter(k)
  <2>1. Cardinality(Contract!Holders(Namespace[k])) < MaxConcurrentReconcilesPerNamespace
    BY <1>3, CounterDecides, CountedAreFinite, SlotsAreCounted, LoopAssumption DEF Admit
  <2>2. Contract!Move(k, "asking", "in")
    BY <1>3, StageMoves DEF Admit, Phase, SlotStages, Contract!Move
  <2>3. QED
    BY <2>1, <2>2, SameCardinality DEF Contract!Enter
<1>4. ASSUME NEW k \in Requests, Reject(k)
      PROVE  Contract!Refuse(k)
  <2>1. Cardinality(Contract!Holders(Namespace[k])) >= MaxConcurrentReconcilesPerNamespace
    BY <1>4, CounterDecides, CountedAreFinite, SlotsAreCounted, LoopAssumption DEF Reject
  <2>2. Contract!Move(k, "asking", "out")
    BY <1>4, StageMoves DEF Reject, Phase, SlotStages, Contract!Move
  <2>3. QED
    BY <2>1, <2>2, SameCardinality DEF Contract!Refuse
<1>5. ASSUME NEW k \in Requests, Decrease(k)
      PROVE  Contract!Leave(k)
  <2>1. Contract!Move(k, "in", "out")
    BY <1>5, StageMoves DEF Decrease, Phase, SlotStages, Contract!Move
  <2>2. QED
    BY <2>1 DEF Contract!Leave
<1>6. ASSUME NEW k \in Requests, (\E d \in Delay : Handle(k, d)) \/ Done(k)
      PROVE  UNCHANGED SlotStages
    BY <1>6 DEF Handle, Done, SlotStages, LoopTypeOK
<1>7. ASSUME NEW S \in SUBSET Requests, Restart(S)
      PROVE  Contract!Reset
    BY <1>7 DEF Restart, Contract!Reset, SlotStages
<1>8. ASSUME \/ \E S \in SUBSET Requests : Enqueue(S)
             \/ \E k \in Requests : TimerFires(k)
      PROVE  UNCHANGED SlotStages
    BY <1>1, <1>8 DEF Enqueue, TimerFires
<1>9. CASE UNCHANGED loopVars
    BY <1>1, <1>9 DEF loopVars
<1>10. CASE \E S \in SUBSET Requests : Enqueue(S) \/ Restart(S)
    BY <1>7, <1>8, <1>10 DEF Contract!Next
<1>11. ASSUME NEW k \in Requests,
              \/ TimerFires(k) \/ Take(k) \/ WorkerStep(k)
              \/ \E d \in Delay : Handle(k, d)
       PROVE  [Contract!Next]_SlotStages
    BY <1>11, <1>2, <1>3, <1>4, <1>5, <1>6, <1>8 DEF WorkerStep, Contract!Next
<1>12. QED
    BY <1>9, <1>10, <1>11 DEF LoopNext

(***************************************************************************)
(* The loop implements the slots of NamespaceSlots for every number of     *)
(* requests, namespaces and workers and every limit: a request is admitted *)
(* only into a free slot of its namespace and sent away only when none is  *)
(* free.                                                                   *)
(***************************************************************************)
THEOREM SlotsAreImplemented == LoopSpec => ImplementsSlots
<1>1. LoopInit => Contract!Init
    BY DEF LoopInit, Contract!Init, SlotStages
<1>2. LoopInv /\ [LoopNext]_loopVars => [Contract!Next]_SlotStages
    BY SlotStep
<1>3. QED
    BY <1>1, <1>2, LoopInvHolds, PTL DEF LoopSpec, ImplementsSlots, Contract!Spec
=============================================================================
