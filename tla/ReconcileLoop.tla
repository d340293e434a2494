--------------------------- MODULE ReconcileLoop ---------------------------
(***************************************************************************)
(* The loop that runs the shoot controller: the work queue and the workers *)
(* that controller-runtime gives a reconciler (external: modelled from how *)
(* SetupWithManager and Reconcile use them) around the code of this        *)
(* repository, ShootReconciler.Reconcile, which admits a request only      *)
(* while its namespace runs fewer than MaxConcurrentReconcilesPerNamespace *)
(* requests.                                                               *)
(*                                                                         *)
(* What handleRequest does is left open here (Handle chooses its outcome); *)
(* ShootController.tla replaces it by the real handler.                    *)
(***************************************************************************)
EXTENDS Integers, FiniteSets

CONSTANTS
    Requests,          \* the keys of the queue: one per shoot
    Namespaces,
    Namespace,         \* [Requests -> Namespaces], req.Namespace
    MaxConcurrentReconciles,
    MaxConcurrentReconcilesPerNamespace

(***************************************************************************)
(* What validateConfig accepts.  It demands no lower bound of the limit    *)
(* per namespace: 0 and negative limits are configurations too.            *)
(***************************************************************************)
ASSUME LoopAssumption ==
    /\ IsFiniteSet(Requests)
    /\ Namespace \in [Requests -> Namespaces]
    /\ MaxConcurrentReconciles \in Nat \ {0}
    /\ MaxConcurrentReconcilesPerNamespace \in Int
    /\ MaxConcurrentReconcilesPerNamespace <= MaxConcurrentReconciles

VARIABLES
    dirty,     \* requests added and not yet taken by a worker
    timer,     \* per request, the earliest AddAfter that has not fired
    phase,     \* how far a worker is with the request
    outcome,   \* what the last call of Reconcile returned for the request
    ReconcilerCountPerNamespace

loopVars == <<dirty, timer, phase, outcome, ReconcilerCountPerNamespace>>

(***************************************************************************)
(* "soon" stands for an error (rate limited, at most 1000s) and for the    *)
(* 100ms..5s of a full namespace; "later" for the 60 minutes of a shoot    *)
(* without addresses and for QuotaExceededRetryDelay; "never" for a result *)
(* that asks for no retry.                                                 *)
(***************************************************************************)
Delay == {"soon", "later", "never"}
Phase == {"idle", "taken", "handling", "handled", "returned"}

(* AddAfter on a key that waits already keeps the earlier of the two. *)
Earlier(d, e) ==
    IF "soon" \in {d, e} THEN "soon"
    ELSE IF "later" \in {d, e} THEN "later" ELSE "never"

Busy == {k \in Requests : phase[k] # "idle"}

InHandler(ns) ==
    {k \in Requests : Namespace[k] = ns /\ phase[k] \in {"handling", "handled"}}

-----------------------------------------------------------------------------
LoopInit ==
    /\ dirty = {}
    /\ timer = [k \in Requests |-> "never"]
    /\ phase = [k \in Requests |-> "idle"]
    /\ outcome = [k \in Requests |-> "never"]
    /\ ReconcilerCountPerNamespace = [ns \in {} |-> 0]

(* An event handler adds requests; a request that is waiting stays single. *)
Enqueue(S) ==
    /\ dirty' = dirty \cup S
    /\ UNCHANGED <<timer, phase, outcome, ReconcilerCountPerNamespace>>

TimerFires(k) ==
    /\ timer[k] # "never"
    /\ timer' = [timer EXCEPT ![k] = "never"]
    /\ dirty' = dirty \cup {k}
    /\ UNCHANGED <<phase, outcome, ReconcilerCountPerNamespace>>

(* A free worker takes a request no other worker is processing. *)
Take(k) ==
    /\ k \in dirty
    /\ phase[k] = "idle"
    /\ Cardinality(Busy) < MaxConcurrentReconciles
    /\ dirty' = dirty \ {k}
    /\ phase' = [phase EXCEPT ![k] = "taken"]
    /\ UNCHANGED <<timer, outcome, ReconcilerCountPerNamespace>>

(* Mutant: the first request of a namespace counts as none. *)
IncreasedCounterFromZero(ns) ==
    IF ns \in DOMAIN ReconcilerCountPerNamespace
    THEN ReconcilerCountPerNamespace[ns] + 1
    ELSE 0

(* The value increaseCounterForNamespace computes, one critical section. *)
IncreasedCounter(ns) ==
    IF ns \in DOMAIN ReconcilerCountPerNamespace
    THEN ReconcilerCountPerNamespace[ns] + 1
    ELSE 1

WithCounter(ns, c) ==
    [n \in DOMAIN ReconcilerCountPerNamespace \cup {ns} |->
        IF n = ns THEN c ELSE ReconcilerCountPerNamespace[n]]

WithoutCounter(ns) ==
    [n \in DOMAIN ReconcilerCountPerNamespace \ {ns} |->
        ReconcilerCountPerNamespace[n]]

(* Mutant: the limit is compared before the counter is increased. *)
AdmitOneMore(k) ==
    /\ phase[k] = "taken"
    /\ IncreasedCounter(Namespace[k]) - 1 <= MaxConcurrentReconcilesPerNamespace
    /\ ReconcilerCountPerNamespace' =
            WithCounter(Namespace[k], IncreasedCounter(Namespace[k]))
    /\ phase' = [phase EXCEPT ![k] = "handling"]
    /\ UNCHANGED <<dirty, timer, outcome>>

Admit(k) ==
    /\ phase[k] = "taken"
    /\ IncreasedCounter(Namespace[k]) <= MaxConcurrentReconcilesPerNamespace
    /\ ReconcilerCountPerNamespace' =
            WithCounter(Namespace[k], IncreasedCounter(Namespace[k]))
    /\ phase' = [phase EXCEPT ![k] = "handling"]
    /\ UNCHANGED <<dirty, timer, outcome>>

(* Mutant: the rejection asks for no retry. *)
RejectForGood(k) ==
    /\ phase[k] = "taken"
    /\ IncreasedCounter(Namespace[k]) > MaxConcurrentReconcilesPerNamespace
    /\ phase' = [phase EXCEPT ![k] = "returned"]
    /\ UNCHANGED <<dirty, timer, outcome, ReconcilerCountPerNamespace>>

(* Mutant: a rejected request stays counted. *)
RejectCounted(k) ==
    /\ phase[k] = "taken"
    /\ IncreasedCounter(Namespace[k]) > MaxConcurrentReconcilesPerNamespace
    /\ ReconcilerCountPerNamespace' =
            WithCounter(Namespace[k], IncreasedCounter(Namespace[k]))
    /\ phase' = [phase EXCEPT ![k] = "returned"]
    /\ outcome' = [outcome EXCEPT ![k] = "soon"]
    /\ UNCHANGED <<dirty, timer>>

Reject(k) ==
    /\ phase[k] = "taken"
    /\ IncreasedCounter(Namespace[k]) > MaxConcurrentReconcilesPerNamespace
    /\ phase' = [phase EXCEPT ![k] = "returned"]
    /\ outcome' = [outcome EXCEPT ![k] = "soon"]
    /\ UNCHANGED <<dirty, timer, ReconcilerCountPerNamespace>>

(* handleRequest returns with outcome d. *)
Handle(k, d) ==
    /\ phase[k] = "handling"
    /\ phase' = [phase EXCEPT ![k] = "handled"]
    /\ outcome' = [outcome EXCEPT ![k] = d]
    /\ UNCHANGED <<dirty, timer, ReconcilerCountPerNamespace>>

(* Mutants: an entry that reached zero stays; nothing is given back. *)
DecreasedToZero(ns) == WithCounter(ns, ReconcilerCountPerNamespace[ns] - 1)
NotDecreased(ns) == ReconcilerCountPerNamespace

(* decreaseCounterForNamespace: an entry is never left at zero. *)
Decreased(ns) ==
    IF ReconcilerCountPerNamespace[ns] - 1 = 0
    THEN WithoutCounter(ns)
    ELSE WithCounter(ns, ReconcilerCountPerNamespace[ns] - 1)

(* Without an entry the code panics and the process ends: see NeverPanics. *)
Decrease(k) ==
    /\ phase[k] = "handled"
    /\ Namespace[k] \in DOMAIN ReconcilerCountPerNamespace
    /\ ReconcilerCountPerNamespace' = Decreased(Namespace[k])
    /\ phase' = [phase EXCEPT ![k] = "returned"]
    /\ UNCHANGED <<dirty, timer, outcome>>

(* controller-runtime acts on the result and tells the queue it is done. *)
Done(k) ==
    /\ phase[k] = "returned"
    /\ timer' = [timer EXCEPT ![k] = Earlier(@, outcome[k])]
    /\ phase' = [phase EXCEPT ![k] = "idle"]
    /\ outcome' = [outcome EXCEPT ![k] = "never"]
    /\ UNCHANGED <<dirty, ReconcilerCountPerNamespace>>

(***************************************************************************)
(* The process ends (a crash, an upgrade, a lost leader election) and its  *)
(* successor starts: everything was in memory, and the first list of the   *)
(* watched objects adds the requests S.                                    *)
(***************************************************************************)
Restart(S) ==
    /\ dirty' = S
    /\ timer' = [k \in Requests |-> "never"]
    /\ phase' = [k \in Requests |-> "idle"]
    /\ outcome' = [k \in Requests |-> "never"]
    /\ ReconcilerCountPerNamespace' = [ns \in {} |-> 0]

-----------------------------------------------------------------------------
(* What the loop does not decide itself. *)
Disturb ==
    \/ \E S \in SUBSET Requests : Enqueue(S) \/ Restart(S)
    \/ \E k \in Requests :
        \/ Handle(k, "soon")
        \/ timer[k] = "later" /\ TimerFires(k)

WorkerStep(k) == Admit(k) \/ Reject(k) \/ Decrease(k) \/ Done(k)

LoopNext ==
    \/ \E S \in SUBSET Requests : Enqueue(S) \/ Restart(S)
    \/ \E k \in Requests :
        \/ TimerFires(k) \/ Take(k) \/ WorkerStep(k)
        \/ \E d \in Delay : Handle(k, d)

LoopSpec == LoopInit /\ [][LoopNext]_loopVars

(***************************************************************************)
(* Workers keep running and handleRequest returns (its calls carry the     *)
(* client's timeouts); the queue is first in first out, so a request that  *)
(* waits while workers become free again and again is taken; a short timer *)
(* fires.                                                                  *)
(***************************************************************************)
LoopFairness ==
    \A k \in Requests :
        /\ WF_loopVars(WorkerStep(k))
        /\ WF_loopVars(\E d \in Delay : Handle(k, d))
        /\ SF_loopVars(Take(k))
        /\ WF_loopVars(timer[k] = "soon" /\ TimerFires(k))

FairLoopSpec == LoopSpec /\ LoopFairness

-----------------------------------------------------------------------------
LoopTypeOK ==
    /\ dirty \subseteq Requests
    /\ timer \in [Requests -> Delay]
    /\ phase \in [Requests -> Phase]
    /\ outcome \in [Requests -> Delay]
    /\ DOMAIN ReconcilerCountPerNamespace \subseteq Namespaces
    /\ \A ns \in DOMAIN ReconcilerCountPerNamespace :
            ReconcilerCountPerNamespace[ns] \in Nat

(***************************************************************************)
(* The map of counters tells exactly how many requests of each namespace   *)
(* are between increaseCounterForNamespace and decreaseCounterForNamespace *)
(* and has no entry for the others: nothing leaks, on no interleaving.     *)
(***************************************************************************)
CounterExact ==
    /\ \A ns \in DOMAIN ReconcilerCountPerNamespace :
            ReconcilerCountPerNamespace[ns] = Cardinality(InHandler(ns))
    /\ \A ns \in Namespaces :
            ns \in DOMAIN ReconcilerCountPerNamespace <=> InHandler(ns) # {}

(***************************************************************************)
(* decreaseCounterForNamespace never meets the missing entry it panics on. *)
(***************************************************************************)
NeverPanics ==
    \A k \in Requests :
        phase[k] = "handled" => Namespace[k] \in DOMAIN ReconcilerCountPerNamespace

(***************************************************************************)
(* No namespace runs more reconciles than the configuration allows, nor    *)
(* all namespaces together more than there are workers.                    *)
(***************************************************************************)
LimitsHold ==
    /\ \A ns \in Namespaces :
        InHandler(ns) # {} =>
            Cardinality(InHandler(ns)) <= MaxConcurrentReconcilesPerNamespace
    /\ Cardinality(Busy) <= MaxConcurrentReconciles

(* The request waits for a worker, or for a short time before it does. *)
Pending(k) ==
    \/ k \in dirty
    \/ phase[k] = "taken"
    \/ phase[k] = "returned" /\ outcome[k] = "soon"
    \/ timer[k] = "soon"

(***************************************************************************)
(* A request that was added is not forgotten before a handling of it has   *)
(* begun, however often a full namespace sends it away: only the admission *)
(* of the request, or the end of the process, ends its waiting.            *)
(***************************************************************************)
NoLostRequest ==
    [][\A k \in Requests :
        Pending(k) /\ ~Pending(k)' => Admit(k) \/ \E S \in SUBSET Requests : Restart(S)]_loopVars

(***************************************************************************)
(* Once nothing new is added, nothing fails and no long timer fires, every *)
(* request that waits is admitted, the ones a full namespace rejected      *)
(* included.                                                               *)
(***************************************************************************)
WaitersAreAdmitted ==
    (<>[][~Disturb]_loopVars) => \A k \in Requests : []<>~Pending(k)

-----------------------------------------------------------------------------
(***************************************************************************)
(* What a request is to the slots of its namespace: it asks for one while  *)
(* a worker is about to admit it and holds it until the counter is given   *)
(* back.  A request that has returned only still waits for its worker.     *)
(***************************************************************************)
SlotStages ==
    [k \in Requests |->
        CASE phase[k] = "taken" -> "asking"
          [] phase[k] \in {"handling", "handled"} -> "in"
          [] OTHER -> "out"]

Contract == INSTANCE NamespaceSlots WITH
    Slots <- MaxConcurrentReconcilesPerNamespace,
    Workers <- MaxConcurrentReconciles,
    stage <- SlotStages

(***************************************************************************)
(* The counters, the rejections and the restarts of Reconcile implement    *)
(* the slots of NamespaceSlots: besides the limit, a request is sent away  *)
(* only while its namespace has no slot free.                              *)
(***************************************************************************)
ImplementsSlots == Contract!Spec
=============================================================================
