-------------------------- MODULE ShootController --------------------------
(***************************************************************************)
(* The shoot controller at work on the garden cluster: the informer caches *)
(* it reads, the predicates and mappings that turn watch events into       *)
(* requests, and handleRequest with every read and write a step of its     *)
(* own, run by the loop of ReconcileLoop.tla.                              *)
(***************************************************************************)
EXTENDS GardenCluster, ReconcileLoop

CONSTANTS
    MetadataLags      \* FALSE: an idealisation, see ListedShoots

ASSUME ControllerAssumption == Requests = Shoots

VARIABLES
    mShoots, mConfigMaps,   \* the metadata caches: the objects they list,
                            \* Absent until their first use
    pc,          \* the next call of handleRequest, "none" outside of it
    local        \* what handleRequest has read and rendered

metadata == <<mShoots, mConfigMaps>>
handler == <<pc, local>>
vars == <<clusterVars, loopVars, metadata, handler>>

NoLocal == [shoot |-> Absent, found |-> FALSE, desired |-> Absent]

(* The structured caches. *)
cShoot(s) == Known(shoots[s])
cShootState(s) == Known(shootStates[s])
cConfigMap(s) == Known(configMaps[s])
cQuota == Known(quotas)

-----------------------------------------------------------------------------
(* Events.  Create and delete events pass every predicate. *)
Passes(predicate(_, _), old, new) ==
    IF Absent \in {old, new} THEN old # new ELSE predicate(old, new)

shootPredicate(old, new) == old.addresses # new.addresses

(* Mutant: the role label is not compared. *)
configMapPredicateDataOnly(old, new) ==
    (old.role \/ new.role) /\ old.data # new.data

configMapPredicate(old, new) ==
    /\ old.role \/ new.role
    /\ old.role # new.role \/ old.data # new.data

(* clusterCaCert fails for these; for NotProvisioned with an error of its own. *)
shootStatePredicate(old, new) ==
    /\ old # Unparsable
    /\ new \notin {Unparsable, NotProvisioned}
    /\ old # new

(* Mutant: an owner reference that is not the controller reference. *)
HasOwnerPlain(cm) == FALSE

(* The owner of a configMap is looked up by name: any uid leads to s. *)
HasOwner(cm) == cm # Absent /\ cm.owner # NoOwner

(***************************************************************************)
(* The two lists behind a quota event are lists of object metadata, which  *)
(* controller-runtime serves from informers of their own, started by the   *)
(* first list.  With MetadataLags FALSE they are always level with the     *)
(* structured caches.                                                      *)
(***************************************************************************)
StoredShoots == {s \in Shoots : shoot(s) # Absent}
StoredConfigMaps == {s \in Shoots : configMap(s) # Absent /\ configMap(s).role}

ListedShoots ==
    IF ~MetadataLags THEN {s \in Shoots : cShoot(s) # Absent}
    ELSE IF mShoots = Absent THEN StoredShoots ELSE mShoots
ListedConfigMaps ==
    IF ~MetadataLags THEN {s \in Shoots : cConfigMap(s) # Absent /\ cConfigMap(s).role}
    ELSE IF mConfigMaps = Absent THEN StoredConfigMaps ELSE mConfigMaps

(* A quota event concerns the shoots without a kubeconfig configMap. *)
QuotaRequests == ListedShoots \ ListedConfigMaps

(***************************************************************************)
(* An informer delivers the next version.  When its watch broke, it lists  *)
(* again and delivers the stored version at once (a fault).                *)
(***************************************************************************)
Advance(log, rest) ==
    \/ rest = Tail(log) /\ UNCHANGED budget
    \/ /\ "relist" \in budget.kinds
       /\ Len(log) > 2
       /\ rest = <<Stored(log)>>
       /\ Fault

Behind(log) == Len(log) > 1

Notify(passes, S) == IF passes THEN Enqueue(S) ELSE UNCHANGED loopVars

DeliverShoot(s) ==
    /\ Behind(shoots[s])
    /\ \E rest \in {Tail(shoots[s]), <<shoot(s)>>} :
        /\ Advance(shoots[s], rest)
        /\ shoots' = [shoots EXCEPT ![s] = rest]
        /\ Notify(Passes(shootPredicate, cShoot(s), Head(rest)), {s})
    /\ UNCHANGED <<shootStates, configMaps, quotas, others, created, current,
                   metadata, handler>>

DeliverShootState(s) ==
    /\ Behind(shootStates[s])
    /\ \E rest \in {Tail(shootStates[s]), <<shootState(s)>>} :
        /\ Advance(shootStates[s], rest)
        /\ shootStates' = [shootStates EXCEPT ![s] = rest]
        /\ Notify(Passes(shootStatePredicate, cShootState(s), Head(rest)), {s})
    /\ UNCHANGED <<shoots, configMaps, quotas, others, created, current,
                   metadata, handler>>

DeliverConfigMap(s) ==
    /\ Behind(configMaps[s])
    /\ \E rest \in {Tail(configMaps[s]), <<configMap(s)>>} :
        /\ Advance(configMaps[s], rest)
        /\ configMaps' = [configMaps EXCEPT ![s] = rest]
        /\ Notify(/\ Passes(configMapPredicate, cConfigMap(s), Head(rest))
                  /\ HasOwner(cConfigMap(s)) \/ HasOwner(Head(rest)), {s})
    /\ UNCHANGED <<shoots, shootStates, quotas, others, created, current,
                   metadata, handler>>

DeliverQuota ==
    /\ Behind(quotas)
    /\ \E rest \in {Tail(quotas), <<quota>>} :
        /\ Advance(quotas, rest)
        /\ quotas' = rest
        /\ LET passes == Passes(resourceQuotaPredicate, cQuota, Head(rest))
           IN  /\ Notify(passes, QuotaRequests)
               /\ IF passes /\ MetadataLags
                  THEN mShoots' = ListedShoots /\ mConfigMaps' = ListedConfigMaps
                  ELSE UNCHANGED metadata
    /\ UNCHANGED <<shoots, shootStates, configMaps, others, created, current, handler>>

(* The first or the second list fails: the event leads to no request. *)
LoseQuotaEvent ==
    /\ "listing" \in budget.kinds /\ Fault
    /\ Behind(quotas)
    /\ quotas' = Tail(quotas)
    /\ Passes(resourceQuotaPredicate, cQuota, Known(quotas'))
    /\ mShoots' \in {mShoots, ListedShoots}
    /\ UNCHANGED <<shoots, shootStates, configMaps, others, created, current, loopVars,
                   mConfigMaps, handler>>

(* The metadata informers raise no events, so only where they stand counts. *)
DeliverMetadata ==
    /\ \/ /\ mShoots \notin {Absent, StoredShoots} /\ mShoots' = StoredShoots
          /\ UNCHANGED mConfigMaps
       \/ /\ mConfigMaps \notin {Absent, StoredConfigMaps}
          /\ mConfigMaps' = StoredConfigMaps
          /\ UNCHANGED mShoots
    /\ UNCHANGED <<clusterVars, loopVars, handler>>

Deliver ==
    \/ \E s \in Shoots :
        DeliverShoot(s) \/ DeliverShootState(s) \/ DeliverConfigMap(s)
    \/ DeliverQuota \/ LoseQuotaEvent \/ DeliverMetadata

-----------------------------------------------------------------------------
(* handleRequest.  Reads see the caches, writes go to the API server. *)
Goto(s, call, newLocal) ==
    /\ pc' = [pc EXCEPT ![s] = call]
    /\ local' = [local EXCEPT ![s] = newLocal]
    /\ UNCHANGED loopVars

Return(s, delay) ==
    /\ pc' = [pc EXCEPT ![s] = "none"]
    /\ local' = [local EXCEPT ![s] = NoLocal]
    /\ Handle(s, delay)

(* Mutant: what a deleted shoot leaves is left to the garbage collector. *)
GetShootReliesOnOwner(s) ==
    /\ pc[s] = "getShoot"
    /\ IF cShoot(s) = Absent
       THEN Return(s, "never")
       ELSE Goto(s, "getConfigMap", [NoLocal EXCEPT !.shoot = cShoot(s)])
    /\ UNCHANGED <<clusterVars, metadata>>

GetShoot(s) ==
    /\ pc[s] = "getShoot"
    /\ IF cShoot(s) = Absent
       THEN Goto(s, "delete", NoLocal)
       ELSE Goto(s, "getConfigMap", [NoLocal EXCEPT !.shoot = cShoot(s)])
    /\ UNCHANGED <<clusterVars, metadata>>

GetConfigMap(s) ==
    /\ pc[s] = "getConfigMap"
    /\ IF cConfigMap(s) = Absent
       THEN Goto(s, "listQuotas", local[s])
       ELSE Goto(s, "getShootState", [local[s] EXCEPT !.found = TRUE])
    /\ UNCHANGED <<clusterVars, metadata>>

(* Mutant: QuotaExceededRetryDelay is 0, which asks for no retry. *)
ListQuotasNoRetry(s) ==
    /\ pc[s] = "listQuotas"
    /\ \E verdict \in hasSufficientQuota({cQuota} \ {Absent}) :
        \/ verdict = "sufficient" /\ Goto(s, "getShootState", local[s])
        \/ verdict = "error" /\ Return(s, "soon")
        \/ verdict = "insufficient" /\ Return(s, "never")
    /\ UNCHANGED <<clusterVars, metadata>>

ListQuotas(s) ==
    /\ pc[s] = "listQuotas"
    /\ \E verdict \in hasSufficientQuota({cQuota} \ {Absent}) :
        \/ verdict = "sufficient" /\ Goto(s, "getShootState", local[s])
        \/ verdict = "error" /\ Return(s, "soon")
        \/ verdict = "insufficient" /\ Return(s, "later")
    /\ UNCHANGED <<clusterVars, metadata>>

(* Mutants: shoots without addresses are rendered; a CA that is not usable *)
(* is taken for a ShootState that is gone.                                 *)
GetShootStateUnchecked(s) ==
    /\ pc[s] = "getShootState"
    /\ IF cShootState(s) \in CaCerts
       THEN Goto(s, "createOrUpdate",
                 [local[s] EXCEPT !.desired = Rendered(local[s].shoot, cShootState(s))])
       ELSE Goto(s, "delete", NoLocal)
    /\ UNCHANGED <<clusterVars, metadata>>

(***************************************************************************)
(* Everything up to the rendered kubeconfig, which depends on the shoot    *)
(* read first and on the ShootState read now.                              *)
(***************************************************************************)
GetShootState(s) ==
    /\ pc[s] = "getShootState"
    /\ \/ /\ cShootState(s) = Absent
          /\ Goto(s, "delete", NoLocal)
       \/ /\ cShootState(s) # Absent
          /\ local[s].shoot.addresses = NoAddresses
          /\ Return(s, "later")
       \/ /\ cShootState(s) \in {NotProvisioned, Unparsable, Invalid}
          /\ local[s].shoot.addresses # NoAddresses
          /\ Return(s, "soon")
       \/ /\ cShootState(s) \in CaCerts
          /\ local[s].shoot.addresses # NoAddresses
          /\ Goto(s, "createOrUpdate",
                  [local[s] EXCEPT !.desired = Rendered(local[s].shoot, cShootState(s))])
    /\ UNCHANGED <<clusterVars, metadata>>

(* Mutant: the handling ends with a request for another one. *)
ReconciledRequeue(s) == Return(s, "soon")

(* reconciled successfully *)
Reconciled(s) == Return(s, "never")

(***************************************************************************)
(* CreateOrUpdate reads the configMap again.  When it has vanished since   *)
(* the first read, the object still carries the resourceVersion of that    *)
(* read, and the API server refuses to create it.                          *)
(***************************************************************************)
CreateOrUpdate(s) ==
    /\ pc[s] = "createOrUpdate"
    /\ \/ /\ cConfigMap(s) = Absent
          /\ IF local[s].found THEN Return(s, "soon")
                               ELSE Goto(s, "create", local[s])
          /\ UNCHANGED current
       \/ /\ cConfigMap(s) = local[s].desired
          /\ Reconciled(s)
          /\ UNCHANGED current
       \/ /\ cConfigMap(s) \notin {Absent, local[s].desired}
          /\ Goto(s, "update", local[s])
          /\ current' = IF Behind(configMaps[s]) THEN current \ {s} ELSE current \cup {s}
    /\ UNCHANGED <<shoots, shootStates, configMaps, quotas, others, created, budget,
                   metadata>>

(***************************************************************************)
(* The writes.  An accepted write is applied; its answer may still get     *)
(* lost (a fault), and then handleRequest returns an error all the same.   *)
(***************************************************************************)
Answer(s) ==
    \/ Reconciled(s) /\ UNCHANGED budget
    \/ Fault /\ Return(s, "soon")

(* Mutant: a refused write is taken for a success. *)
RefusedIgnored(s) ==
    /\ Reconciled(s)
    /\ UNCHANGED <<objects, budget>>

Refused(s) ==
    /\ Return(s, "soon")
    /\ UNCHANGED <<objects, budget>>

Create(s) ==
    /\ pc[s] = "create"
    /\ \/ ApiCreate(s, local[s].desired) /\ Answer(s)
       \/ ~(configMap(s) = Absent /\ Room) /\ Refused(s)
    /\ UNCHANGED metadata

Update(s) ==
    /\ pc[s] = "update"
    /\ \/ s \in current /\ ApiUpdate(s, local[s].desired) /\ Answer(s)
       \/ s \notin current /\ Refused(s)
    /\ UNCHANGED metadata

Delete(s) ==
    /\ pc[s] = "delete"
    /\ \/ ApiDelete(s) /\ Answer(s)
       \/ /\ configMap(s) = Absent
          /\ Return(s, "never")
          /\ UNCHANGED <<objects, budget>>
    /\ UNCHANGED metadata

(* A call fails without effect. *)
CallFails(s) ==
    /\ pc[s] # "none"
    /\ Fault
    /\ Return(s, "soon")
    /\ current' = current \ {s}
    /\ UNCHANGED <<shoots, shootStates, configMaps, quotas, others, created, metadata>>

handleRequest(s) ==
    \/ GetShoot(s) \/ GetConfigMap(s) \/ ListQuotas(s) \/ GetShootState(s)
    \/ CreateOrUpdate(s) \/ Create(s) \/ Update(s) \/ Delete(s)

(* Reconcile around handleRequest, and the queue. *)
Start(s) ==
    /\ Admit(s)
    /\ pc' = [pc EXCEPT ![s] = "getShoot"]
    /\ UNCHANGED <<clusterVars, metadata, local>>

Outside(A) == A /\ UNCHANGED <<clusterVars, metadata, handler>>

Finish(s) == Outside(Reject(s) \/ Decrease(s) \/ Done(s))

(* The caches of a new process start from a fresh list of every kind. *)
ProcessRestarts ==
    /\ Fault
    /\ shoots' = [s \in Shoots |-> <<shoot(s)>>]
    /\ shootStates' = [s \in Shoots |-> <<shootState(s)>>]
    /\ configMaps' = [s \in Shoots |-> <<configMap(s)>>]
    /\ quotas' = <<quota>>
    /\ IF MetadataLags /\ quota # Absent
       THEN mShoots' = StoredShoots /\ mConfigMaps' = StoredConfigMaps
       ELSE mShoots' = Absent /\ mConfigMaps' = Absent
    /\ pc' = [s \in Shoots |-> "none"]
    /\ local' = [s \in Shoots |-> NoLocal]
    /\ current' = {}
    /\ Restart({s \in Shoots : \/ shoot(s) # Absent \/ shootState(s) # Absent
                               \/ HasOwner(configMap(s))})
    /\ UNCHANGED <<others, created>>

-----------------------------------------------------------------------------
Init ==
    /\ ClusterInit
    /\ LoopInit
    /\ mShoots = Absent /\ mConfigMaps = Absent
    /\ pc = [s \in Shoots |-> "none"]
    /\ local = [s \in Shoots |-> NoLocal]

World(A) == A /\ UNCHANGED <<loopVars, metadata, handler>>

Next ==
    \/ World(Environment) \/ World(Housekeeping) \/ Deliver
    \/ ProcessRestarts
    \/ \E s \in Shoots :
        \/ Start(s) \/ handleRequest(s) \/ CallFails(s) \/ Finish(s)
        \/ Outside(Take(s)) \/ Outside(TimerFires(s))

Spec == Init /\ [][Next]_vars

(***************************************************************************)
(* Each informer delivers what it is behind with, the garbage collector    *)
(* and the quota controller do their work, a worker that started goes on,  *)
(* timers fire, and the queue is first in first out.  Changes and faults   *)
(* are never forced.                                                       *)
(***************************************************************************)
Fairness ==
    /\ WF_vars(DeliverQuota) /\ WF_vars(DeliverMetadata)
    /\ WF_vars(World(SyncQuota /\ UNCHANGED budget))
    /\ \A s \in Shoots :
        /\ WF_vars(DeliverShoot(s))
        /\ WF_vars(DeliverShootState(s))
        /\ WF_vars(DeliverConfigMap(s))
        /\ WF_vars(World(CollectGarbage(s) /\ UNCHANGED budget))
        /\ WF_vars(Start(s) \/ handleRequest(s) \/ Finish(s))
        /\ SF_vars(Outside(Take(s)))
        /\ WF_vars(Outside(TimerFires(s)))

FairSpec == Spec /\ Fairness

-----------------------------------------------------------------------------
Log(S) == Seq(S) \ {<< >>}

Calls == {"none", "getShoot", "getConfigMap", "listQuotas", "getShootState",
          "createOrUpdate", "create", "update", "delete"}

CacheTypeOK ==
    /\ shoots \in [Shoots -> Log(ShootObjects \cup {Absent})]
    /\ shootStates \in [Shoots -> Log(CaStates \cup {Absent})]
    /\ configMaps \in [Shoots -> Log(ConfigMapObjects \cup {Absent})]
    /\ quotas \in Log(QuotaObjects \cup {Absent})
    /\ others \in Nat /\ created \in [Shoots -> Nat] /\ current \subseteq Shoots
    /\ budget \in Scenario
    /\ {mShoots, mConfigMaps} \subseteq {Absent} \cup SUBSET Shoots

(* A handling that renders holds a Shoot with addresses and a valid CA. *)
HandlerTypeOK ==
    /\ pc \in [Shoots -> Calls]
    /\ local \in [Shoots -> [shoot : ShootObjects \cup {Absent}, found : BOOLEAN,
                             desired : ConfigMapObjects \cup {Absent}]]
    /\ \A s \in Shoots :
        /\ pc[s] # "none" <=> phase[s] = "handling"
        /\ pc[s] = "none" => local[s] = NoLocal
        /\ pc[s] \in {"getConfigMap", "listQuotas", "getShootState"}
                => local[s].shoot # Absent
        /\ pc[s] \in {"createOrUpdate", "create", "update"}
                => local[s].desired # Absent

TypeOK == LoopTypeOK /\ CacheTypeOK /\ HandlerTypeOK

(***************************************************************************)
(* What the controller is for.  A shoot that is gone, or has lost its      *)
(* ShootState, has no kubeconfig; a shoot that can be rendered, and has a  *)
(* configMap or room for one, has exactly the kubeconfig of its uid, its   *)
(* addresses, its CA and its version.                                      *)
(***************************************************************************)
CanRender(sh, ca) == sh # Absent /\ sh.addresses # NoAddresses /\ ca \in CaCerts
Renderable(s) == CanRender(shoot(s), shootState(s))

Goal(s) ==
    /\ shoot(s) = Absent \/ shootState(s) = Absent => configMap(s) = Absent
    /\ Renderable(s) /\ (configMap(s) # Absent \/ Room)
            => configMap(s) = Rendered(shoot(s), shootState(s))

(***************************************************************************)
(* Nothing that happens to a shoot which keeps its Shoot and ShootState -  *)
(* addresses that vanish, a CA that is missing, damaged or invalid, failed *)
(* calls, a restart - makes the controller delete its kubeconfig.  It says *)
(* so of the scenarios in which nobody else deletes a kubeconfig or a      *)
(* Shoot either.                                                           *)
(***************************************************************************)
KubeconfigKept ==
    budget.kinds \cap {"lifecycle", "edit", "remove"} = {} =>
        \A s \in StoredShoots : configMap(s) # Absent

(* Everybody else has finished: nothing to deliver, collect or count. *)
Quiet ==
    /\ \A s \in Shoots :
        /\ ~Behind(shoots[s]) /\ ~Behind(shootStates[s]) /\ ~Behind(configMaps[s])
        /\ ~Garbage(s)
    /\ ~Behind(quotas) /\ QuotaSynced

Resting(s, timers) == s \notin dirty /\ phase[s] = "idle" /\ timer[s] \in timers

(***************************************************************************)
(* The controller never comes to rest on a shoot before its goal is        *)
(* reached: whichever events were coalesced, delayed or filtered, and      *)
(* whichever calls failed meanwhile, with all caches up to date a shoot    *)
(* that is neither queued, nor running, nor on a timer is as it should be. *)
(***************************************************************************)
SettledIsGoal == Quiet => \A s \in Shoots : Resting(s, {"never"}) => Goal(s)

(***************************************************************************)
(* The same without the help of the long timers: nothing is left to the    *)
(* retry after 60 minutes or after QuotaExceededRetryDelay.  In particular *)
(* a shoot that waits for quota is woken by the event that makes room.     *)
(* Three kinds of change are not followed promptly: the predicates do not  *)
(* compare the version of a shoot and the owner of a configMap, and the    *)
(* repair of damaged CA data is filtered out (see CaIsFollowed).           *)
(***************************************************************************)
PromptlySettled ==
    Quiet /\ budget.kinds \cap {"upgrade", "damage", "disown"} = {} =>
        \A s \in Shoots : Resting(s, {"never", "later"}) => Goal(s)

(***************************************************************************)
(* Users lose access with their shoot: no kubeconfig is left of a shoot    *)
(* that is gone, or has lost its ShootState, once the controller rests,    *)
(* not even where the garbage collector would leave it because its owner   *)
(* reference was taken away.  Only a restart after that, with Shoot and    *)
(* ShootState both gone, finds no event that leads to the configMap.       *)
(***************************************************************************)
GoneIsGone ==
    Quiet => \A s \in Shoots :
        (shoot(s) = Absent \/ shootState(s) = Absent) /\ Resting(s, {"never", "later"})
            => configMap(s) = Absent

(***************************************************************************)
(* Once changes and faults are over, every shoot reaches its goal and      *)
(* stays there.                                                            *)
(***************************************************************************)
Converges == \A s \in Shoots : <>[]Goal(s)

(***************************************************************************)
(* The controller's own writes come back to it as events.  It does not     *)
(* keep itself busy with them: a shoot with the right kubeconfig is left   *)
(* alone in the end, with no retry pending.                                *)
(***************************************************************************)
ComesToRest ==
    \A s \in Shoots : <>[](Renderable(s) /\ configMap(s) # Absent => Resting(s, {"never"}))

-----------------------------------------------------------------------------
(* What the comments say of single events. *)

(***************************************************************************)
(* shootStatePredicate "returns true for update events in case the cluster *)
(* ca changes": the kubeconfig of a shoot at rest has the CA of the shoot. *)
(***************************************************************************)
CaIsFollowed ==
    Quiet => \A s \in Shoots :
        Renderable(s) /\ HasOwner(configMap(s)) /\ Resting(s, {"never"})
            => configMap(s).data.ca = shootState(s)

(***************************************************************************)
(* QuotaExceededRetryDelay: when configMap quota is freed a reconciliation *)
(* is requested for all shoots without a kubeconfig configMap, so none of  *)
(* them sits out the 24 hours while there is room.                         *)
(***************************************************************************)
WaitsOnlyForQuota ==
    Quiet => \A s \in Shoots :
        Renderable(s) /\ configMap(s) = Absent /\ Resting(s, {"later"}) => ~Room
=============================================================================
