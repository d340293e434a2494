---------------------- MODULE ShootControllerProofs -----------------------
(***************************************************************************)
(* What is proved of the controller, for any shoots, namespaces, limits,   *)
(* scenarios and numbers of faults. First that it runs the loop of         *)
(* ReconcileLoop, so that the theorems about the loop hold of the real     *)
(* controller; then its types, and from them the four promises of          *)
(* ShootController: a shoot in trouble keeps its kubeconfig, access ends   *)
(* with the shoot, and the controller rests on a shoot only at its goal,   *)
(* promptly or with the help of its long timers. The last three reason     *)
(* about what the informers have not delivered yet: a log is the set of    *)
(* its versions (Entries) and of its changes (Steps), and each invariant   *)
(* says who still takes care of a shoot on which something has changed.    *)
(***************************************************************************)
EXTENDS ShootController, ReconcileLoopProofs, SequenceTheorems

-----------------------------------------------------------------------------
(***************************************************************************)
(* The composed controller runs the loop of ReconcileLoop: whatever the    *)
(* handler, the caches and the garden cluster do, the variables of the     *)
(* loop change as LoopSpec allows.                                         *)
(***************************************************************************)

(***************************************************************************)
(* A quota event leads to requests for shoots only, whatever the metadata  *)
(* informers have listed.                                                  *)
(***************************************************************************)
ListsShoots == mShoots # Absent => mShoots \subseteq Shoots

(* The requests of a quota event are keys of the queue. *)
LEMMA QuotaRequestsAreRequests ==
    ASSUME ListsShoots
    PROVE  /\ ListedShoots \subseteq Shoots
           /\ QuotaRequests \in SUBSET Requests
<1>1. ListedShoots \subseteq Shoots
    BY DEF ListsShoots, ListedShoots, StoredShoots
<1>2. QED
    BY <1>1, ControllerAssumption DEF QuotaRequests

(* Every call of handleRequest goes on or returns with a delay. *)
LEMMA HandlerStep ==
    ASSUME NEW s \in Shoots, handleRequest(s) \/ CallFails(s)
    PROVE  UNCHANGED loopVars \/ \E d \in Delay : Handle(s, d)
<1> USE DEF Goto, Return, Delay
<1>1. CASE GetShoot(s)
    BY <1>1 DEF GetShoot
<1>2. CASE GetConfigMap(s)
    BY <1>2 DEF GetConfigMap
<1>3. CASE ListQuotas(s)
    BY <1>3 DEF ListQuotas
<1>4. CASE GetShootState(s)
    BY <1>4 DEF GetShootState
<1>5. CASE CreateOrUpdate(s)
    BY <1>5 DEF CreateOrUpdate, Reconciled
<1>6. CASE Create(s)
    BY <1>6 DEF Create, Answer, Refused, Reconciled
<1>7. CASE Update(s)
    BY <1>7 DEF Update, Answer, Refused, Reconciled
<1>8. CASE Delete(s)
    BY <1>8 DEF Delete, Answer, Reconciled
<1>9. CASE CallFails(s)
    BY <1>9 DEF CallFails
<1>10. QED
    BY <1>1, <1>2, <1>3, <1>4, <1>5, <1>6, <1>7, <1>8, <1>9 DEF handleRequest

(* An informer that delivers enqueues some requests or none. *)
LEMMA DeliverStep ==
    ASSUME ListsShoots, Deliver
    PROVE  UNCHANGED loopVars \/ \E S \in SUBSET Requests : Enqueue(S)
<1> USE ControllerAssumption DEF Notify
<1>1. ASSUME NEW s \in Shoots, DeliverShoot(s)
      PROVE  UNCHANGED loopVars \/ \E S \in SUBSET Requests : Enqueue(S)
  <2>1. UNCHANGED loopVars \/ Enqueue({s})
    BY <1>1 DEF DeliverShoot
  <2>2. QED
    BY <2>1
<1>2. ASSUME NEW s \in Shoots, DeliverShootState(s)
      PROVE  UNCHANGED loopVars \/ \E S \in SUBSET Requests : Enqueue(S)
  <2>1. UNCHANGED loopVars \/ Enqueue({s})
    BY <1>2 DEF DeliverShootState
  <2>2. QED
    BY <2>1
<1>3. ASSUME NEW s \in Shoots, DeliverConfigMap(s)
      PROVE  UNCHANGED loopVars \/ \E S \in SUBSET Requests : Enqueue(S)
  <2>1. UNCHANGED loopVars \/ Enqueue({s})
    BY <1>3 DEF DeliverConfigMap
  <2>2. QED
    BY <2>1
<1>4. CASE DeliverQuota
  <2>1. UNCHANGED loopVars \/ Enqueue(QuotaRequests)
    BY <1>4 DEF DeliverQuota
  <2>2. QED
    BY <2>1, QuotaRequestsAreRequests
<1>5. CASE LoseQuotaEvent \/ DeliverMetadata
    BY <1>5 DEF LoseQuotaEvent, DeliverMetadata
<1>6. QED
    BY <1>1, <1>2, <1>3, <1>4, <1>5 DEF Deliver

(* Every step of the controller is a step of its loop or leaves it alone. *)
LEMMA ControllerStep ==
    ASSUME ListsShoots, [Next]_vars
    PROVE  [LoopNext]_loopVars
<1> USE ControllerAssumption
<1>1. CASE World(Environment) \/ World(Housekeeping)
    BY <1>1 DEF World
<1>2. CASE Deliver
    BY <1>2, DeliverStep DEF LoopNext
<1>3. CASE ProcessRestarts
    BY <1>3 DEF ProcessRestarts, LoopNext
<1>4. ASSUME NEW s \in Shoots,
             \/ Start(s) \/ handleRequest(s) \/ CallFails(s) \/ Finish(s)
             \/ Outside(Take(s)) \/ Outside(TimerFires(s))
      PROVE  [LoopNext]_loopVars
  <2>1. CASE handleRequest(s) \/ CallFails(s)
    BY <2>1, HandlerStep DEF LoopNext
  <2>2. CASE Start(s) \/ Finish(s) \/ Outside(Take(s)) \/ Outside(TimerFires(s))
    BY <2>2 DEF Start, Finish, Outside, LoopNext, WorkerStep
  <2>3. QED
    BY <1>4, <2>1, <2>2
<1>5. CASE UNCHANGED vars
    BY <1>5 DEF vars
<1>6. QED
    BY <1>1, <1>2, <1>3, <1>4, <1>5 DEF Next

(* The metadata informers never list anything but shoots. *)
LEMMA ListsShootsStep ==
    ASSUME ListsShoots, [Next]_vars
    PROVE  ListsShoots'
<1>1. CASE UNCHANGED mShoots
    BY <1>1 DEF ListsShoots
<1>2. CASE DeliverQuota \/ LoseQuotaEvent
    BY <1>2, QuotaRequestsAreRequests DEF DeliverQuota, LoseQuotaEvent, ListsShoots, metadata
<1>3. CASE DeliverMetadata \/ ProcessRestarts
    BY <1>3 DEF DeliverMetadata, ProcessRestarts, ListsShoots, StoredShoots
<1>4. CASE UNCHANGED metadata
    BY <1>1, <1>4 DEF metadata
<1>5. CASE \E s \in Shoots : DeliverShoot(s) \/ DeliverShootState(s) \/ DeliverConfigMap(s)
    BY <1>4, <1>5 DEF DeliverShoot, DeliverShootState, DeliverConfigMap
<1>6. CASE \E s \in Shoots : handleRequest(s)
    BY <1>4, <1>6 DEF handleRequest, GetShoot, GetConfigMap, ListQuotas, GetShootState,
                      CreateOrUpdate, Create, Update, Delete
<1>7. CASE \E s \in Shoots : \/ Start(s) \/ CallFails(s) \/ Finish(s)
                             \/ Outside(Take(s)) \/ Outside(TimerFires(s))
    BY <1>4, <1>7 DEF Start, CallFails, Finish, Outside
<1>8. CASE World(Environment) \/ World(Housekeeping)
    BY <1>4, <1>8 DEF World
<1>9. QED
    BY <1>2, <1>3, <1>4, <1>5, <1>6, <1>7, <1>8 DEF Next, Deliver, vars

(***************************************************************************)
(* The controller with its handler, its caches and the cluster around it   *)
(* runs the loop as ReconcileLoop describes it, for any shoots, scenarios  *)
(* and limits.                                                             *)
(***************************************************************************)
THEOREM ControllerRunsLoop == Spec => LoopSpec
<1>1. Init => LoopInit /\ ListsShoots
    BY DEF Init, ListsShoots
<1>2. ListsShoots /\ [Next]_vars => [LoopNext]_loopVars
    BY ControllerStep
<1>3. ListsShoots /\ [Next]_vars => ListsShoots'
    BY ListsShootsStep
<1>4. QED
    BY <1>1, <1>2, <1>3, PTL DEF Spec, LoopSpec

(***************************************************************************)
(* So the limits of the configuration hold of the real controller: never   *)
(* more than MaxConcurrentReconcilesPerNamespace handlers of a namespace   *)
(* are between their first and their last call, and a request is sent away *)
(* only by a namespace whose slots are all in use.                         *)
(***************************************************************************)
THEOREM ControllerKeepsSlots == Spec => []LimitsHold /\ ImplementsSlots
BY ControllerRunsLoop, LimitsAreHeld, SlotsAreImplemented, PTL

-----------------------------------------------------------------------------
(* Logs: what the API server has stored and an informer has yet to deliver. *)

(* The versions of a log. *)
Entries(log) == {log[i] : i \in 1..Len(log)}

(***************************************************************************)
(* What is known and what is stored are versions of the log, the first and *)
(* the last.                                                               *)
(***************************************************************************)
LEMMA LogIsNonempty ==
    ASSUME NEW S, NEW log \in Log(S)
    PROVE  /\ log \in Seq(S) /\ Len(log) \in Nat \ {0}
           /\ Known(log) = log[1] /\ Known(log) \in Entries(log) /\ Stored(log) \in Entries(log)
           /\ Entries(log) \subseteq S
<1>1. log \in Seq(S) /\ Len(log) \in Nat \ {0}
    BY EmptySeq, LenProperties DEF Log
<1>2. 1 \in 1..Len(log) /\ Len(log) \in 1..Len(log)
    BY <1>1
<1>3. Known(log) = log[1]
    BY <1>1 DEF Known
<1>4. QED
    BY <1>1, <1>2, <1>3, ElementOfSeq DEF Stored, Entries

(* A write adds a version at the end of the log; what is known stays. *)
LEMMA LogGrows ==
    ASSUME NEW S, NEW log \in Log(S), NEW v \in S
    PROVE  /\ Append(log, v) \in Log(S)
           /\ Len(Append(log, v)) = Len(log) + 1
           /\ \A i \in 1..Len(log) : Append(log, v)[i] = log[i]
           /\ Known(Append(log, v)) = Known(log)
           /\ Stored(Append(log, v)) = v
           /\ Entries(Append(log, v)) = Entries(log) \cup {v}
<1>1. log \in Seq(S) /\ Len(log) \in Nat \ {0} /\ Known(log) = log[1]
    BY LogIsNonempty
<1>2. /\ Append(log, v) \in Log(S)
      /\ Len(Append(log, v)) = Len(log) + 1
      /\ \A i \in 1..Len(log) : Append(log, v)[i] = log[i]
      /\ Append(log, v)[Len(log) + 1] = v
    BY <1>1, AppendProperties DEF Log
<1>3. Known(Append(log, v)) = Known(log) /\ Stored(Append(log, v)) = v
  <2>1. Known(Append(log, v)) = Append(log, v)[1] /\ 1 \in 1..Len(log)
    BY <1>1, <1>2, HeadTailAppend DEF Known, Log
  <2>2. QED
    BY <1>1, <1>2, <2>1 DEF Stored
<1>4. Entries(Append(log, v)) = Entries(log) \cup {v}
    BY <1>1, <1>2 DEF Entries
<1>5. QED
    BY <1>2, <1>3, <1>4

(* A delivery drops the first version; what is stored stays. *)
LEMMA LogAdvances ==
    ASSUME NEW S, NEW log \in Log(S), Behind(log)
    PROVE  /\ Tail(log) \in Log(S)
           /\ Len(Tail(log)) = Len(log) - 1
           /\ \A i \in 1..Len(log) - 1 : Tail(log)[i] = log[i + 1]
           /\ Known(Tail(log)) = log[2]
           /\ Stored(Tail(log)) = Stored(log)
           /\ Entries(log) = Entries(Tail(log)) \cup {Known(log)}
<1>1. log \in Seq(S) /\ Len(log) \in Nat \ {0} /\ log # << >> /\ Len(log) > 1
    BY LogIsNonempty DEF Log, Behind
<1>2. /\ Tail(log) \in Seq(S)
      /\ Len(Tail(log)) = Len(log) - 1
      /\ \A i \in 1..Len(log) - 1 : Tail(log)[i] = log[i + 1]
    BY <1>1, HeadTailProperties
<1>3. Tail(log) \in Log(S)
  <2>1. Tail(log) # << >>
    BY <1>1, <1>2
  <2>2. QED
    BY <1>2, <2>1 DEF Log
<1>4. Known(Tail(log)) = log[2] /\ Stored(Tail(log)) = Stored(log)
  <2>1. 1 \in 1..Len(log) - 1 /\ Len(log) - 1 \in 1..Len(log) - 1
    BY <1>1
  <2>2. Head(Tail(log)) = Tail(log)[1]
    BY <1>1, <1>2
  <2>3. QED
    BY <1>1, <1>2, <2>1, <2>2 DEF Stored, Known
<1>5. Entries(log) = Entries(Tail(log)) \cup {Known(log)}
  <2>1. Known(log) = log[1] /\ Known(log) \in Entries(log)
    BY LogIsNonempty
  <2>2. ASSUME NEW i \in 1..Len(log) PROVE log[i] \in Entries(Tail(log)) \cup {Known(log)}
    <3>1. CASE i = 1
      BY <2>1, <3>1
    <3>2. CASE i # 1
      <4>1. i - 1 \in 1..Len(Tail(log)) /\ log[i] = Tail(log)[i - 1]
        BY <1>1, <1>2, <3>2
      <4>2. QED
        BY <4>1 DEF Entries
    <3>3. QED
      BY <3>1, <3>2
  <2>3. ASSUME NEW i \in 1..Len(Tail(log)) PROVE Tail(log)[i] \in Entries(log)
    <3>1. i + 1 \in 1..Len(log) /\ Tail(log)[i] = log[i + 1]
      BY <1>1, <1>2
    <3>2. QED
      BY <3>1 DEF Entries
  <2>4. QED
    BY <2>1, <2>2, <2>3 DEF Entries
<1>6. QED
    BY <1>2, <1>3, <1>4, <1>5

(* A log of one version knows what is stored. *)
LEMMA LogStarts ==
    ASSUME NEW S, NEW v \in S
    PROVE  /\ <<v>> \in Log(S)
           /\ Len(<<v>>) = 1
           /\ Known(<<v>>) = v /\ Stored(<<v>>) = v
           /\ Entries(<<v>>) = {v}
<1>1. <<v>> \in Seq(S) /\ <<v>> # << >> /\ Len(<<v>>) = 1 /\ <<v>>[1] = v
    OBVIOUS
<1>2. QED
    BY <1>1 DEF Log, Known, Stored, Entries

(* The changes a log still has to report: one version and the next. *)
Steps(log) == {<<log[i], log[i + 1]>> : i \in 1..Len(log) - 1}

(* A write adds the change from what was stored to the version written. *)
LEMMA StepsGrow ==
    ASSUME NEW S, NEW log \in Log(S), NEW v \in S
    PROVE  Steps(Append(log, v)) = Steps(log) \cup {<<Stored(log), v>>}
<1>1. /\ Len(log) \in Nat \ {0} /\ Len(Append(log, v)) = Len(log) + 1
      /\ \A i \in 1..Len(log) : Append(log, v)[i] = log[i]
      /\ Append(log, v)[Len(log) + 1] = v
    BY LogIsNonempty, LogGrows DEF Stored
<1>2. \A i \in 1..Len(log) - 1 : i \in 1..Len(log) /\ i + 1 \in 1..Len(log)
    BY <1>1
<1>3. 1..Len(Append(log, v)) - 1 = (1..Len(log) - 1) \cup {Len(log)} /\ Len(log) \in 1..Len(log)
    BY <1>1
<1>4. \A i \in 1..Len(log) - 1 :
        <<Append(log, v)[i], Append(log, v)[i + 1]>> = <<log[i], log[i + 1]>>
    BY <1>1, <1>2
<1>5. <<Append(log, v)[Len(log)], Append(log, v)[Len(log) + 1]>> = <<Stored(log), v>>
    BY <1>1, <1>3 DEF Stored
<1>6. QED
    BY <1>3, <1>4, <1>5 DEF Steps

(* A delivery reports the first change and leaves the others. *)
LEMMA StepsAdvance ==
    ASSUME NEW S, NEW log \in Log(S), Behind(log)
    PROVE  /\ <<Known(log), Known(Tail(log))>> \in Steps(log)
           /\ Steps(Tail(log)) \subseteq Steps(log)
<1>1. /\ Len(log) \in Nat \ {0} /\ Len(log) > 1 /\ Known(log) = log[1]
      /\ Known(Tail(log)) = log[2] /\ Len(Tail(log)) = Len(log) - 1
      /\ \A i \in 1..Len(log) - 1 : Tail(log)[i] = log[i + 1]
    BY LogIsNonempty, LogAdvances DEF Behind
<1>2. 1 \in 1..Len(log) - 1
    BY <1>1
<1>3. ASSUME NEW i \in 1..Len(Tail(log)) - 1
      PROVE  <<Tail(log)[i], Tail(log)[i + 1]>> \in Steps(log)
  <2>1. /\ i \in 1..Len(log) - 1 /\ i + 1 \in 1..Len(log) - 1
        /\ Tail(log)[i] = log[i + 1] /\ Tail(log)[i + 1] = log[(i + 1) + 1]
    BY <1>1
  <2>2. QED
    BY <2>1 DEF Steps
<1>4. QED
    BY <1>1, <1>2, <1>3 DEF Steps

(* A log of one version has no change to report. *)
LEMMA StepsStart == \A v : Steps(<<v>>) = {}
BY DEF Steps

-----------------------------------------------------------------------------
(***************************************************************************)
(* What the garden cluster does on its own, in terms of the versions it    *)
(* stores.                                                                 *)
(***************************************************************************)

(***************************************************************************)
(* What the API server may hold of a Shoot, a ShootState, a configMap and  *)
(* the quota.                                                              *)
(***************************************************************************)
ShootVersions == ShootObjects \cup {Absent}
StateVersions == CaStates \cup {Absent}
ConfigMapVersions == ConfigMapObjects \cup {Absent}
QuotaVersions == QuotaObjects \cup {Absent}

(***************************************************************************)
(* Faults are only ever used up, and the kinds of change of a scenario     *)
(* stay.                                                                   *)
(***************************************************************************)
Spends ==
    /\ budget' \in Scenario /\ budget'.kinds = budget.kinds
    /\ budget'.faults <= budget.faults

(* The Shoot of s gets version v. *)
ShootChanges(s, v) ==
    /\ WriteShoot(s, v) /\ v \in ShootVersions
    /\ created' \in [Shoots -> Nat]
    /\ \/ /\ shoot(s) # Absent
          /\ UNCHANGED created
          /\ \/ v = Absent /\ "lifecycle" \in budget.kinds
             \/ /\ v # Absent /\ v.uid = shoot(s).uid
                /\ \/ "upgrade" \in budget.kinds
                   \/ v.addresses # shoot(s).addresses /\ v.legacy = shoot(s).legacy
       \/ /\ shoot(s) = Absent /\ v # Absent /\ v.uid # NoOwner
          /\ "lifecycle" \in budget.kinds

(* The ShootState of s gets version v, another one than before. *)
StateChanges(s, v) ==
    /\ WriteShootState(s, v) /\ v \in StateVersions
    /\ v # shootState(s)
    /\ v = Absent => "lifecycle" \in budget.kinds
    /\ v = Unparsable => "damage" \in budget.kinds

(***************************************************************************)
(* Somebody else than the controller writes version v of the configMap of  *)
(* s: the garbage collector or an operator, who leave its owner alone or   *)
(* take it away.                                                           *)
(***************************************************************************)
ConfigMapChanges(s, v) ==
    /\ StoreConfigMap(s, v) /\ v \in ConfigMapVersions
    /\ UNCHANGED <<shoots, shootStates, quotas, others, created>>
    /\ configMap(s) # Absent
    /\ \/ v = Absent /\ (Garbage(s) \/ "remove" \in budget.kinds)
       \/ /\ v # Absent
          /\ \/ v.owner = configMap(s).owner /\ "edit" \in budget.kinds
             \/ v.owner = NoOwner /\ "disown" \in budget.kinds

(***************************************************************************)
(* The quota or the number of other configMaps changes, no object of a     *)
(* shoot.                                                                  *)
(***************************************************************************)
QuotaChanges ==
    /\ UNCHANGED quotas \/ \E q \in QuotaVersions : quotas' = Append(quotas, q)
    /\ others' \in Nat
    /\ UNCHANGED <<shoots, shootStates, configMaps, created, current>>

(* A change of the quota is one more version of it, not yet known. *)
LEMMA QuotaLogGrows ==
    ASSUME quotas \in Log(QuotaVersions),
           UNCHANGED quotas \/ \E q \in QuotaVersions : quotas' = Append(quotas, q)
    PROVE  quotas' \in Log(QuotaVersions) /\ Known(quotas') = Known(quotas)
<1>1. ASSUME NEW q \in QuotaVersions, quotas' = Append(quotas, q)
      PROVE  quotas' \in Log(QuotaVersions) /\ Known(quotas') = Known(quotas)
    BY <1>1, LogGrows
<1>2. QED
    BY <1>1

(* The configMaps of the namespace can be counted. *)
LEMMA Countable == CacheTypeOK => ConfigMapCount \in Nat
<1> SUFFICES ASSUME CacheTypeOK PROVE ConfigMapCount \in Nat
    OBVIOUS
<1>1. IsFiniteSet({s \in Shoots : configMap(s) # Absent})
    BY LoopAssumption, ControllerAssumption, FS_Subset
<1>2. QED
    BY <1>1, FS_CardinalityType DEF ConfigMapCount, CacheTypeOK

(* The amounts the quota controller writes are amounts. *)
LEMMA AmountsAreAmounts ==
    /\ \A n \in Nat : Amount(n) \in Amounts
    /\ \A h \in Amounts, u \in Amounts : QuotaObject(h, u) \in QuotaObjects
    /\ << >> \in Amounts
BY DEF Amount, Amounts, QuotaObject, QuotaObjects

(* What is stored and what is cached of a shoot are versions of its logs. *)
LEMMA CurrentVersions ==
    ASSUME CacheTypeOK, NEW s \in Shoots
    PROVE  /\ shoot(s) \in ShootVersions /\ shoot(s) \in Entries(shoots[s])
           /\ shootState(s) \in StateVersions /\ shootState(s) \in Entries(shootStates[s])
           /\ configMap(s) \in ConfigMapVersions /\ configMap(s) \in Entries(configMaps[s])
           /\ cShoot(s) \in ShootVersions /\ cShoot(s) \in Entries(shoots[s])
           /\ cShootState(s) \in StateVersions /\ cShootState(s) \in Entries(shootStates[s])
           /\ cConfigMap(s) \in ConfigMapVersions /\ cConfigMap(s) \in Entries(configMaps[s])
<1>1. /\ shoots[s] \in Log(ShootVersions)
      /\ shootStates[s] \in Log(StateVersions)
      /\ configMaps[s] \in Log(ConfigMapVersions)
    BY DEF CacheTypeOK, ShootVersions, StateVersions, ConfigMapVersions
<1>2. QED
    BY <1>1, LogIsNonempty DEF shoot, shootState, configMap, cShoot, cShootState, cConfigMap

(* What is stored and what is cached of the quota are quotas. *)
LEMMA CurrentQuota ==
    ASSUME CacheTypeOK
    PROVE  quota \in QuotaVersions /\ cQuota \in QuotaVersions
BY LogIsNonempty DEF CacheTypeOK, QuotaVersions, quota, cQuota

(* Admission charges one more configMap to the quota, if there is one. *)
LEMMA ChargeIsTyped ==
    ASSUME CacheTypeOK, Room, ChargeQuota
    PROVE  UNCHANGED quotas \/ \E q \in QuotaVersions : quotas' = Append(quotas, q)
<1>1. CASE quota = Absent
    BY <1>1 DEF ChargeQuota
<1>2. CASE quota # Absent
  <2>1. quota \in QuotaObjects
    BY <1>2, CurrentQuota DEF QuotaVersions
  <2>2. CountConfigMaps \in DOMAIN quota.used
    BY <1>2, <2>1 DEF Room, Verdict, QuotaObjects
  <2>3. quota.hard \in Amounts /\ quota.used[CountConfigMaps] + 1 \in Nat
    BY <2>1, <2>2 DEF QuotaObjects, Amounts
  <2>4. QED
    BY <1>2, <2>3, AmountsAreAmounts DEF ChargeQuota, QuotaVersions
<1>3. QED
    BY <1>1, <1>2

(* A change of the environment is of a kind of the scenario. *)
LEMMA ChangeSpends ==
    ASSUME budget \in Scenario, NEW kind, Change(kind)
    PROVE  Spends /\ kind \in budget.kinds
BY DEF Change, Scenario, Spends

(* All the environment does is to add one version to one log. *)
EnvironmentEffect ==
    /\ Spends
    /\ \/ \E s \in Shoots, v \in ShootVersions : ShootChanges(s, v)
       \/ \E s \in Shoots, v \in StateVersions : StateChanges(s, v)
       \/ \E s \in Shoots, v \in ConfigMapVersions : ConfigMapChanges(s, v)
       \/ QuotaChanges

(* Users and operators add a version of a Shoot. *)
LEMMA ShootsChange ==
    ASSUME CacheTypeOK, NEW s \in Shoots,
           CreateShoot(s) \/ DeleteShoot(s) \/ SetAddresses(s) \/ UpgradeKubernetes(s)
    PROVE  Spends /\ \E v \in ShootVersions : ShootChanges(s, v)
<1>1. /\ budget \in Scenario /\ created \in [Shoots -> Nat]
      /\ shoot(s) # Absent => shoot(s) \in ShootObjects
    BY CurrentVersions DEF CacheTypeOK, ShootVersions
<1>2. CASE CreateShoot(s)
  <2>1. PICK a \in Addresses \cup {NoAddresses} :
          WriteShoot(s, [uid |-> created'[s], addresses |-> a, legacy |-> FALSE])
    BY <1>2 DEF CreateShoot
  <2> DEFINE v == [uid |-> created'[s], addresses |-> a, legacy |-> FALSE]
  <2>2. created' \in [Shoots -> Nat] /\ created'[s] \in Nat /\ created'[s] # NoOwner
    BY <1>1, <1>2 DEF CreateShoot, NoOwner
  <2>3. v \in ShootObjects /\ v # Absent /\ v.uid # NoOwner
    <3>1. v \in ShootObjects
      BY <2>2 DEF ShootObjects
    <3>2. v.uid # NoOwner
      BY <2>2
    <3>3. QED
      BY <3>1, <3>2, ObjectAssumption
  <2>4. Spends /\ "lifecycle" \in budget.kinds /\ shoot(s) = Absent
    BY <1>1, <1>2, ChangeSpends DEF CreateShoot
  <2>5. ShootChanges(s, v)
    BY <2>1, <2>2, <2>3, <2>4 DEF ShootChanges, ShootVersions
  <2>6. QED
    BY <2>3, <2>4, <2>5 DEF ShootVersions
<1>3. CASE DeleteShoot(s)
    BY <1>1, <1>3, ChangeSpends DEF DeleteShoot, ShootChanges, ShootVersions
<1>4. CASE SetAddresses(s)
  <2>1. PICK a \in (Addresses \cup {NoAddresses}) \ {shoot(s).addresses} :
          WriteShoot(s, [shoot(s) EXCEPT !.addresses = a])
    BY <1>4 DEF SetAddresses
  <2> DEFINE v == [shoot(s) EXCEPT !.addresses = a]
  <2>2. shoot(s) # Absent /\ shoot(s) \in ShootObjects /\ UNCHANGED created /\ Spends
    BY <1>1, <1>4, ChangeSpends DEF SetAddresses
  <2>3. /\ v \in ShootObjects /\ v # Absent
        /\ v.uid = shoot(s).uid /\ v.legacy = shoot(s).legacy
        /\ v.addresses # shoot(s).addresses
    BY <2>2, ObjectAssumption DEF ShootObjects
  <2>4. ShootChanges(s, v)
    BY <1>1, <2>1, <2>2, <2>3 DEF ShootChanges, ShootVersions
  <2>5. QED
    BY <2>2, <2>3, <2>4 DEF ShootVersions
<1>5. CASE UpgradeKubernetes(s)
  <2> DEFINE v == [shoot(s) EXCEPT !.legacy = FALSE]
  <2>2. /\ shoot(s) # Absent /\ shoot(s) \in ShootObjects /\ UNCHANGED created /\ Spends
        /\ "upgrade" \in budget.kinds
    BY <1>1, <1>5, ChangeSpends DEF UpgradeKubernetes
  <2>3. v \in ShootObjects /\ v # Absent /\ v.uid = shoot(s).uid
    BY <2>2, ObjectAssumption DEF ShootObjects
  <2>4. ShootChanges(s, v)
    BY <1>1, <1>5, <2>2, <2>3 DEF UpgradeKubernetes, ShootChanges, ShootVersions
  <2>5. QED
    BY <2>2, <2>3, <2>4 DEF ShootVersions
<1>6. QED
    BY <1>2, <1>3, <1>4, <1>5

(* Gardener adds a version of a ShootState. *)
LEMMA StatesChange ==
    ASSUME CacheTypeOK, NEW s \in Shoots,
           CreateShootState(s) \/ DeleteShootState(s) \/ RotateCa(s) \/ DamageCa(s)
    PROVE  Spends /\ \E v \in StateVersions : StateChanges(s, v)
<1>1. budget \in Scenario /\ shootState(s) \in StateVersions
    BY CurrentVersions DEF CacheTypeOK
<1>2. /\ Unparsable \notin CaCerts \cup {NotProvisioned, Invalid}
      /\ CaCerts \cup {NotProvisioned, Invalid, Unparsable} = CaStates
      /\ Absent \notin CaStates
    BY ObjectAssumption DEF CaStates, NotProvisioned, Unparsable, Invalid
<1>3. CASE CreateShootState(s)
  <2>1. PICK ca \in CaCerts \cup {NotProvisioned} : WriteShootState(s, ca)
    BY <1>3 DEF CreateShootState
  <2>2. StateChanges(s, ca) /\ Spends
    BY <1>1, <1>2, <1>3, <2>1, ChangeSpends
       DEF CreateShootState, StateChanges, StateVersions
  <2>3. QED
    BY <1>2, <2>1, <2>2 DEF StateVersions
<1>4. CASE DeleteShootState(s)
    BY <1>1, <1>2, <1>4, ChangeSpends
       DEF DeleteShootState, StateChanges, StateVersions, CaStates
<1>5. CASE RotateCa(s)
  <2>1. PICK ca \in (CaCerts \cup {NotProvisioned, Invalid}) \ {shootState(s)} :
          WriteShootState(s, ca)
    BY <1>5 DEF RotateCa
  <2>2. StateChanges(s, ca) /\ Spends
    BY <1>1, <1>2, <1>5, <2>1, ChangeSpends DEF RotateCa, StateChanges, StateVersions
  <2>3. QED
    BY <1>2, <2>1, <2>2 DEF StateVersions
<1>6. CASE DamageCa(s)
    BY <1>1, <1>2, <1>6, ChangeSpends DEF DamageCa, StateChanges, StateVersions
<1>7. QED
    BY <1>3, <1>4, <1>5, <1>6

(* Operators and the garbage collector add a version of a configMap. *)
LEMMA ConfigMapsChange ==
    ASSUME CacheTypeOK, NEW s \in Shoots,
           \/ EditConfigMap(s) \/ DisownConfigMap(s) \/ RemoveConfigMap(s)
           \/ CollectGarbage(s) /\ UNCHANGED budget
    PROVE  Spends /\ \E v \in ConfigMapVersions : ConfigMapChanges(s, v)
<1>1. budget \in Scenario /\ (configMap(s) # Absent => configMap(s) \in ConfigMapObjects)
    BY CurrentVersions DEF CacheTypeOK, ConfigMapVersions
<1>2. ASSUME configMap(s) # Absent, NEW v \in ConfigMapObjects, ApiUpdate(s, v),
             \/ v.owner = configMap(s).owner /\ "edit" \in budget.kinds
             \/ v.owner = NoOwner /\ "disown" \in budget.kinds
      PROVE  \E w \in ConfigMapVersions : ConfigMapChanges(s, w)
    BY <1>2, ObjectAssumption DEF ApiUpdate, ConfigMapChanges, ConfigMapVersions
<1>3. CASE EditConfigMap(s)
  <2> DEFINE u == [configMap(s) EXCEPT !.data = Foreign]
             w == [configMap(s) EXCEPT !.role = FALSE]
  <2>1. /\ configMap(s) # Absent /\ Spends /\ "edit" \in budget.kinds
        /\ ApiUpdate(s, u) \/ ApiUpdate(s, w)
    BY <1>1, <1>3, ChangeSpends DEF EditConfigMap
  <2>2. /\ u \in ConfigMapObjects /\ u.owner = configMap(s).owner
        /\ w \in ConfigMapObjects /\ w.owner = configMap(s).owner
    BY <1>1, <2>1 DEF ConfigMapObjects
  <2>3. QED
    BY <1>2, <2>1, <2>2
<1>4. CASE DisownConfigMap(s)
  <2> DEFINE w == [configMap(s) EXCEPT !.owner = NoOwner]
  <2>1. configMap(s) # Absent /\ Spends /\ ApiUpdate(s, w) /\ "disown" \in budget.kinds
    BY <1>1, <1>4, ChangeSpends DEF DisownConfigMap
  <2>2. w \in ConfigMapObjects /\ w.owner = NoOwner
    BY <1>1, <2>1 DEF ConfigMapObjects, NoOwner
  <2>3. QED
    BY <1>2, <2>1, <2>2
<1>5. CASE RemoveConfigMap(s) \/ (CollectGarbage(s) /\ UNCHANGED budget)
  <2>1. Spends /\ ApiDelete(s) /\ (Garbage(s) \/ "remove" \in budget.kinds)
    BY <1>1, <1>5, ChangeSpends DEF RemoveConfigMap, CollectGarbage, Spends, Scenario
  <2>2. ConfigMapChanges(s, Absent)
    BY <2>1 DEF ApiDelete, ConfigMapChanges, ConfigMapVersions
  <2>3. QED
    BY <2>1, <2>2 DEF ConfigMapVersions
<1>6. QED
    BY <1>3, <1>4, <1>5

(* Operators and the quota controller change the quota. *)
LEMMA QuotaChange ==
    ASSUME CacheTypeOK,
           \/ CreateQuota \/ SetHard \/ DeleteQuota \/ CreateOther \/ DeleteOther
           \/ SyncQuota /\ UNCHANGED budget
    PROVE  Spends /\ QuotaChanges
<1>1. budget \in Scenario /\ others \in Nat /\ HardLimits \subseteq Nat
    BY ObjectAssumption DEF CacheTypeOK
<1>2. ASSUME NEW q \in QuotaVersions, WriteQuota(q)
      PROVE  QuotaChanges
    BY <1>1, <1>2 DEF WriteQuota, QuotaChanges
<1>3. /\ Absent \in QuotaVersions /\ QuotaObject(<< >>, << >>) \in QuotaVersions
      /\ \A h \in HardLimits : QuotaObject(Amount(h), Amount(ConfigMapCount)) \in QuotaVersions
    BY <1>1, Countable, AmountsAreAmounts DEF QuotaVersions
<1>4. CASE CreateQuota \/ SetHard \/ DeleteQuota
    BY <1>1, <1>2, <1>3, <1>4, ChangeSpends DEF CreateQuota, SetHard, DeleteQuota
<1>5. CASE CreateOther
    BY <1>1, <1>5, ChargeIsTyped, ChangeSpends DEF CreateOther, QuotaChanges
<1>6. CASE DeleteOther
    BY <1>1, <1>6, ChangeSpends DEF DeleteOther, QuotaChanges
<1>7. CASE SyncQuota /\ UNCHANGED budget
    BY <1>1, <1>2, <1>3, <1>7 DEF SyncQuota, Spends, Scenario
<1>8. QED
    BY <1>4, <1>5, <1>6, <1>7

(***************************************************************************)
(* Every step of the environment is one such change, and leaves the        *)
(* controller alone.                                                       *)
(***************************************************************************)
LEMMA EnvironmentStep ==
    ASSUME CacheTypeOK, World(Environment) \/ World(Housekeeping)
    PROVE  EnvironmentEffect /\ UNCHANGED <<loopVars, metadata, handler>>
<1>1. CASE World(Environment)
    BY <1>1, ShootsChange, StatesChange, ConfigMapsChange, QuotaChange
       DEF World, Environment, EnvironmentEffect
<1>2. CASE World(Housekeeping)
    BY <1>2, ConfigMapsChange, QuotaChange DEF World, Housekeeping, EnvironmentEffect
<1>3. QED
    BY <1>1, <1>2

-----------------------------------------------------------------------------
(***************************************************************************)
(* Types of the logs and caches: what is stored, delivered and listed      *)
(* stays what it is declared to be.                                        *)
(***************************************************************************)

(***************************************************************************)
(* What a handling remembers; where it has read the Shoot; where it holds  *)
(* the configMap it is about to write.                                     *)
(***************************************************************************)
Locals == [shoot : ShootObjects \cup {Absent}, found : BOOLEAN,
           desired : ConfigMapObjects \cup {Absent}]
Reading == {"getConfigMap", "listQuotas", "getShootState"}
Rendering == {"createOrUpdate", "create", "update"}

(* A write to the log of s extends that log and leaves the others alone. *)
LEMMA LogsAreWritten ==
    ASSUME NEW S, NEW logs \in [Shoots -> Log(S)], NEW s \in Shoots, NEW v \in S
    PROVE  /\ Write(logs, s, v) \in [Shoots -> Log(S)]
           /\ Write(logs, s, v)[s] = Append(logs[s], v)
           /\ \A t \in Shoots \ {s} : Write(logs, s, v)[t] = logs[t]
BY LogGrows DEF Write

(* A fault uses up one of those the scenario allows. *)
LEMMA FaultSpends ==
    ASSUME budget \in Scenario, Fault
    PROVE  Spends /\ budget.faults > 0
BY DEF Fault, Scenario, Spends

(* A step of an informer *)
LEMMA LogIsDelivered ==
    ASSUME NEW S, NEW log \in Log(S), Behind(log), budget \in Scenario,
           NEW rest, Advance(log, rest)
    PROVE  /\ rest \in Log(S) /\ Stored(rest) = Stored(log)
           /\ Entries(rest) \subseteq Entries(log)
           /\ Steps(rest) \subseteq Steps(log)
           /\ Spends
           /\ \/ /\ <<Known(log), Known(rest)>> \in Steps(log)
                 /\ Entries(log) \subseteq Entries(rest) \cup {Known(log)}
              \/ "relist" \in budget.kinds /\ budget.faults > 0
<1>1. CASE rest = Tail(log) /\ UNCHANGED budget
  <2>1. Spends
    BY <1>1 DEF Spends, Scenario
  <2>2. /\ Tail(log) \in Log(S) /\ Stored(Tail(log)) = Stored(log)
        /\ Entries(log) = Entries(Tail(log)) \cup {Known(log)}
    BY LogAdvances
  <2>3. QED
    BY <1>1, <2>1, <2>2, StepsAdvance
<1>2. CASE "relist" \in budget.kinds /\ rest = <<Stored(log)>> /\ Fault
  <2>1. Stored(log) \in S /\ Stored(log) \in Entries(log)
    BY LogIsNonempty
  <2>2. /\ rest \in Log(S) /\ Stored(rest) = Stored(log)
        /\ Entries(rest) = {Stored(log)} /\ Steps(rest) = {}
    BY <1>2, <2>1, LogStarts, StepsStart
  <2>3. QED
    BY <1>2, <2>1, <2>2, FaultSpends
<1>3. QED
    BY <1>1, <1>2 DEF Advance

(***************************************************************************)
(* The informer of these logs delivers something of s: the next change, or *)
(* - when it relists - only the newest version. What is stored stays.      *)
(***************************************************************************)
LogsDeliver(S, logs, s) ==
    /\ logs' \in [Shoots -> Log(S)]
    /\ \A t \in Shoots : Stored(logs'[t]) = Stored(logs[t])
    /\ \A t \in Shoots \ {s} : logs'[t] = logs[t]
    /\ Entries(logs'[s]) \subseteq Entries(logs[s])
    /\ Steps(logs'[s]) \subseteq Steps(logs[s])
    /\ \/ /\ <<Known(logs[s]), Known(logs'[s])>> \in Steps(logs[s])
          /\ Entries(logs[s]) \subseteq Entries(logs'[s]) \cup {Known(logs[s])}
       \/ "relist" \in budget.kinds /\ budget.faults > 0

(* The Shoot informer delivers; shootPredicate decides on the request. *)
LEMMA ShootIsDelivered ==
    ASSUME CacheTypeOK, NEW s \in Shoots, DeliverShoot(s)
    PROVE  /\ LogsDeliver(ShootVersions, shoots, s) /\ Spends
           /\ Notify(Passes(shootPredicate, cShoot(s), cShoot(s)'), {s})
<1>1. PICK rest : /\ Advance(shoots[s], rest)
                  /\ shoots' = [shoots EXCEPT ![s] = rest]
                  /\ Notify(Passes(shootPredicate, cShoot(s), Known(rest)), {s})
    BY DEF DeliverShoot, Known
<1>2. shoots \in [Shoots -> Log(ShootVersions)] /\ Behind(shoots[s]) /\ budget \in Scenario
    BY DEF CacheTypeOK, ShootVersions, DeliverShoot
<1>3. QED
  <2>1. shoots'[s] = rest /\ cShoot(s)' = Known(rest)
    BY <1>1, <1>2 DEF cShoot
  <2>2. QED
    BY <1>1, <1>2, <2>1, LogIsDelivered DEF LogsDeliver

(***************************************************************************)
(* The ShootState informer delivers; shootStatePredicate decides on the    *)
(* request.                                                                *)
(***************************************************************************)
LEMMA StateIsDelivered ==
    ASSUME CacheTypeOK, NEW s \in Shoots, DeliverShootState(s)
    PROVE  /\ LogsDeliver(StateVersions, shootStates, s) /\ Spends
           /\ Notify(Passes(shootStatePredicate, cShootState(s), cShootState(s)'), {s})
<1>1. PICK rest : /\ Advance(shootStates[s], rest)
                  /\ shootStates' = [shootStates EXCEPT ![s] = rest]
                  /\ Notify(Passes(shootStatePredicate, cShootState(s), Known(rest)), {s})
    BY DEF DeliverShootState, Known
<1>2. /\ shootStates \in [Shoots -> Log(StateVersions)] /\ Behind(shootStates[s])
      /\ budget \in Scenario
    BY DEF CacheTypeOK, StateVersions, DeliverShootState
<1>3. QED
  <2>1. shootStates'[s] = rest /\ cShootState(s)' = Known(rest)
    BY <1>1, <1>2 DEF cShootState
  <2>2. QED
    BY <1>1, <1>2, <2>1, LogIsDelivered DEF LogsDeliver

(***************************************************************************)
(* The configMap informer delivers; configMapPredicate and the owner       *)
(* reference decide on the request.                                        *)
(***************************************************************************)
LEMMA ConfigMapIsDelivered ==
    ASSUME CacheTypeOK, NEW s \in Shoots, DeliverConfigMap(s)
    PROVE  /\ LogsDeliver(ConfigMapVersions, configMaps, s) /\ Spends
           /\ Notify(/\ Passes(configMapPredicate, cConfigMap(s), cConfigMap(s)')
                     /\ HasOwner(cConfigMap(s)) \/ HasOwner(cConfigMap(s)'), {s})
<1>1. PICK rest : /\ Advance(configMaps[s], rest)
                  /\ configMaps' = [configMaps EXCEPT ![s] = rest]
                  /\ Notify(/\ Passes(configMapPredicate, cConfigMap(s), Known(rest))
                            /\ HasOwner(cConfigMap(s)) \/ HasOwner(Known(rest)), {s})
    BY DEF DeliverConfigMap, Known
<1>2. /\ configMaps \in [Shoots -> Log(ConfigMapVersions)] /\ Behind(configMaps[s])
      /\ budget \in Scenario
    BY DEF CacheTypeOK, ConfigMapVersions, DeliverConfigMap
<1>3. QED
  <2>1. configMaps'[s] = rest /\ cConfigMap(s)' = Known(rest)
    BY <1>1, <1>2 DEF cConfigMap
  <2>2. QED
    BY <1>1, <1>2, <2>1, LogIsDelivered DEF LogsDeliver

(* The metadata clients list shoots or have not listed yet. *)
LEMMA MetadataTyped ==
    ASSUME CacheTypeOK
    PROVE  {StoredShoots, StoredConfigMaps, ListedShoots, ListedConfigMaps}
             \subseteq {Absent} \cup SUBSET Shoots
BY DEF CacheTypeOK, StoredShoots, StoredConfigMaps, ListedShoots, ListedConfigMaps

(* The quota and metadata informers deliver nothing but quotas and shoots. *)
LEMMA QuotaIsDelivered ==
    ASSUME CacheTypeOK, DeliverQuota \/ LoseQuotaEvent
    PROVE  /\ quotas' \in Log(QuotaVersions) /\ Spends
           /\ {mShoots, mConfigMaps}' \subseteq {Absent} \cup SUBSET Shoots
<1>1. quotas \in Log(QuotaVersions) /\ budget \in Scenario /\ Behind(quotas)
    BY DEF CacheTypeOK, QuotaVersions, DeliverQuota, LoseQuotaEvent
<1>2. CASE DeliverQuota
  <2>1. Advance(quotas, quotas')
    BY <1>2 DEF DeliverQuota
  <2>2. {mShoots, mConfigMaps}' \subseteq {Absent} \cup SUBSET Shoots
    BY <1>2, MetadataTyped DEF DeliverQuota, CacheTypeOK, metadata
  <2>3. QED
    BY <1>1, <2>1, <2>2, LogIsDelivered
<1>3. CASE LoseQuotaEvent
  <2>1. quotas' = Tail(quotas) /\ Fault
    BY <1>3 DEF LoseQuotaEvent
  <2>2. {mShoots, mConfigMaps}' \subseteq {Absent} \cup SUBSET Shoots
    BY <1>3, MetadataTyped DEF LoseQuotaEvent, CacheTypeOK
  <2>3. QED
    BY <1>1, <2>1, <2>2, LogAdvances, FaultSpends
<1>4. QED
    BY <1>2, <1>3

(* The caches stay what they are declared to be when an informer delivers, *)
LEMMA DeliverTyped ==
    ASSUME CacheTypeOK, Deliver
    PROVE  CacheTypeOK'
<1> USE DEF CacheTypeOK, ShootVersions, StateVersions, ConfigMapVersions, QuotaVersions
<1>1. ASSUME NEW s \in Shoots, DeliverShoot(s) PROVE CacheTypeOK'
    BY <1>1, ShootIsDelivered DEF DeliverShoot, LogsDeliver, Spends, metadata
<1>2. ASSUME NEW s \in Shoots, DeliverShootState(s) PROVE CacheTypeOK'
    BY <1>2, StateIsDelivered DEF DeliverShootState, LogsDeliver, Spends, metadata
<1>3. ASSUME NEW s \in Shoots, DeliverConfigMap(s) PROVE CacheTypeOK'
    BY <1>3, ConfigMapIsDelivered DEF DeliverConfigMap, LogsDeliver, Spends, metadata
<1>4. CASE DeliverQuota \/ LoseQuotaEvent
    BY <1>4, QuotaIsDelivered DEF DeliverQuota, LoseQuotaEvent, Spends
<1>5. CASE DeliverMetadata
    BY <1>5, MetadataTyped DEF DeliverMetadata, clusterVars, objects
<1>6. QED
    BY <1>1, <1>2, <1>3, <1>4, <1>5 DEF Deliver

(* when the environment changes something, *)
LEMMA EnvironmentTyped ==
    ASSUME CacheTypeOK, EnvironmentEffect, UNCHANGED metadata
    PROVE  CacheTypeOK'
<1> USE DEF CacheTypeOK, ShootVersions, StateVersions, ConfigMapVersions, QuotaVersions,
            Spends, metadata
<1>0. Spends
    BY DEF EnvironmentEffect
<1>1. ASSUME NEW s \in Shoots, NEW v \in ShootVersions, ShootChanges(s, v)
      PROVE  CacheTypeOK'
    BY <1>0, <1>1, LogsAreWritten DEF ShootChanges, WriteShoot
<1>2. ASSUME NEW s \in Shoots, NEW v \in StateVersions, StateChanges(s, v)
      PROVE  CacheTypeOK'
    BY <1>0, <1>2, LogsAreWritten DEF StateChanges, WriteShootState
<1>3. ASSUME NEW s \in Shoots, NEW v \in ConfigMapVersions, ConfigMapChanges(s, v)
      PROVE  CacheTypeOK'
    BY <1>0, <1>3, LogsAreWritten DEF ConfigMapChanges, StoreConfigMap
<1>4. CASE QuotaChanges
    BY <1>0, <1>4, QuotaLogGrows DEF QuotaChanges
<1>5. QED
    BY <1>1, <1>2, <1>3, <1>4 DEF EnvironmentEffect

(* when the controller writes a configMap, *)
LEMMA ConfigMapWriteTyped ==
    ASSUME CacheTypeOK, NEW s \in Shoots, NEW v \in ConfigMapVersions, Spends,
           ApiCreate(s, v) \/ ApiUpdate(s, v) \/ (v = Absent /\ ApiDelete(s)),
           UNCHANGED metadata
    PROVE  CacheTypeOK'
<1>1. /\ configMaps' = Write(configMaps, s, v) /\ current' = current \ {s}
      /\ UNCHANGED <<shoots, shootStates, others, created>>
    BY DEF ApiCreate, ApiUpdate, ApiDelete, StoreConfigMap
<1>2. UNCHANGED quotas \/ \E q \in QuotaVersions : quotas' = Append(quotas, q)
    BY ChargeIsTyped DEF ApiCreate, ApiUpdate, ApiDelete
<1>3. quotas' \in Log(QuotaVersions)
    BY <1>2, QuotaLogGrows DEF CacheTypeOK, QuotaVersions
<1>4. QED
    BY <1>1, <1>3, LogsAreWritten
       DEF CacheTypeOK, ConfigMapVersions, QuotaVersions, Spends, metadata

(* and when the process restarts with new caches. *)
LEMMA RestartTyped ==
    ASSUME CacheTypeOK, ProcessRestarts
    PROVE  CacheTypeOK'
<1>1. Spends
    BY FaultSpends DEF CacheTypeOK, ProcessRestarts
<1>2. /\ shoots' \in [Shoots -> Log(ShootVersions)]
      /\ shootStates' \in [Shoots -> Log(StateVersions)]
      /\ configMaps' \in [Shoots -> Log(ConfigMapVersions)]
      /\ quotas' \in Log(QuotaVersions)
    BY CurrentVersions, CurrentQuota, LogStarts DEF ProcessRestarts
<1>3. {mShoots, mConfigMaps}' \subseteq {Absent} \cup SUBSET Shoots
    BY MetadataTyped DEF ProcessRestarts
<1>4. QED
    BY <1>1, <1>2, <1>3 DEF ProcessRestarts, CacheTypeOK, Spends,
       ShootVersions, StateVersions, ConfigMapVersions, QuotaVersions

-----------------------------------------------------------------------------
(* Types of the handler: what a handling remembers between two calls. *)

(* A handling that goes on remembers what its next call needs. *)
LEMMA GotoTyped ==
    ASSUME HandlerTypeOK, NEW s \in Shoots, pc[s] # "none",
           NEW call \in Calls \ {"none"}, NEW l \in Locals, Goto(s, call, l),
           call \in Reading => l.shoot # Absent,
           call \in Rendering => l.desired # Absent
    PROVE  HandlerTypeOK'
BY DEF HandlerTypeOK, Goto, Locals, Reading, Rendering, loopVars

(* A handling that has not begun remembers nothing. *)
LEMMA NoLocalTyped == NoLocal \in Locals /\ NoLocal.shoot = Absent /\ NoLocal.desired = Absent
BY DEF NoLocal, Locals

(* A handling that returns forgets what it remembered. *)
LEMMA ReturnTyped ==
    ASSUME LoopTypeOK, HandlerTypeOK, NEW s \in Shoots, NEW d, Return(s, d)
    PROVE  HandlerTypeOK'
<1>1. phase \in [Shoots -> Phase]
    BY ControllerAssumption DEF LoopTypeOK
<1>2. QED
    BY <1>1, NoLocalTyped DEF HandlerTypeOK, Return, Handle, Locals, Calls

(* What is rendered is a configMap. *)
LEMMA RenderedTyped ==
    ASSUME NEW sh \in ShootObjects, sh.addresses # NoAddresses, NEW ca \in CaCerts
    PROVE  Rendered(sh, ca) \in ConfigMapObjects /\ Rendered(sh, ca) # Absent
<1> DEFINE data == [addresses |-> sh.addresses, ca |-> ca, legacy |-> sh.legacy]
<1>1. sh.uid \in Nat /\ data \in [addresses : Addresses, ca : CaCerts, legacy : BOOLEAN]
    BY DEF ShootObjects
<1> HIDE DEF data
<1>2. Rendered(sh, ca) = [owner |-> sh.uid, role |-> TRUE, data |-> data]
    BY DEF Rendered, data
<1>3. Rendered(sh, ca) \in ConfigMapObjects
    BY <1>1, <1>2 DEF ConfigMapObjects
<1>4. QED
    BY <1>3, ObjectAssumption

(* The types after a call of handleRequest *)
LEMMA HandlerTyped ==
    ASSUME LoopTypeOK, CacheTypeOK, HandlerTypeOK, NEW s \in Shoots,
           handleRequest(s) \/ CallFails(s)
    PROVE  HandlerTypeOK'
<1> USE DEF Calls, Reading, Rendering
<1>1. local[s] \in Locals
    BY DEF HandlerTypeOK, Locals
<1>2. CASE GetShoot(s)
  <2>1. CASE cShoot(s) = Absent
    BY <1>2, <2>1, GotoTyped, NoLocalTyped DEF GetShoot
  <2>2. CASE cShoot(s) # Absent
    <3> DEFINE l == [NoLocal EXCEPT !.shoot = cShoot(s)]
    <3>1. l \in Locals /\ l.shoot # Absent
      BY <2>2, CurrentVersions DEF NoLocal, Locals, ShootVersions
    <3>2. pc[s] # "none" /\ Goto(s, "getConfigMap", l)
      BY <1>2, <2>2 DEF GetShoot
    <3>3. QED
      BY <3>1, <3>2, GotoTyped
  <2>3. QED
    BY <2>1, <2>2
<1>3. CASE GetConfigMap(s)
  <2> DEFINE l == [local[s] EXCEPT !.found = TRUE]
  <2>1. local[s].shoot # Absent
    BY <1>3 DEF GetConfigMap, HandlerTypeOK
  <2>2. l \in Locals /\ l.shoot # Absent
    BY <1>1, <2>1 DEF Locals
  <2>3. CASE cConfigMap(s) = Absent
    BY <1>1, <1>3, <2>1, <2>3, GotoTyped DEF GetConfigMap
  <2>4. CASE cConfigMap(s) # Absent
    <3>1. pc[s] # "none" /\ Goto(s, "getShootState", l)
      BY <1>3, <2>4 DEF GetConfigMap
    <3>2. QED
      BY <2>2, <3>1, GotoTyped
  <2>5. QED
    BY <2>3, <2>4
<1>4. CASE ListQuotas(s)
  <2>1. local[s].shoot # Absent /\ pc[s] # "none"
    BY <1>4 DEF ListQuotas, HandlerTypeOK
  <2>2. CASE Goto(s, "getShootState", local[s])
    BY <1>1, <2>1, <2>2, GotoTyped
  <2>3. CASE \E d : Return(s, d)
    BY <2>3, ReturnTyped
  <2>4. QED
    BY <1>4, <2>2, <2>3 DEF ListQuotas
<1>5. CASE GetShootState(s)
  <2>1. pc[s] # "none" /\ local[s].shoot \in ShootObjects
    BY <1>1, <1>5 DEF GetShootState, HandlerTypeOK, Locals
  <2>2. CASE Goto(s, "delete", NoLocal)
    BY <2>1, <2>2, GotoTyped, NoLocalTyped
  <2>3. CASE \E d : Return(s, d)
    BY <2>3, ReturnTyped
  <2>4. CASE /\ cShootState(s) \in CaCerts /\ local[s].shoot.addresses # NoAddresses
             /\ Goto(s, "createOrUpdate",
                     [local[s] EXCEPT !.desired = Rendered(local[s].shoot, cShootState(s))])
    <3> DEFINE cm == Rendered(local[s].shoot, cShootState(s))
               l == [local[s] EXCEPT !.desired = cm]
    <3>1. cm \in ConfigMapObjects /\ cm # Absent
      BY <2>1, <2>4, RenderedTyped
    <3> HIDE DEF cm
    <3>2. l \in Locals /\ l.desired # Absent
      BY <1>1, <3>1 DEF Locals
    <3>3. Goto(s, "createOrUpdate", l)
      BY <2>4 DEF cm
    <3> HIDE DEF l
    <3>4. QED
      BY <2>1, <3>2, <3>3, GotoTyped
  <2>5. QED
    BY <1>5, <2>2, <2>3, <2>4 DEF GetShootState
<1>6. CASE CreateOrUpdate(s)
  <2>1. local[s].desired # Absent /\ pc[s] # "none"
    BY <1>6 DEF CreateOrUpdate, HandlerTypeOK
  <2>2. CASE Goto(s, "create", local[s]) \/ Goto(s, "update", local[s])
    BY <1>1, <2>1, <2>2, GotoTyped
  <2>3. CASE \E d : Return(s, d)
    BY <2>3, ReturnTyped
  <2>4. QED
    BY <1>6, <2>2, <2>3 DEF CreateOrUpdate, Reconciled
<1>7. CASE Create(s) \/ Update(s) \/ Delete(s) \/ CallFails(s)
  <2>1. \E d : Return(s, d)
    BY <1>7 DEF Create, Update, Delete, CallFails, Answer, Refused, Reconciled
  <2>2. QED
    BY <2>1, ReturnTyped
<1>8. QED
    BY <1>2, <1>3, <1>4, <1>5, <1>6, <1>7 DEF handleRequest

(* The calls of handleRequest leave the logs and caches typed. *)
LEMMA HandlerCacheTyped ==
    ASSUME LoopTypeOK, CacheTypeOK, HandlerTypeOK, NEW s \in Shoots,
           handleRequest(s) \/ CallFails(s)
    PROVE  CacheTypeOK'
<1>1. CASE GetShoot(s) \/ GetConfigMap(s) \/ ListQuotas(s) \/ GetShootState(s)
  <2>1. UNCHANGED <<clusterVars, metadata>>
    BY <1>1 DEF GetShoot, GetConfigMap, ListQuotas, GetShootState
  <2>2. QED
    BY <2>1 DEF clusterVars, objects, metadata, CacheTypeOK
<1>2. CASE CreateOrUpdate(s)
  <2>1. current' \subseteq Shoots
    BY <1>2 DEF CreateOrUpdate, CacheTypeOK
  <2>2. QED
    BY <1>2, <2>1 DEF CreateOrUpdate, metadata, CacheTypeOK
<1>3. ASSUME NEW v \in ConfigMapVersions, UNCHANGED metadata,
             ApiCreate(s, v) \/ ApiUpdate(s, v) \/ (v = Absent /\ ApiDelete(s)),
             Answer(s)
      PROVE  CacheTypeOK'
  <2>1. Spends
    BY <1>3, FaultSpends DEF Answer, CacheTypeOK, Spends, Scenario
  <2>2. QED
    BY <1>3, <2>1, ConfigMapWriteTyped
<1>4. CASE UNCHANGED <<objects, budget, metadata>>
    BY <1>4 DEF objects, metadata, CacheTypeOK
<1>5. CASE Create(s) \/ Update(s)
  <2>1. local[s].desired \in ConfigMapVersions
    BY DEF HandlerTypeOK, ConfigMapVersions
  <2>2. QED
    BY <1>3, <1>4, <1>5, <2>1 DEF Create, Update, Refused
<1>6. CASE Delete(s)
    BY <1>3, <1>4, <1>6 DEF Delete, ConfigMapVersions
<1>7. CASE CallFails(s)
  <2>1. Spends
    BY <1>7, FaultSpends DEF CallFails, CacheTypeOK
  <2>2. QED
    BY <1>7, <2>1 DEF CallFails, CacheTypeOK, Spends, metadata
<1>8. QED
    BY <1>1, <1>2, <1>5, <1>6, <1>7 DEF handleRequest

(* The steps of the loop leave caches and handlers typed. *)
LEMMA LoopStepTyped ==
    ASSUME LoopTypeOK, CacheTypeOK, HandlerTypeOK, NEW s \in Shoots,
           Start(s) \/ Finish(s) \/ Outside(Take(s)) \/ Outside(TimerFires(s))
    PROVE  CacheTypeOK' /\ HandlerTypeOK'
<1>1. phase \in [Shoots -> Phase]
    BY ControllerAssumption DEF LoopTypeOK
<1>2. UNCHANGED <<clusterVars, metadata>>
    BY DEF Start, Finish, Outside
<1>3. CacheTypeOK'
    BY <1>2 DEF clusterVars, objects, metadata, CacheTypeOK
<1>4. CASE Start(s)
    BY <1>1, <1>3, <1>4 DEF Start, Admit, HandlerTypeOK, Calls
<1>5. CASE Outside(TimerFires(s))
    BY <1>3, <1>5 DEF Outside, TimerFires, HandlerTypeOK, handler
<1>6. CASE Finish(s) \/ Outside(Take(s))
  <2>1. /\ \A t \in Shoots : phase'[t] = "handling" <=> phase[t] = "handling"
        /\ UNCHANGED handler
    BY <1>1, <1>6 DEF Finish, Outside, Take, Reject, Decrease, Done
  <2>2. QED
    BY <1>3, <2>1 DEF HandlerTypeOK, handler
<1>7. QED
    BY <1>4, <1>5, <1>6

(* An event never touches a handling under way. *)
LEMMA NotifyKeepsHandler ==
    ASSUME Deliver
    PROVE  UNCHANGED <<phase, handler>>
BY DEF Deliver, DeliverShoot, DeliverShootState, DeliverConfigMap, DeliverQuota,
       LoseQuotaEvent, DeliverMetadata, Notify, Enqueue, loopVars

(* Every step leaves caches and handlers typed. *)
LEMMA ControllerTypeStep ==
    ASSUME LoopTypeOK, CacheTypeOK, HandlerTypeOK, [Next]_vars
    PROVE  CacheTypeOK' /\ HandlerTypeOK'
<1>1. ASSUME UNCHANGED <<phase, handler>> PROVE HandlerTypeOK'
    BY <1>1 DEF HandlerTypeOK, handler
<1>2. CASE World(Environment) \/ World(Housekeeping)
  <2>1. EnvironmentEffect /\ UNCHANGED <<loopVars, metadata, handler>>
    BY <1>2, EnvironmentStep
  <2>2. QED
    BY <1>1, <2>1, EnvironmentTyped DEF loopVars
<1>3. CASE Deliver
    BY <1>1, <1>3, DeliverTyped, NotifyKeepsHandler
<1>4. CASE ProcessRestarts
  <2>1. HandlerTypeOK'
    BY <1>4, NoLocalTyped, ControllerAssumption
       DEF ProcessRestarts, Restart, HandlerTypeOK, Locals, Calls
  <2>2. QED
    BY <1>4, <2>1, RestartTyped
<1>5. ASSUME NEW s \in Shoots, handleRequest(s) \/ CallFails(s)
      PROVE  CacheTypeOK' /\ HandlerTypeOK'
    BY <1>5, HandlerTyped, HandlerCacheTyped
<1>6. ASSUME NEW s \in Shoots,
             Start(s) \/ Finish(s) \/ Outside(Take(s)) \/ Outside(TimerFires(s))
      PROVE  CacheTypeOK' /\ HandlerTypeOK'
    BY <1>6, LoopStepTyped
<1>7. CASE UNCHANGED vars
    BY <1>7 DEF vars, clusterVars, objects, loopVars, metadata, handler, CacheTypeOK,
                HandlerTypeOK
<1>8. QED
    BY <1>2, <1>3, <1>4, <1>5, <1>6, <1>7 DEF Next

(* Caches and handlers are typed at first. *)
LEMMA ControllerTypeInit == Init => CacheTypeOK /\ HandlerTypeOK
<1> SUFFICES ASSUME Init PROVE CacheTypeOK /\ HandlerTypeOK
    OBVIOUS
<1>1. PICK S \in SUBSET Shoots, a \in Addresses, ca \in CaCerts, old \in BOOLEAN :
        LET sh == [uid |-> 1, addresses |-> a, legacy |-> old]
            For(v) == [s \in Shoots |-> <<IF s \in S THEN v ELSE Absent>>]
        IN  /\ shoots = For(sh)
            /\ shootStates = For(ca)
            /\ configMaps = For(Rendered(sh, ca))
            /\ created = [s \in Shoots |-> IF s \in S THEN 1 ELSE 0]
    BY DEF Init, ClusterInit
<1> DEFINE sh == [uid |-> 1, addresses |-> a, legacy |-> old]
<1>2. sh \in ShootObjects /\ sh.addresses # NoAddresses
    BY ObjectAssumption DEF ShootObjects
<1>3. Rendered(sh, ca) \in ConfigMapVersions /\ ca \in StateVersions /\ sh \in ShootVersions
    BY <1>2, RenderedTyped DEF ConfigMapVersions, StateVersions, CaStates, ShootVersions
<1>4. /\ shoots \in [Shoots -> Log(ShootVersions)]
      /\ shootStates \in [Shoots -> Log(StateVersions)]
      /\ configMaps \in [Shoots -> Log(ConfigMapVersions)]
      /\ created \in [Shoots -> Nat]
  <2>1. Absent \in ShootVersions /\ Absent \in StateVersions /\ Absent \in ConfigMapVersions
    BY DEF ShootVersions, StateVersions, ConfigMapVersions
  <2> HIDE DEF sh
  <2>2. \A T, v : v \in T => <<v>> \in Log(T)
    BY LogStarts
  <2>3. QED
    BY <1>1, <1>3, <2>1, <2>2 DEF sh
<1>5. ConfigMapCount \in Nat
  <2>1. IsFiniteSet({s \in Shoots : configMap(s) # Absent})
    BY LoopAssumption, ControllerAssumption, FS_Subset
  <2>2. QED
    BY <2>1, FS_CardinalityType DEF ConfigMapCount, Init, ClusterInit
<1>6. quotas \in Log(QuotaVersions)
  <2>1. PICK q \in QuotaVersions : quotas = <<q>>
    BY <1>5, ObjectAssumption, AmountsAreAmounts DEF Init, ClusterInit, QuotaVersions
  <2>2. QED
    BY <2>1, LogStarts
<1>7. CacheTypeOK
    BY <1>4, <1>6, ScenarioAssumption DEF Init, ClusterInit, CacheTypeOK,
       ShootVersions, StateVersions, ConfigMapVersions, QuotaVersions
<1>8. HandlerTypeOK
    BY NoLocalTyped, ControllerAssumption DEF Init, LoopInit, HandlerTypeOK, Locals, Calls
<1>9. QED
    BY <1>7, <1>8

-----------------------------------------------------------------------------
(***************************************************************************)
(* What a step does to one shoot: which calls move its handling, which     *)
(* changes reach its caches and its queue.                                 *)
(***************************************************************************)

(* What a call for s does to the others. *)
LEMMA HandlerMoves ==
    ASSUME LoopTypeOK, HandlerTypeOK, NEW s \in Shoots, handleRequest(s) \/ CallFails(s)
    PROVE  /\ UNCHANGED <<dirty, timer>>
           /\ \A t \in Shoots \ {s} :
                /\ pc'[t] = pc[t] /\ local'[t] = local[t]
                /\ phase'[t] = phase[t] /\ outcome'[t] = outcome[t]
<1>1. (\E call, l : Goto(s, call, l)) \/ \E d : Return(s, d)
  <2>1. CASE GetShoot(s) \/ GetConfigMap(s)
    BY <2>1 DEF GetShoot, GetConfigMap
  <2>2. CASE ListQuotas(s) \/ GetShootState(s)
    BY <2>2 DEF ListQuotas, GetShootState
  <2>3. CASE CreateOrUpdate(s) \/ Create(s) \/ Update(s) \/ Delete(s) \/ CallFails(s)
    BY <2>3 DEF CreateOrUpdate, Create, Update, Delete, CallFails, Answer, Refused, Reconciled
  <2>4. QED
    BY <2>1, <2>2, <2>3 DEF handleRequest
<1>2. QED
    BY <1>1, ControllerAssumption DEF Goto, Return, Handle, LoopTypeOK, HandlerTypeOK, loopVars

(* What a call for s does to the cluster. *)
LEMMA HandlerWrites ==
    ASSUME CacheTypeOK, NEW s \in Shoots, handleRequest(s) \/ CallFails(s)
    PROVE  /\ UNCHANGED <<shoots, shootStates, created, metadata>>
           /\ Spends /\ Known(quotas') = Known(quotas)
           /\ \/ configMaps' = configMaps
              \/ /\ pc[s] \in {"create", "update"}
                 /\ configMaps' = Write(configMaps, s, local[s].desired)
              \/ pc[s] = "delete" /\ configMaps' = Write(configMaps, s, Absent)
<1>1. quotas \in Log(QuotaVersions) /\ budget \in Scenario
    BY DEF CacheTypeOK, QuotaVersions
<1>2. Answer(s) \/ UNCHANGED budget => Spends
    BY <1>1, FaultSpends DEF Answer, Spends, Scenario
<1>3. CASE GetShoot(s) \/ GetConfigMap(s) \/ ListQuotas(s) \/ GetShootState(s)
  <2>1. UNCHANGED <<clusterVars, metadata>>
    BY <1>3 DEF GetShoot, GetConfigMap, ListQuotas, GetShootState
  <2>2. QED
    BY <1>2, <2>1 DEF clusterVars, objects
<1>4. CASE CreateOrUpdate(s)
    BY <1>2, <1>4 DEF CreateOrUpdate, metadata
<1>5. CASE CallFails(s)
    BY <1>1, <1>5, FaultSpends DEF CallFails, metadata
<1>6. ASSUME NEW v, ApiCreate(s, v) \/ ApiUpdate(s, v) \/ (v = Absent /\ ApiDelete(s))
      PROVE  /\ UNCHANGED <<shoots, shootStates, created>>
             /\ configMaps' = Write(configMaps, s, v)
             /\ Known(quotas') = Known(quotas)
  <2>1. UNCHANGED quotas \/ \E q \in QuotaVersions : quotas' = Append(quotas, q)
    BY <1>6, ChargeIsTyped DEF ApiCreate, ApiUpdate, ApiDelete
  <2>2. QED
    BY <1>1, <1>6, <2>1, QuotaLogGrows DEF ApiCreate, ApiUpdate, ApiDelete, StoreConfigMap
<1>7. CASE UNCHANGED <<objects, budget, metadata>>
    BY <1>2, <1>7 DEF objects
<1>8. CASE Create(s) \/ Update(s)
    BY <1>2, <1>6, <1>7, <1>8 DEF Create, Update, Refused
<1>9. CASE Delete(s)
    BY <1>2, <1>6, <1>7, <1>9 DEF Delete
<1>10. QED
    BY <1>3, <1>4, <1>5, <1>8, <1>9 DEF handleRequest

(* What a step of the loop for s does. *)
LEMMA LoopMoves ==
    ASSUME LoopTypeOK, HandlerTypeOK, NEW s \in Shoots,
           Start(s) \/ Finish(s) \/ Outside(Take(s)) \/ Outside(TimerFires(s))
    PROVE  /\ UNCHANGED <<clusterVars, metadata, local>>
           /\ \A t \in Shoots \ {s} :
                /\ pc'[t] = pc[t] /\ phase'[t] = phase[t] /\ outcome'[t] = outcome[t]
                /\ timer'[t] = timer[t] /\ (t \in dirty' <=> t \in dirty)
           /\ pc'[s] = pc[s] \/ pc'[s] = "getShoot"
<1> USE ControllerAssumption DEF LoopTypeOK, HandlerTypeOK
<1>1. CASE Start(s)
    BY <1>1 DEF Start, Admit
<1>2. CASE Outside(TimerFires(s)) \/ Outside(Take(s))
    BY <1>2 DEF Outside, TimerFires, Take, handler
<1>3. CASE Finish(s)
    BY <1>3 DEF Finish, Outside, Reject, Decrease, Done, handler
<1>4. QED
    BY <1>1, <1>2, <1>3

(* A write to the log of s adds one version and one change to that log. *)
LEMMA EntriesOfWrite ==
    ASSUME NEW S, NEW logs \in [Shoots -> Log(S)], NEW s \in Shoots, NEW v \in S
    PROVE  \A t \in Shoots :
              /\ Entries(Write(logs, s, v)[t])
                    = Entries(logs[t]) \cup (IF t = s THEN {v} ELSE {})
              /\ Known(Write(logs, s, v)[t]) = Known(logs[t])
              /\ Stored(Write(logs, s, v)[t]) = IF t = s THEN v ELSE Stored(logs[t])
              /\ Steps(Write(logs, s, v)[t])
                    = Steps(logs[t]) \cup (IF t = s THEN {<<Stored(logs[t]), v>>} ELSE {})
<1>1. ASSUME NEW t \in Shoots, t = s
      PROVE  /\ Entries(Write(logs, s, v)[t]) = Entries(logs[t]) \cup {v}
             /\ Known(Write(logs, s, v)[t]) = Known(logs[t])
             /\ Stored(Write(logs, s, v)[t]) = v
             /\ Steps(Write(logs, s, v)[t]) = Steps(logs[t]) \cup {<<Stored(logs[t]), v>>}
  <2>1. logs[s] \in Log(S) /\ Write(logs, s, v)[t] = Append(logs[s], v) /\ logs[t] = logs[s]
    BY <1>1, LogsAreWritten
  <2>2. /\ Entries(Append(logs[s], v)) = Entries(logs[s]) \cup {v}
        /\ Known(Append(logs[s], v)) = Known(logs[s])
        /\ Stored(Append(logs[s], v)) = v
        /\ Steps(Append(logs[s], v)) = Steps(logs[s]) \cup {<<Stored(logs[s]), v>>}
    BY <2>1, LogGrows, StepsGrow
  <2>3. QED
    BY <2>1, <2>2
<1>2. ASSUME NEW t \in Shoots, t # s
      PROVE  Write(logs, s, v)[t] = logs[t]
    BY <1>2, LogsAreWritten
<1>3. QED
    BY <1>1, <1>2

(* A write adds a version to the log of its object. *)
Written(logs, s, v, written) ==
    \A t \in Shoots :
        /\ Entries(written[t]) = Entries(logs[t]) \cup (IF t = s THEN {v} ELSE {})
        /\ Known(written[t]) = Known(logs[t])
        /\ Stored(written[t]) = IF t = s THEN v ELSE Stored(logs[t])
        /\ Steps(written[t])
                = Steps(logs[t]) \cup (IF t = s THEN {<<Stored(logs[t]), v>>} ELSE {})

(* Written is what Write does to each of the three kinds of log. *)
LEMMA ObjectsAreWritten ==
    ASSUME CacheTypeOK, NEW s \in Shoots
    PROVE  /\ \A v \in ShootVersions : Written(shoots, s, v, Write(shoots, s, v))
           /\ \A v \in StateVersions : Written(shootStates, s, v, Write(shootStates, s, v))
           /\ \A v \in ConfigMapVersions : Written(configMaps, s, v, Write(configMaps, s, v))
<1>1. /\ shoots \in [Shoots -> Log(ShootVersions)]
      /\ shootStates \in [Shoots -> Log(StateVersions)]
      /\ configMaps \in [Shoots -> Log(ConfigMapVersions)]
    BY DEF CacheTypeOK, ShootVersions, StateVersions, ConfigMapVersions
<1>2. ASSUME NEW S, NEW logs \in [Shoots -> Log(S)], NEW v \in S
      PROVE  Written(logs, s, v, Write(logs, s, v))
    BY EntriesOfWrite DEF Written
<1>3. QED
    BY <1>1, <1>2

(* A delivery adds no version and no change, and nothing stored changes. *)
LEMMA DeliverEffect ==
    ASSUME CacheTypeOK, Deliver
    PROVE  /\ UNCHANGED <<created, handler>> /\ Spends
           /\ \A s \in Shoots :
                /\ Entries(shoots'[s]) \subseteq Entries(shoots[s])
                /\ Entries(shootStates'[s]) \subseteq Entries(shootStates[s])
                /\ Entries(configMaps'[s]) \subseteq Entries(configMaps[s])
                /\ Steps(shoots'[s]) \subseteq Steps(shoots[s])
                /\ Steps(shootStates'[s]) \subseteq Steps(shootStates[s])
                /\ Steps(configMaps'[s]) \subseteq Steps(configMaps[s])
                /\ UNCHANGED <<shoot(s), shootState(s), configMap(s)>>
<1> USE DEF shoot, shootState, configMap
<1>1. ASSUME NEW s \in Shoots, DeliverShoot(s)
      PROVE  /\ UNCHANGED <<created, handler, shootStates, configMaps>>
             /\ LogsDeliver(ShootVersions, shoots, s) /\ Spends
    BY <1>1, ShootIsDelivered DEF DeliverShoot
<1>2. ASSUME NEW s \in Shoots, DeliverShootState(s)
      PROVE  /\ UNCHANGED <<created, handler, shoots, configMaps>>
             /\ LogsDeliver(StateVersions, shootStates, s) /\ Spends
    BY <1>2, StateIsDelivered DEF DeliverShootState
<1>3. ASSUME NEW s \in Shoots, DeliverConfigMap(s)
      PROVE  /\ UNCHANGED <<created, handler, shoots, shootStates>>
             /\ LogsDeliver(ConfigMapVersions, configMaps, s) /\ Spends
    BY <1>3, ConfigMapIsDelivered DEF DeliverConfigMap
<1>4. CASE DeliverQuota \/ LoseQuotaEvent
    BY <1>4, QuotaIsDelivered DEF DeliverQuota, LoseQuotaEvent
<1>5. CASE DeliverMetadata
    BY <1>5 DEF DeliverMetadata, clusterVars, objects, CacheTypeOK, Spends, Scenario
<1>6. QED
    BY <1>1, <1>2, <1>3, <1>4, <1>5 DEF Deliver, LogsDeliver

(* A request for s is in the queue, or will be within a moment. *)
Queued(s) == s \in dirty \/ timer[s] = "soon"
(* The handling of s is over and d is the delay it asked for. *)
Ends(s, d) == phase[s] \in {"handled", "returned"} /\ outcome[s] = d
(* A handling of s that has read nothing yet is certain to come. *)
Attended(s) == Queued(s) \/ phase[s] = "taken" \/ Ends(s, "soon")
(* A handling of s comes after one of the long delays. *)
Postponed(s) == timer[s] = "later" \/ Ends(s, "later")

(***************************************************************************)
(* The informer delivered the next change and dropped only what it knew,   *)
(* or relisted.                                                            *)
(***************************************************************************)
Reported(log, newLog) ==
    \/ /\ <<Known(log), Known(newLog)>> \in Steps(log)
       /\ Entries(log) \subseteq Entries(newLog) \cup {Known(log)}
    \/ "relist" \in budget.kinds /\ budget.faults > 0

(* The changes that lead to a request. *)
ShootEvent(old, new) == Passes(shootPredicate, old, new)
(* Does the change of a ShootState lead to a request? *)
StateEvent(old, new) == Passes(shootStatePredicate, old, new)
(* Does the change of a configMap lead to a request? *)
ConfigMapEvent(old, new) ==
    Passes(configMapPredicate, old, new) /\ (HasOwner(old) \/ HasOwner(new))

(* A change that passes its predicate puts its shoot into the queue. *)
LEMMA DeliverEvents ==
    ASSUME CacheTypeOK, Deliver, NEW s \in Shoots
    PROVE  /\ UNCHANGED <<timer, phase, outcome, handler>> /\ dirty \subseteq dirty'
           /\ \/ shoots'[s] = shoots[s]
              \/ /\ Reported(shoots[s], shoots'[s])
                 /\ ShootEvent(cShoot(s), cShoot(s)') => s \in dirty'
           /\ \/ shootStates'[s] = shootStates[s]
              \/ /\ Reported(shootStates[s], shootStates'[s])
                 /\ StateEvent(cShootState(s), cShootState(s)')
                        => s \in dirty'
           /\ \/ configMaps'[s] = configMaps[s]
              \/ /\ Reported(configMaps[s], configMaps'[s])
                 /\ ConfigMapEvent(cConfigMap(s), cConfigMap(s)') => s \in dirty'
<1>1. /\ UNCHANGED <<timer, phase, outcome, handler>> /\ dirty \subseteq dirty'
    BY DEF Deliver, DeliverShoot, DeliverShootState, DeliverConfigMap, DeliverQuota,
           LoseQuotaEvent, DeliverMetadata, Notify, Enqueue, loopVars
<1>2. ASSUME NEW t \in Shoots, DeliverShoot(t)
      PROVE  /\ shootStates'[s] = shootStates[s] /\ configMaps'[s] = configMaps[s]
             /\ \/ shoots'[s] = shoots[s]
                \/ /\ Reported(shoots[s], shoots'[s])
                   /\ ShootEvent(cShoot(s), cShoot(s)') => s \in dirty'
  <2>1. UNCHANGED <<shootStates, configMaps>>
    BY <1>2 DEF DeliverShoot
  <2>2. /\ LogsDeliver(ShootVersions, shoots, t)
        /\ Notify(ShootEvent(cShoot(t), cShoot(t)'), {t})
    BY <1>2, ShootIsDelivered DEF ShootEvent
  <2>3. Reported(shoots[t], shoots'[t]) /\ \A u \in Shoots \ {t} : shoots'[u] = shoots[u]
    BY <2>2 DEF LogsDeliver, Reported
  <2>4. ShootEvent(cShoot(t), cShoot(t)') => t \in dirty'
    BY <2>2 DEF Notify, Enqueue
  <2>5. QED
    BY <2>1, <2>3, <2>4
<1>3. ASSUME NEW t \in Shoots, DeliverShootState(t)
      PROVE  /\ shoots'[s] = shoots[s] /\ configMaps'[s] = configMaps[s]
             /\ \/ shootStates'[s] = shootStates[s]
                \/ /\ Reported(shootStates[s], shootStates'[s])
                   /\ StateEvent(cShootState(s), cShootState(s)')
                        => s \in dirty'
  <2>1. UNCHANGED <<shoots, configMaps>>
    BY <1>3 DEF DeliverShootState
  <2>2. /\ LogsDeliver(StateVersions, shootStates, t)
        /\ Notify(StateEvent(cShootState(t), cShootState(t)'), {t})
    BY <1>3, StateIsDelivered DEF StateEvent
  <2>3. /\ Reported(shootStates[t], shootStates'[t])
        /\ \A u \in Shoots \ {t} : shootStates'[u] = shootStates[u]
    BY <2>2 DEF LogsDeliver, Reported
  <2>4. StateEvent(cShootState(t), cShootState(t)') => t \in dirty'
    BY <2>2 DEF Notify, Enqueue
  <2>5. QED
    BY <2>1, <2>3, <2>4
<1>4. ASSUME NEW t \in Shoots, DeliverConfigMap(t)
      PROVE  /\ shoots'[s] = shoots[s] /\ shootStates'[s] = shootStates[s]
             /\ \/ configMaps'[s] = configMaps[s]
                \/ /\ Reported(configMaps[s], configMaps'[s])
                   /\ ConfigMapEvent(cConfigMap(s), cConfigMap(s)') => s \in dirty'
  <2>1. UNCHANGED <<shoots, shootStates>>
    BY <1>4 DEF DeliverConfigMap
  <2>2. /\ LogsDeliver(ConfigMapVersions, configMaps, t)
        /\ Notify(ConfigMapEvent(cConfigMap(t), cConfigMap(t)'), {t})
    BY <1>4, ConfigMapIsDelivered DEF ConfigMapEvent
  <2>3. /\ Reported(configMaps[t], configMaps'[t])
        /\ \A u \in Shoots \ {t} : configMaps'[u] = configMaps[u]
    BY <2>2 DEF LogsDeliver, Reported
  <2>4. ConfigMapEvent(cConfigMap(t), cConfigMap(t)') => t \in dirty'
    BY <2>2 DEF Notify, Enqueue
  <2>5. QED
    BY <2>1, <2>3, <2>4
<1>5. ASSUME DeliverQuota \/ LoseQuotaEvent \/ DeliverMetadata
      PROVE  UNCHANGED <<shoots, shootStates, configMaps>>
    BY <1>5 DEF DeliverQuota, LoseQuotaEvent, DeliverMetadata, clusterVars, objects
<1>6. QED
    BY <1>1, <1>2, <1>3, <1>4, <1>5 DEF Deliver

(* The loop and what waits in it *)
LEMMA QueueOfLoop ==
    ASSUME LoopTypeOK, HandlerTypeOK, NEW t \in Shoots, NEW s \in Shoots,
           Start(t) \/ Finish(t) \/ Outside(Take(t)) \/ Outside(TimerFires(t))
    PROVE  /\ UNCHANGED <<clusterVars, metadata, local>>
           /\ pc'[s] = pc[s] \/ pc'[s] = "getShoot"
           /\ pc'[s] # "none" => (Queued(s) => Queued(s)')
           /\ Attended(s) => Attended(s)' \/ pc'[s] = "getShoot"
           /\ Postponed(s) => Postponed(s)' \/ Attended(s)'
<1> USE ControllerAssumption DEF LoopTypeOK, HandlerTypeOK, Queued, Ends, Attended, Postponed
<1>1. CASE s # t
    BY <1>1, LoopMoves
<1>2. CASE s = t /\ Start(t)
    BY <1>2 DEF Start, Admit
<1>3. CASE s = t /\ Outside(TimerFires(t))
    BY <1>3 DEF Outside, TimerFires, handler
<1>4. CASE s = t /\ Outside(Take(t))
    BY <1>4 DEF Outside, Take, handler
<1>5. CASE s = t /\ Outside(Done(t))
    BY <1>5 DEF Outside, Done, handler, Earlier, Delay
<1>6. CASE s = t /\ Outside(Reject(t) \/ Decrease(t))
    BY <1>6 DEF Outside, Reject, Decrease, handler
<1>7. QED
    BY <1>1, <1>2, <1>3, <1>4, <1>5, <1>6 DEF Finish, Outside

(* What a call means for the queue *)
LEMMA QueueOfHandler ==
    ASSUME LoopTypeOK, HandlerTypeOK, NEW t \in Shoots, NEW s \in Shoots,
           handleRequest(t) \/ CallFails(t)
    PROVE  /\ Queued(s)' <=> Queued(s)
           /\ s # t => /\ Attended(s)' <=> Attended(s)
                       /\ Postponed(s)' <=> Postponed(s)
                       /\ pc'[s] = pc[s] /\ local'[s] = local[s]
           /\ \A d : Return(s, d) => pc'[s] = "none" /\ Ends(s, d)'
           /\ \A call, l : Goto(s, call, l) => pc'[s] = call /\ local'[s] = l
<1> USE ControllerAssumption DEF LoopTypeOK, HandlerTypeOK, Queued, Ends, Attended, Postponed
<1>1. /\ UNCHANGED <<dirty, timer>>
      /\ s # t => /\ pc'[s] = pc[s] /\ local'[s] = local[s]
                  /\ phase'[s] = phase[s] /\ outcome'[s] = outcome[s]
    BY HandlerMoves
<1>2. \A d : Return(s, d) => pc'[s] = "none" /\ Ends(s, d)'
    BY DEF Return, Handle
<1>3. \A call, l : Goto(s, call, l) => pc'[s] = call /\ local'[s] = l
    BY DEF Goto
<1>4. QED
    BY <1>1, <1>2, <1>3

(* What a call reads, and what it makes of it *)
LEMMA HandlerReads ==
    ASSUME LoopTypeOK, CacheTypeOK, HandlerTypeOK, NEW s \in Shoots,
           handleRequest(s) \/ CallFails(s)
    PROVE  \/ local'[s].shoot = Absent /\ local'[s].desired = Absent
           \/ /\ pc[s] = "getShoot" /\ cShoot(s) # Absent
              /\ local'[s].shoot = cShoot(s) /\ local'[s].desired = Absent
           \/ /\ pc[s] \notin {"none", "getShoot", "getShootState"}
              /\ local'[s].shoot = local[s].shoot /\ local'[s].desired = local[s].desired
           \/ /\ pc[s] = "getShootState" /\ CanRender(local[s].shoot, cShootState(s))
              /\ local'[s].shoot = local[s].shoot
              /\ local'[s].desired = Rendered(local[s].shoot, cShootState(s))
<1>1. local \in [Shoots -> Locals] /\ pc \in [Shoots -> Calls]
    BY DEF HandlerTypeOK, Locals
<1>2. ASSUME NEW d, Return(s, d)
      PROVE  local'[s].shoot = Absent /\ local'[s].desired = Absent
    BY <1>1, <1>2, NoLocalTyped DEF Return
<1>3. ASSUME NEW call, NEW l, Goto(s, call, l)
      PROVE  local'[s] = l
    BY <1>1, <1>3 DEF Goto
<1>4. CASE GetShoot(s)
  <2> DEFINE l == [NoLocal EXCEPT !.shoot = cShoot(s)]
  <2>1. l.shoot = cShoot(s) /\ l.desired = Absent
    BY DEF NoLocal
  <2>2. local'[s] = NoLocal \/ (cShoot(s) # Absent /\ local'[s] = l)
    BY <1>3, <1>4 DEF GetShoot
  <2>3. QED
    BY <1>4, <2>1, <2>2, NoLocalTyped DEF GetShoot
<1>5. CASE GetConfigMap(s)
  <2> DEFINE l == [local[s] EXCEPT !.found = TRUE]
  <2>1. l.shoot = local[s].shoot /\ l.desired = local[s].desired
    BY <1>1 DEF Locals
  <2>2. pc[s] = "getConfigMap" /\ local'[s] \in {l, local[s]}
    BY <1>3, <1>5 DEF GetConfigMap
  <2>3. QED
    BY <2>1, <2>2
<1>6. CASE GetShootState(s)
  <2> DEFINE cm == Rendered(local[s].shoot, cShootState(s))
             l == [local[s] EXCEPT !.desired = cm]
  <2>1. pc[s] = "getShootState" /\ local[s].shoot # Absent
    BY <1>6 DEF GetShootState, HandlerTypeOK
  <2>2. CASE Goto(s, "delete", NoLocal) \/ \E d : Return(s, d)
    BY <1>2, <1>3, <2>2, NoLocalTyped
  <2>3. CASE /\ Goto(s, "createOrUpdate", l)
             /\ cShootState(s) \in CaCerts /\ local[s].shoot.addresses # NoAddresses
    <3>1. l.shoot = local[s].shoot /\ l.desired = cm
      BY <1>1 DEF Locals
    <3>2. local'[s] = l
      BY <1>3, <2>3
    <3>3. QED
      BY <2>1, <2>3, <3>1, <3>2 DEF CanRender
  <2>4. QED
    BY <1>6, <2>2, <2>3 DEF GetShootState
<1>7. CASE ListQuotas(s) \/ CreateOrUpdate(s)
  <2>1. pc[s] \in {"listQuotas", "createOrUpdate"}
    BY <1>7 DEF ListQuotas, CreateOrUpdate
  <2>2. QED
    BY <1>2, <1>3, <1>7, <2>1 DEF ListQuotas, CreateOrUpdate, Reconciled
<1>8. CASE Create(s) \/ Update(s) \/ Delete(s) \/ CallFails(s)
    BY <1>2, <1>8 DEF Create, Update, Delete, CallFails, Answer, Refused, Reconciled
<1>9. QED
    BY <1>4, <1>5, <1>6, <1>7, <1>8 DEF handleRequest

(* Where handleRequest goes on, and how it ends *)
LEMMA HandlerFlow ==
    ASSUME LoopTypeOK, CacheTypeOK, HandlerTypeOK, NEW s \in Shoots,
           handleRequest(s) \/ CallFails(s)
    PROVE  \/ pc'[s] = "none" /\ Ends(s, "soon")'
           \/ pc[s] = "getShoot" /\ cShoot(s) = Absent /\ pc'[s] = "delete"
           \/ pc[s] = "getShoot" /\ cShoot(s) # Absent /\ pc'[s] = "getConfigMap"
           \/ pc[s] = "getConfigMap" /\ cConfigMap(s) = Absent /\ pc'[s] = "listQuotas"
           \/ pc[s] = "getConfigMap" /\ cConfigMap(s) # Absent /\ pc'[s] = "getShootState"
           \/ pc[s] = "listQuotas" /\ pc'[s] = "getShootState"
           \/ /\ pc[s] = "listQuotas" /\ pc'[s] = "none" /\ Ends(s, "later")'
              /\ "insufficient" \in hasSufficientQuota({cQuota} \ {Absent})
           \/ pc[s] = "getShootState" /\ cShootState(s) = Absent /\ pc'[s] = "delete"
           \/ /\ pc[s] = "getShootState" /\ cShootState(s) # Absent
              /\ local[s].shoot.addresses = NoAddresses
              /\ pc'[s] = "none" /\ Ends(s, "later")'
           \/ /\ pc[s] = "getShootState" /\ pc'[s] = "createOrUpdate"
              /\ CanRender(local[s].shoot, cShootState(s))
           \/ /\ pc[s] = "createOrUpdate" /\ cConfigMap(s) = local[s].desired
              /\ pc'[s] = "none" /\ Ends(s, "never")'
           \/ pc[s] = "createOrUpdate" /\ pc'[s] \in {"create", "update"}
           \/ /\ pc[s] \in {"create", "update"} /\ pc'[s] = "none" /\ Ends(s, "never")'
              /\ configMaps' = Write(configMaps, s, local[s].desired)
           \/ /\ pc[s] = "delete" /\ pc'[s] = "none" /\ Ends(s, "never")'
              /\ configMap(s)' = Absent
<1>1. /\ \A d : Return(s, d) => pc'[s] = "none" /\ Ends(s, d)'
      /\ \A call, l : Goto(s, call, l) => pc'[s] = call
    BY QueueOfHandler
<1>2. CASE GetShoot(s)
    BY <1>1, <1>2 DEF GetShoot
<1>3. CASE GetConfigMap(s)
    BY <1>1, <1>3 DEF GetConfigMap
<1>4. CASE ListQuotas(s)
    BY <1>1, <1>4 DEF ListQuotas
<1>5. CASE GetShootState(s)
  <2>1. local[s].shoot # Absent
    BY <1>5 DEF GetShootState, HandlerTypeOK
  <2>2. QED
    BY <1>1, <1>5, <2>1 DEF GetShootState, CanRender
<1>6. CASE CreateOrUpdate(s)
    BY <1>1, <1>6 DEF CreateOrUpdate, Reconciled
<1>7. CASE Create(s) \/ Update(s)
    BY <1>1, <1>7 DEF Create, Update, Answer, Refused, Reconciled, ApiCreate, ApiUpdate,
                      StoreConfigMap
<1>8. CASE Delete(s)
  <2>1. pc[s] = "delete" /\ (Return(s, "soon") \/ Return(s, "never"))
    BY <1>8 DEF Delete, Answer, Reconciled
  <2>2. configMap(s)' = Absent
    <3>1. CASE ApiDelete(s)
      <4>1. Written(configMaps, s, Absent, Write(configMaps, s, Absent))
        BY ObjectsAreWritten DEF ConfigMapVersions
      <4>2. configMaps' = Write(configMaps, s, Absent)
        BY <3>1 DEF ApiDelete, StoreConfigMap
      <4>3. QED
        BY <4>1, <4>2 DEF Written, configMap
    <3>2. CASE configMap(s) = Absent /\ UNCHANGED objects
      BY <3>2 DEF objects, configMap
    <3>3. QED
      BY <1>8, <3>1, <3>2 DEF Delete
  <2>3. QED
    BY <1>1, <2>1, <2>2
<1>9. CASE CallFails(s)
    BY <1>1, <1>9 DEF CallFails
<1>10. QED
    BY <1>2, <1>3, <1>4, <1>5, <1>6, <1>7, <1>8, <1>9 DEF handleRequest

(* Every shoot begins at rest, gone or with its kubeconfig. *)
LEMMA InitIsSettled ==
    ASSUME Init, NEW s \in Shoots
    PROVE  /\ Steps(shoots[s]) = {} /\ Steps(shootStates[s]) = {} /\ Steps(configMaps[s]) = {}
           /\ pc[s] = "none" /\ local[s].shoot = Absent /\ local[s].desired = Absent
           /\ \/ /\ Entries(shoots[s]) = {Absent} /\ Entries(shootStates[s]) = {Absent}
                 /\ Entries(configMaps[s]) = {Absent} /\ created[s] = 0
              \/ \E sh \in ShootObjects, ca \in CaCerts :
                    /\ sh.uid = 1 /\ created[s] = 1 /\ CanRender(sh, ca)
                    /\ Entries(shoots[s]) = {sh} /\ Entries(shootStates[s]) = {ca}
                    /\ Entries(configMaps[s]) = {Rendered(sh, ca)}
<1>1. PICK S \in SUBSET Shoots, a \in Addresses, ca \in CaCerts, old \in BOOLEAN :
        LET sh == [uid |-> 1, addresses |-> a, legacy |-> old]
            For(v) == [t \in Shoots |-> <<IF t \in S THEN v ELSE Absent>>]
        IN  /\ shoots = For(sh)
            /\ shootStates = For(ca)
            /\ configMaps = For(Rendered(sh, ca))
            /\ created = [t \in Shoots |-> IF t \in S THEN 1 ELSE 0]
    BY DEF Init, ClusterInit
<1> DEFINE sh == [uid |-> 1, addresses |-> a, legacy |-> old]
<1>2. sh.uid = 1 /\ sh \in ShootObjects /\ CanRender(sh, ca)
    BY ObjectAssumption DEF ShootObjects, CanRender
<1> HIDE DEF sh
<1>3. /\ shoots[s] = <<IF s \in S THEN sh ELSE Absent>>
      /\ shootStates[s] = <<IF s \in S THEN ca ELSE Absent>>
      /\ configMaps[s] = <<IF s \in S THEN Rendered(sh, ca) ELSE Absent>>
      /\ created[s] = IF s \in S THEN 1 ELSE 0
    BY <1>1 DEF sh
<1>4. \A v : Entries(<<v>>) = {v} /\ Steps(<<v>>) = {}
    BY LogStarts, StepsStart
<1>5. pc[s] = "none" /\ local[s].shoot = Absent /\ local[s].desired = Absent
    BY NoLocalTyped DEF Init
<1>6. QED
    BY <1>2, <1>3, <1>4, <1>5

-----------------------------------------------------------------------------
(* A shoot in trouble keeps its kubeconfig. *)

-----------------------------------------------------------------------------
(***************************************************************************)
(* The hypothesis of KubeconfigKept: nobody else deletes a Shoot, a        *)
(* ShootState or a configMap.                                              *)
(***************************************************************************)
Spared == budget.kinds \cap {"lifecycle", "edit", "remove"} = {}

(***************************************************************************)
(* Of a shoot that exists nothing that is stored, on its way to a cache or *)
(* remembered by a handling says that it has no Shoot, no ShootState or no *)
(* configMap, and the configMap belongs to it (or to nobody), so that      *)
(* neither the handler nor the garbage collector has a reason to delete    *)
(* it.                                                                     *)
(***************************************************************************)
KeptInv(s) ==
    \/ shoot(s) = Absent
    \/ /\ \A v \in Entries(shoots[s]) : v # Absent /\ v.uid = created[s]
       /\ Absent \notin Entries(shootStates[s])
       /\ \A v \in Entries(configMaps[s]) : v # Absent /\ v.owner \in {created[s], NoOwner}
       /\ pc[s] # "delete"
       /\ local[s].shoot # Absent => local[s].shoot.uid = created[s]
       /\ local[s].desired # Absent => local[s].desired.owner = created[s]

(* The environment of such a scenario keeps it so, *)
LEMMA KeptByEnvironment ==
    ASSUME CacheTypeOK, EnvironmentEffect, UNCHANGED handler, Spared, NEW s \in Shoots,
           KeptInv(s)
    PROVE  KeptInv(s)'
<1> USE DEF Spared
<1>0. /\ shoots \in [Shoots -> Log(ShootVersions)]
      /\ shootStates \in [Shoots -> Log(StateVersions)]
      /\ configMaps \in [Shoots -> Log(ConfigMapVersions)]
      /\ UNCHANGED <<pc, local>>
    BY DEF CacheTypeOK, ShootVersions, StateVersions, ConfigMapVersions, handler
<1>1. ASSUME NEW t \in Shoots, NEW v \in ShootVersions, ShootChanges(t, v)
      PROVE  KeptInv(s)'
  <2>1. /\ shoot(t) # Absent /\ v # Absent /\ v.uid = shoot(t).uid
        /\ UNCHANGED <<created, shootStates, configMaps>> /\ shoots' = Write(shoots, t, v)
    BY <1>1 DEF ShootChanges, WriteShoot
  <2>2. /\ Entries(shoots'[s]) = Entries(shoots[s]) \cup (IF s = t THEN {v} ELSE {})
        /\ shoot(s)' = IF s = t THEN v ELSE shoot(s)
    <3>1. /\ Entries(Write(shoots, t, v)[s])
                = Entries(shoots[s]) \cup (IF s = t THEN {v} ELSE {})
          /\ Stored(Write(shoots, t, v)[s]) = IF s = t THEN v ELSE Stored(shoots[s])
      BY ObjectsAreWritten DEF Written
    <3>2. QED
      BY <2>1, <3>1 DEF shoot
  <2>3. shoot(s) \in Entries(shoots[s])
    BY CurrentVersions
  <2>4. QED
    BY <1>0, <2>1, <2>2, <2>3 DEF KeptInv
<1>2. ASSUME NEW t \in Shoots, NEW v \in StateVersions, StateChanges(t, v)
      PROVE  KeptInv(s)'
  <2>1. /\ v # Absent /\ UNCHANGED <<created, shoots, configMaps>>
        /\ shootStates' = Write(shootStates, t, v)
    BY <1>2 DEF StateChanges, WriteShootState
  <2>2. Entries(shootStates'[s]) = Entries(shootStates[s]) \cup (IF s = t THEN {v} ELSE {})
    <3>1. Entries(Write(shootStates, t, v)[s])
            = Entries(shootStates[s]) \cup (IF s = t THEN {v} ELSE {})
      BY ObjectsAreWritten DEF Written
    <3>2. QED
      BY <2>1, <3>1
  <2>3. QED
    BY <1>0, <2>1, <2>2 DEF KeptInv, shoot
<1>3. ASSUME NEW t \in Shoots, NEW v \in ConfigMapVersions, ConfigMapChanges(t, v)
      PROVE  KeptInv(s)'
  <2>1. UNCHANGED <<created, shoots, shootStates>> /\ configMaps' = Write(configMaps, t, v)
    BY <1>3 DEF ConfigMapChanges, StoreConfigMap
  <2>2. Entries(configMaps'[s]) = Entries(configMaps[s]) \cup (IF s = t THEN {v} ELSE {})
    <3>1. Entries(Write(configMaps, t, v)[s])
            = Entries(configMaps[s]) \cup (IF s = t THEN {v} ELSE {})
      BY ObjectsAreWritten DEF Written
    <3>2. QED
      BY <2>1, <3>1
  <2>3. CASE s # t \/ shoot(s) = Absent
    BY <1>0, <2>1, <2>2, <2>3 DEF KeptInv, shoot
  <2>4. CASE s = t /\ shoot(s) # Absent
    <3>1. /\ shoot(s).uid = created[s]
          /\ configMap(s) # Absent /\ configMap(s).owner \in {created[s], NoOwner}
      BY <2>4, CurrentVersions DEF KeptInv
    <3>2. v # Absent /\ v.owner \in {created[s], NoOwner}
      BY <1>3, <2>4, <3>1 DEF ConfigMapChanges, Garbage
    <3>3. QED
      BY <1>0, <2>1, <2>2, <2>4, <3>2 DEF KeptInv, shoot
  <2>5. QED
    BY <2>3, <2>4
<1>4. CASE QuotaChanges
    BY <1>0, <1>4 DEF QuotaChanges, KeptInv, shoot
<1>5. QED
    BY <1>1, <1>2, <1>3, <1>4 DEF EnvironmentEffect

(* What a handling holds of a spared shoot comes from this very shoot. *)
LEMMA SparedIsRead ==
    ASSUME LoopTypeOK, CacheTypeOK, HandlerTypeOK, NEW s \in Shoots,
           handleRequest(s) \/ CallFails(s), shoot(s) # Absent, KeptInv(s)
    PROVE  /\ pc'[s] # "delete"
           /\ local'[s].shoot # Absent => local'[s].shoot.uid = created[s]
           /\ local'[s].desired # Absent => local'[s].desired.owner = created[s]
<1>1. cShoot(s) # Absent /\ cShoot(s).uid = created[s] /\ cShootState(s) # Absent
    BY CurrentVersions DEF KeptInv
<1>2. pc'[s] # "delete"
    BY <1>1, HandlerFlow
<1>3. \A ca : Rendered(local[s].shoot, ca).owner = local[s].shoot.uid
    BY DEF Rendered
<1>4. QED
    BY <1>1, <1>2, <1>3, HandlerReads DEF KeptInv, CanRender

(***************************************************************************)
(* the handler keeps it so: it writes for the shoot it has read, and never *)
(* deletes,                                                                *)
(***************************************************************************)
LEMMA KeptByHandler ==
    ASSUME LoopTypeOK, CacheTypeOK, HandlerTypeOK, NEW t \in Shoots,
           handleRequest(t) \/ CallFails(t), NEW s \in Shoots, KeptInv(s)
    PROVE  KeptInv(s)'
<1>0. /\ configMaps \in [Shoots -> Log(ConfigMapVersions)]
      /\ UNCHANGED <<shoots, shootStates, created>> /\ UNCHANGED shoot(s)
    BY HandlerWrites DEF CacheTypeOK, ConfigMapVersions, shoot
<1>1. CASE shoot(s) = Absent
    BY <1>0, <1>1 DEF KeptInv
<1>2. CASE shoot(s) # Absent /\ s # t
  <2>1. Entries(configMaps'[s]) = Entries(configMaps[s])
    <3>1. \/ configMaps' = configMaps
          \/ \E v \in ConfigMapVersions : configMaps' = Write(configMaps, t, v)
      BY HandlerWrites DEF HandlerTypeOK, ConfigMapVersions
    <3>2. QED
      BY <1>0, <1>2, <3>1, LogsAreWritten
  <2>2. pc'[s] = pc[s] /\ local'[s] = local[s]
    BY <1>2, HandlerMoves
  <2>3. QED
    BY <1>0, <1>2, <2>1, <2>2 DEF KeptInv
<1>3. CASE shoot(s) # Absent /\ s = t
  <2>1. Entries(configMaps'[s]) \subseteq Entries(configMaps[s])
            \cup (IF pc[s] \in {"create", "update"} THEN {local[s].desired} ELSE {})
    <3>1. \/ configMaps' = configMaps
          \/ /\ pc[s] \in {"create", "update"}
             /\ configMaps' = Write(configMaps, s, local[s].desired)
      BY <1>3, HandlerWrites DEF KeptInv
    <3>2. local[s].desired \in ConfigMapVersions
      BY DEF HandlerTypeOK, ConfigMapVersions
    <3>3. Entries(Write(configMaps, s, local[s].desired)[s])
            = Entries(configMaps[s]) \cup {local[s].desired}
      BY <3>2, ObjectsAreWritten DEF Written
    <3>4. QED
      BY <3>1, <3>3
  <2>2. pc[s] \in {"create", "update"} =>
            local[s].desired # Absent /\ local[s].desired.owner = created[s]
    BY <1>3 DEF HandlerTypeOK, KeptInv
  <2>3. QED
    BY <1>0, <1>3, <2>1, <2>2, SparedIsRead DEF KeptInv
<1>4. QED
    BY <1>1, <1>2, <1>3

(* Every step keeps the kinds of change and adds no fault to them. *)
LEMMA BudgetShrinks ==
    ASSUME CacheTypeOK, [Next]_vars
    PROVE  Spends
<1>1. budget \in Scenario
    BY DEF CacheTypeOK
<1>2. UNCHANGED budget => Spends
    BY <1>1 DEF Spends, Scenario
<1>3. CASE World(Environment) \/ World(Housekeeping)
    BY <1>3, EnvironmentStep DEF EnvironmentEffect
<1>4. CASE Deliver
    BY <1>4, DeliverEffect
<1>5. CASE ProcessRestarts
    BY <1>1, <1>5, FaultSpends DEF ProcessRestarts
<1>6. CASE \E s \in Shoots : handleRequest(s) \/ CallFails(s)
    BY <1>6, HandlerWrites
<1>7. CASE \E s \in Shoots : Start(s) \/ Finish(s) \/ Outside(Take(s)) \/ Outside(TimerFires(s))
    BY <1>2, <1>7 DEF Start, Finish, Outside, clusterVars
<1>8. CASE UNCHANGED vars
    BY <1>2, <1>8 DEF vars, clusterVars
<1>9. QED
    BY <1>3, <1>4, <1>5, <1>6, <1>7, <1>8 DEF Next

(* so every step does: a delivery and a restart only drop versions. *)
LEMMA KeptStep ==
    ASSUME LoopTypeOK, CacheTypeOK, HandlerTypeOK, [Next]_vars, Spared,
           NEW s \in Shoots, KeptInv(s)
    PROVE  KeptInv(s)'
<1>1. CASE World(Environment) \/ World(Housekeeping)
    BY <1>1, EnvironmentStep, KeptByEnvironment
<1>2. CASE Deliver
    BY <1>2, DeliverEffect DEF KeptInv, handler
<1>3. CASE ProcessRestarts
  <2>1. /\ Entries(shoots'[s]) = {shoot(s)} /\ shoot(s)' = shoot(s)
        /\ Entries(shootStates'[s]) = {shootState(s)}
        /\ Entries(configMaps'[s]) = {configMap(s)}
        /\ pc'[s] = "none" /\ local'[s] = NoLocal /\ UNCHANGED created
    BY <1>3, CurrentVersions, LogStarts DEF ProcessRestarts, shoot
  <2>2. QED
    BY <2>1, CurrentVersions, NoLocalTyped DEF KeptInv
<1>4. CASE \E t \in Shoots : handleRequest(t) \/ CallFails(t)
    BY <1>4, KeptByHandler
<1>5. CASE \E t \in Shoots : Start(t) \/ Finish(t) \/ Outside(Take(t)) \/ Outside(TimerFires(t))
  <2>1. UNCHANGED <<clusterVars, local>> /\ pc'[s] \in {pc[s], "getShoot"}
    BY <1>5, LoopMoves
  <2>2. QED
    BY <2>1 DEF KeptInv, clusterVars, objects, shoot
<1>6. CASE UNCHANGED vars
    BY <1>6 DEF vars, clusterVars, objects, handler, KeptInv, shoot
<1>7. QED
    BY <1>1, <1>2, <1>3, <1>4, <1>5, <1>6 DEF Next

(* At first a shoot has everything or does not exist. *)
LEMMA KeptInit == Init => \A s \in Shoots : KeptInv(s)
<1> SUFFICES ASSUME Init, NEW s \in Shoots PROVE KeptInv(s)
    OBVIOUS
<1>1. CacheTypeOK
    BY ControllerTypeInit
<1>2. CASE Entries(shoots[s]) = {Absent}
    BY <1>1, <1>2, CurrentVersions DEF KeptInv
<1>3. ASSUME NEW sh \in ShootObjects, NEW ca \in CaCerts,
             sh.uid = 1, created[s] = 1, CanRender(sh, ca), Entries(shoots[s]) = {sh},
             Entries(shootStates[s]) = {ca}, Entries(configMaps[s]) = {Rendered(sh, ca)}
      PROVE  KeptInv(s)
  <2>1. sh # Absent /\ ca # Absent
    BY <1>3, ObjectAssumption DEF CaStates
  <2>2. Rendered(sh, ca).owner = 1 /\ Rendered(sh, ca) # Absent
    BY <1>3, RenderedTyped DEF Rendered, CanRender
  <2>3. QED
    BY <1>3, <2>1, <2>2, InitIsSettled DEF KeptInv
<1>4. QED
    BY <1>2, <1>3, InitIsSettled

(***************************************************************************)
(* The controller, its caches and its handlers stay well-typed: in         *)
(* particular a handling that renders holds a Shoot and a configMap to     *)
(* write, whatever was deleted meanwhile.                                  *)
(***************************************************************************)
THEOREM ControllerIsTyped == Spec => []TypeOK
<1>1. Init => CacheTypeOK /\ HandlerTypeOK
    BY ControllerTypeInit
<1>2. LoopTypeOK /\ (CacheTypeOK /\ HandlerTypeOK) /\ [Next]_vars
        => (CacheTypeOK /\ HandlerTypeOK)'
    BY ControllerTypeStep
<1>3. Spec => []LoopTypeOK
    BY ControllerRunsLoop, TypeCorrect, PTL
<1>4. QED
    BY <1>1, <1>2, <1>3, PTL DEF Spec, TypeOK

(* In such a scenario the invariant always holds. *)
THEOREM KeptInvHolds == Spec => [](Spared => \A s \in Shoots : KeptInv(s))
<1> DEFINE Inv == Spared => \A s \in Shoots : KeptInv(s)
<1>1. Init => Inv
    BY KeptInit
<1>2. TypeOK /\ Inv /\ [Next]_vars => Inv'
  <2> SUFFICES ASSUME TypeOK, Inv, [Next]_vars, Spared', NEW s \in Shoots PROVE KeptInv(s)'
    OBVIOUS
  <2>1. Spared
    BY BudgetShrinks DEF Spared, Spends, TypeOK
  <2>2. QED
    BY <2>1, KeptStep DEF TypeOK
<1>3. QED
    BY <1>1, <1>2, ControllerIsTyped, PTL DEF Spec

(***************************************************************************)
(* Where nobody else deletes anything, no kubeconfig is lost: not by       *)
(* addresses that vanish, a CA that is missing, damaged or invalid, calls  *)
(* that fail, answers that get lost, or a restart at any moment, with      *)
(* caches behind by any number of versions.                                *)
(***************************************************************************)
THEOREM TroubleCostsNothing == Spec => []KubeconfigKept
<1>1. TypeOK /\ (Spared => \A s \in Shoots : KeptInv(s)) => KubeconfigKept
    BY CurrentVersions DEF KubeconfigKept, Spared, KeptInv, StoredShoots, TypeOK
<1>2. QED
    BY <1>1, KeptInvHolds, ControllerIsTyped, PTL

-----------------------------------------------------------------------------
(* Access ends with the shoot. *)

(***************************************************************************)
(* Shoots have uids, handlings and configMaps the owner they were rendered *)
(* for; only in a scenario with disown is a configMap nobody's, and none   *)
(* is created so.                                                          *)
(***************************************************************************)
OwnInv(s) ==
    /\ \A v \in Entries(shoots[s]) : v # Absent => v.uid # NoOwner
    /\ local[s].shoot # Absent => local[s].shoot.uid # NoOwner
    /\ local[s].desired # Absent => local[s].desired.owner # NoOwner
    /\ \A v \in Entries(configMaps[s]) :
            v # Absent /\ "disown" \notin budget.kinds => v.owner # NoOwner
    /\ \A step \in Steps(configMaps[s]) :
            step[1] = Absent /\ step[2] # Absent => step[2].owner # NoOwner

(* The environment takes an owner reference away only in such a scenario, *)
LEMMA OwnedByEnvironment ==
    ASSUME CacheTypeOK, EnvironmentEffect, UNCHANGED handler, NEW s \in Shoots, OwnInv(s)
    PROVE  OwnInv(s)'
<1>0. budget'.kinds = budget.kinds /\ UNCHANGED <<pc, local>>
    BY DEF EnvironmentEffect, Spends, handler
<1>1. ASSUME NEW t \in Shoots, NEW v \in ShootVersions, ShootChanges(t, v)
      PROVE  OwnInv(s)'
  <2>1. Written(shoots, t, v, shoots') /\ UNCHANGED configMaps
    BY <1>1, ObjectsAreWritten DEF ShootChanges, WriteShoot
  <2>2. s = t /\ v # Absent => v.uid # NoOwner
    BY <1>1, CurrentVersions DEF ShootChanges, OwnInv
  <2>3. QED
    BY <1>0, <2>1, <2>2 DEF OwnInv, Written
<1>2. ASSUME NEW t \in Shoots, NEW v \in StateVersions, StateChanges(t, v)
      PROVE  OwnInv(s)'
    BY <1>0, <1>2 DEF StateChanges, WriteShootState, OwnInv
<1>3. ASSUME NEW t \in Shoots, NEW v \in ConfigMapVersions, ConfigMapChanges(t, v)
      PROVE  OwnInv(s)'
  <2>1. Written(configMaps, t, v, configMaps') /\ UNCHANGED shoots
    BY <1>3, ObjectsAreWritten DEF ConfigMapChanges, StoreConfigMap
  <2>2. /\ configMap(t) # Absent
        /\ s = t /\ v # Absent /\ "disown" \notin budget.kinds => v.owner # NoOwner
    BY <1>3, CurrentVersions DEF ConfigMapChanges, OwnInv
  <2>3. \A step \in Steps(configMaps'[s]) :
            step \in Steps(configMaps[s]) \/ step[1] # Absent
    BY <2>1, <2>2 DEF Written, configMap
  <2>4. QED
    BY <1>0, <2>1, <2>2, <2>3 DEF OwnInv, Written
<1>4. CASE QuotaChanges
    BY <1>0, <1>4 DEF QuotaChanges, OwnInv
<1>5. QED
    BY <1>1, <1>2, <1>3, <1>4 DEF EnvironmentEffect

(* the handler writes only with an owner, *)
LEMMA OwnedByHandler ==
    ASSUME LoopTypeOK, CacheTypeOK, HandlerTypeOK, NEW t \in Shoots,
           handleRequest(t) \/ CallFails(t), NEW s \in Shoots, OwnInv(s), OwnInv(t)
    PROVE  OwnInv(s)'
<1>1. UNCHANGED shoots /\ budget'.kinds = budget.kinds
    BY HandlerWrites DEF Spends
<1>2. /\ local'[s].shoot # Absent => local'[s].shoot.uid # NoOwner
      /\ local'[s].desired # Absent => local'[s].desired.owner # NoOwner
  <2>1. CASE s # t
    BY <2>1, HandlerMoves DEF OwnInv
  <2>2. CASE s = t
    <3>1. \A ca : Rendered(local[s].shoot, ca).owner = local[s].shoot.uid
      BY DEF Rendered
    <3>2. cShoot(s) # Absent => cShoot(s).uid # NoOwner
      BY CurrentVersions DEF OwnInv
    <3>3. QED
      BY <2>2, <3>1, <3>2, HandlerReads DEF OwnInv, CanRender
  <2>3. QED
    BY <2>1, <2>2
<1>3. \/ configMaps' = configMaps
      \/ \E v \in ConfigMapVersions :
            Written(configMaps, t, v, configMaps') /\ (v # Absent => v.owner # NoOwner)
  <2>1. local[t].desired \in ConfigMapVersions /\ Absent \in ConfigMapVersions
    BY DEF HandlerTypeOK, ConfigMapVersions
  <2>2. QED
    BY <2>1, HandlerWrites, ObjectsAreWritten DEF OwnInv
<1>4. /\ \A v \in Entries(configMaps'[s]) :
            v # Absent /\ "disown" \notin budget.kinds => v.owner # NoOwner
      /\ \A step \in Steps(configMaps'[s]) :
            step[1] = Absent /\ step[2] # Absent => step[2].owner # NoOwner
    BY <1>3 DEF OwnInv, Written
<1>5. QED
    BY <1>1, <1>2, <1>4 DEF OwnInv

(* so every step keeps the owners. *)
LEMMA OwnStep ==
    ASSUME TypeOK, [Next]_vars, \A s \in Shoots : OwnInv(s)
    PROVE  \A s \in Shoots : OwnInv(s)'
<1> SUFFICES ASSUME NEW s \in Shoots PROVE OwnInv(s)'
    OBVIOUS
<1>0. LoopTypeOK /\ CacheTypeOK /\ HandlerTypeOK
    BY DEF TypeOK
<1>1. CASE World(Environment) \/ World(Housekeeping)
    BY <1>0, <1>1, EnvironmentStep, OwnedByEnvironment
<1>2. CASE Deliver
    BY <1>0, <1>2, DeliverEffect DEF OwnInv, Spends, handler
<1>3. CASE ProcessRestarts
  <2>1. /\ Entries(shoots'[s]) = {shoot(s)}
        /\ Entries(configMaps'[s]) = {configMap(s)} /\ Steps(configMaps'[s]) = {}
        /\ local'[s] = NoLocal
    BY <1>0, <1>3, CurrentVersions, LogStarts, StepsStart DEF ProcessRestarts
  <2>2. budget'.kinds = budget.kinds
    BY <1>0, <1>3, FaultSpends DEF ProcessRestarts, CacheTypeOK, Spends
  <2>3. QED
    BY <1>0, <2>1, <2>2, CurrentVersions, NoLocalTyped DEF OwnInv
<1>4. CASE \E t \in Shoots : handleRequest(t) \/ CallFails(t)
    BY <1>0, <1>4, OwnedByHandler
<1>5. CASE \E t \in Shoots : Start(t) \/ Finish(t) \/ Outside(Take(t)) \/ Outside(TimerFires(t))
    BY <1>0, <1>5, LoopMoves DEF OwnInv, clusterVars, objects
<1>6. CASE UNCHANGED vars
    BY <1>6 DEF vars, clusterVars, objects, handler, OwnInv
<1>7. QED
    BY <1>1, <1>2, <1>3, <1>4, <1>5, <1>6 DEF Next

(* At first every configMap has its owner. *)
LEMMA OwnInit == Init => \A s \in Shoots : OwnInv(s)
<1> SUFFICES ASSUME Init, NEW s \in Shoots PROVE OwnInv(s)
    OBVIOUS
<1>1. \A sh, ca : Rendered(sh, ca).owner = sh.uid
    BY DEF Rendered
<1>2. QED
    BY <1>1, InitIsSettled DEF OwnInv, NoOwner

-----------------------------------------------------------------------------
(***************************************************************************)
(* Owner references are not taken away where faults happen as well. An     *)
(* event of a configMap without owner reaches no queue: where the creation *)
(* and the loss of the owner come in one relist, or the process restarts   *)
(* after it, no request follows.                                           *)
(***************************************************************************)
Owned == "disown" \in budget.kinds => budget.faults = 0

(* As the caches know it, the shoot has to be without kubeconfig. *)
Gone(s) == cShoot(s) = Absent \/ cShootState(s) = Absent

(***************************************************************************)
(* Somebody takes care of a kubeconfig whose shoot is known to be gone: a  *)
(* request that has not begun, the event of the configMap that is still to *)
(* come, or a handling that has yet to read what is missing.               *)
(***************************************************************************)
GoneInv(s) ==
    /\ pc[s] \in Reading \cup Rendering /\ cShoot(s) = Absent => Queued(s)
    /\ pc[s] \in Rendering /\ cShootState(s) = Absent => Queued(s)
    /\ pc[s] = "listQuotas" => cConfigMap(s) = Absent \/ Queued(s)
    /\ Gone(s) /\ configMap(s) # Absent =>
        \/ Attended(s) \/ cConfigMap(s) = Absent
        \/ pc[s] \in {"getShoot", "delete"}
        \/ pc[s] \in {"getConfigMap", "getShootState"} /\ cShootState(s) = Absent

(* The environment changes no cache and creates no configMap. *)
LEMMA EnvironmentShows ==
    ASSUME CacheTypeOK, EnvironmentEffect, NEW s \in Shoots
    PROVE  /\ UNCHANGED <<cShoot(s), cShootState(s), cConfigMap(s)>>
           /\ configMap(s)' # Absent => configMap(s) # Absent
<1> USE DEF cShoot, cShootState, cConfigMap, configMap, Written
<1>1. ASSUME NEW t \in Shoots, NEW v \in ShootVersions, ShootChanges(t, v)
      PROVE  Written(shoots, t, v, shoots') /\ UNCHANGED <<shootStates, configMaps>>
    BY <1>1, ObjectsAreWritten DEF ShootChanges, WriteShoot
<1>2. ASSUME NEW t \in Shoots, NEW v \in StateVersions, StateChanges(t, v)
      PROVE  Written(shootStates, t, v, shootStates') /\ UNCHANGED <<shoots, configMaps>>
    BY <1>2, ObjectsAreWritten DEF StateChanges, WriteShootState
<1>3. ASSUME NEW t \in Shoots, NEW v \in ConfigMapVersions, ConfigMapChanges(t, v)
      PROVE  /\ Written(configMaps, t, v, configMaps') /\ UNCHANGED <<shoots, shootStates>>
             /\ configMap(t) # Absent
    BY <1>3, ObjectsAreWritten DEF ConfigMapChanges, StoreConfigMap
<1>4. CASE QuotaChanges
    BY <1>4 DEF QuotaChanges
<1>5. QED
    BY <1>1, <1>2, <1>3, <1>4 DEF EnvironmentEffect

(* The handler changes no cache, and no configMap but that of its shoot. *)
LEMMA HandlerShows ==
    ASSUME LoopTypeOK, CacheTypeOK, HandlerTypeOK, NEW t \in Shoots,
           handleRequest(t) \/ CallFails(t), NEW s \in Shoots
    PROVE  /\ UNCHANGED <<cShoot(s), cShootState(s), cConfigMap(s)>>
           /\ s # t => UNCHANGED configMap(s)
<1>1. local[t].desired \in ConfigMapVersions /\ Absent \in ConfigMapVersions
    BY DEF HandlerTypeOK, ConfigMapVersions
<1>2. \/ configMaps' = configMaps
      \/ \E v \in ConfigMapVersions : Written(configMaps, t, v, configMaps')
    BY <1>1, HandlerWrites, ObjectsAreWritten
<1>3. QED
    BY <1>2, HandlerWrites DEF Written, cShoot, cShootState, cConfigMap, configMap

(* A vanished object, and a configMap that appeared, are queued. *)
LEMMA GoneByDelivery ==
    ASSUME LoopTypeOK, CacheTypeOK, Deliver, Owned, NEW s \in Shoots, OwnInv(s), GoneInv(s)
    PROVE  GoneInv(s)'
<1>1. /\ UNCHANGED <<pc, timer, phase, outcome>> /\ dirty \subseteq dirty'
      /\ UNCHANGED configMap(s)
    BY DeliverEvents, DeliverEffect DEF handler
<1>2. (Queued(s) => Queued(s)') /\ (Attended(s) => Attended(s)')
    BY <1>1 DEF Queued, Attended, Ends
<1>3. cShoot(s)' = Absent => cShoot(s) = Absent \/ Queued(s)'
  <2>1. ShootEvent(cShoot(s), Absent) \/ cShoot(s) = Absent
    BY DEF ShootEvent, Passes
  <2>2. QED
    BY <2>1, DeliverEvents DEF cShoot, Queued
<1>4. cShootState(s)' = Absent => cShootState(s) = Absent \/ Queued(s)'
  <2>1. StateEvent(cShootState(s), Absent) \/ cShootState(s) = Absent
    BY DEF StateEvent, Passes
  <2>2. QED
    BY <2>1, DeliverEvents DEF cShootState, Queued
<1>5. cConfigMap(s) = Absent => cConfigMap(s)' = Absent \/ Queued(s)'
  <2>1. ASSUME cConfigMap(s) = Absent, cConfigMap(s)' # Absent,
               Reported(configMaps[s], configMaps'[s])
        PROVE  ConfigMapEvent(cConfigMap(s), cConfigMap(s)')
    <3>1. cConfigMap(s)'.owner # NoOwner
      <4>1. CASE <<cConfigMap(s), cConfigMap(s)'>> \in Steps(configMaps[s])
        BY <2>1, <4>1 DEF OwnInv
      <4>2. CASE budget.faults > 0
        <5>1. "disown" \notin budget.kinds
          BY <4>2 DEF Owned
        <5>2. cConfigMap(s)' \in Entries(configMaps'[s])
          BY DeliverTyped, LogIsNonempty DEF cConfigMap, CacheTypeOK
        <5>3. QED
          BY <2>1, <5>1, <5>2, DeliverEffect DEF OwnInv
      <4>3. QED
        BY <2>1, <4>1, <4>2 DEF Reported, cConfigMap
    <3>2. QED
      BY <2>1, <3>1 DEF ConfigMapEvent, Passes, HasOwner
  <2>2. QED
    BY <2>1, DeliverEvents DEF cConfigMap, Queued
<1>6. QED
  <2>1. /\ pc'[s] \in Reading \cup Rendering /\ cShoot(s)' = Absent => Queued(s)'
        /\ pc'[s] \in Rendering /\ cShootState(s)' = Absent => Queued(s)'
        /\ pc'[s] = "listQuotas" => cConfigMap(s)' = Absent \/ Queued(s)'
    BY <1>1, <1>2, <1>3, <1>4, <1>5 DEF GoneInv
  <2>2. Gone(s)' /\ configMap(s)' # Absent =>
            \/ Attended(s)' \/ cConfigMap(s)' = Absent
            \/ pc'[s] \in {"getShoot", "delete"}
            \/ pc'[s] \in {"getConfigMap", "getShootState"} /\ cShootState(s)' = Absent
    <3>1. SUFFICES ASSUME Gone(s)', configMap(s)' # Absent, ~Attended(s)'
                   PROVE  \/ cConfigMap(s)' = Absent
                          \/ pc'[s] \in {"getShoot", "delete"}
                          \/ /\ pc'[s] \in {"getConfigMap", "getShootState"}
                             /\ cShootState(s)' = Absent
      OBVIOUS
    <3>2. ~Queued(s)' /\ ~Attended(s)
      BY <1>2, <3>1 DEF Attended
    <3>3. Gone(s)
      BY <1>3, <1>4, <3>1, <3>2 DEF Gone
    <3>4. cShootState(s) = Absent => cShootState(s)' = Absent
      <4>1. cShootState(s) = Absent /\ cShootState(s)' # Absent
                => StateEvent(cShootState(s), cShootState(s)')
        BY DEF StateEvent, Passes
      <4>2. QED
        BY <3>2, <4>1, DeliverEvents DEF cShootState, Queued
    <3>5. QED
      BY <1>1, <1>5, <3>1, <3>2, <3>3, <3>4 DEF GoneInv
  <2>3. QED
    BY <2>1, <2>2 DEF GoneInv

(* A handling that finds the shoot gone deletes, or tries again soon. *)
LEMMA GoneByHandler ==
    ASSUME LoopTypeOK, CacheTypeOK, HandlerTypeOK, NEW t \in Shoots,
           handleRequest(t) \/ CallFails(t), NEW s \in Shoots, GoneInv(s)
    PROVE  GoneInv(s)'
<1>1. /\ UNCHANGED <<cShoot(s), cShootState(s), cConfigMap(s)>>
      /\ s # t => UNCHANGED configMap(s)
      /\ Queued(s)' <=> Queued(s)
    BY HandlerShows, QueueOfHandler
<1>2. CASE s # t
    BY <1>1, <1>2, QueueOfHandler DEF GoneInv, Gone
<1>3. CASE s = t
  <2>1. /\ Queued(s)' => Attended(s)'
        /\ Ends(s, "soon")' => Attended(s)'
    BY DEF Attended
  <2>2. cShootState(s) \in CaCerts => cShootState(s) # Absent
    BY ObjectAssumption DEF CaStates
  <2>3. QED
    BY <1>1, <1>3, <2>1, <2>2, HandlerFlow DEF GoneInv, Gone, Reading, Rendering, CanRender
<1>4. QED
    BY <1>2, <1>3

(* Every step keeps the invariant. *)
LEMMA GoneStep ==
    ASSUME TypeOK, [Next]_vars, Owned, NEW s \in Shoots, OwnInv(s), GoneInv(s)
    PROVE  GoneInv(s)'
<1>0. LoopTypeOK /\ CacheTypeOK /\ HandlerTypeOK
    BY DEF TypeOK
<1>1. CASE World(Environment) \/ World(Housekeeping)
  <2>1. UNCHANGED loopVars /\ UNCHANGED handler
    BY <1>1 DEF World
  <2>2. UNCHANGED <<Queued(s), Attended(s), pc>>
    BY <2>1 DEF Queued, Attended, Ends, loopVars, handler
  <2>3. QED
    BY <1>0, <1>1, <2>2, EnvironmentStep, EnvironmentShows DEF GoneInv, Gone
<1>2. CASE Deliver
    BY <1>0, <1>2, GoneByDelivery
<1>3. CASE ProcessRestarts
  <2>1. pc'[s] = "none"
    BY <1>3 DEF ProcessRestarts
  <2>2. /\ cShoot(s)' = shoot(s) /\ cShootState(s)' = shootState(s)
        /\ cConfigMap(s)' = configMap(s) /\ configMap(s)' = configMap(s)
    BY <1>0, <1>3, CurrentVersions, LogStarts
       DEF ProcessRestarts, cShoot, cShootState, cConfigMap, configMap
  <2>3. "disown" \notin budget.kinds
    BY <1>0, <1>3, FaultSpends DEF ProcessRestarts, Owned, CacheTypeOK
  <2>4. configMap(s) # Absent => s \in dirty'
    BY <1>0, <1>3, <2>3, CurrentVersions DEF ProcessRestarts, Restart, HasOwner, OwnInv
  <2>5. QED
    BY <2>1, <2>2, <2>4 DEF GoneInv, Reading, Rendering, Attended, Queued
<1>4. CASE \E t \in Shoots : handleRequest(t) \/ CallFails(t)
    BY <1>0, <1>4, GoneByHandler
<1>5. CASE \E t \in Shoots : Start(t) \/ Finish(t) \/ Outside(Take(t)) \/ Outside(TimerFires(t))
  <2>1. UNCHANGED <<cShoot(s), cShootState(s), cConfigMap(s), configMap(s)>>
    BY <1>0, <1>5, LoopMoves
       DEF clusterVars, objects, cShoot, cShootState, cConfigMap, configMap
  <2>2. /\ pc'[s] = pc[s] \/ pc'[s] = "getShoot"
        /\ pc'[s] # "none" => (Queued(s) => Queued(s)')
        /\ Attended(s) => Attended(s)' \/ pc'[s] = "getShoot"
    BY <1>0, <1>5, QueueOfLoop
  <2>3. QED
    BY <2>1, <2>2 DEF GoneInv, Gone, Reading, Rendering
<1>6. CASE UNCHANGED vars
    BY <1>6 DEF vars, clusterVars, objects, handler, loopVars, GoneInv, Gone, Queued, Attended,
                Ends, cShoot, cShootState, cConfigMap, configMap
<1>7. QED
    BY <1>1, <1>2, <1>3, <1>4, <1>5, <1>6 DEF Next

(* At a quiet moment the caches are up to date. *)
LEMMA QuietIsKnown ==
    ASSUME CacheTypeOK, Quiet, NEW s \in Shoots
    PROVE  /\ cShoot(s) = shoot(s) /\ cShootState(s) = shootState(s)
           /\ cConfigMap(s) = configMap(s) /\ cQuota = quota
           /\ Entries(configMaps[s]) = {configMap(s)}
<1>1. ASSUME NEW S, NEW log \in Log(S), ~Behind(log)
      PROVE  Known(log) = Stored(log) /\ Entries(log) = {Stored(log)}
  <2>1. Len(log) = 1 /\ Known(log) = log[1]
    BY <1>1, LogIsNonempty DEF Behind
  <2>2. QED
    BY <2>1 DEF Stored, Entries
<1>2. QED
    BY <1>1 DEF Quiet, CacheTypeOK, cShoot, cShootState, cConfigMap, cQuota,
                shoot, shootState, configMap, quota

(* A shoot at rest has no request and no handling. *)
LEMMA RestingIsAlone ==
    ASSUME HandlerTypeOK, NEW s \in Shoots, Resting(s, {"never", "later"})
    PROVE  ~Attended(s) /\ pc[s] = "none"
BY DEF HandlerTypeOK, Resting, Attended, Queued, Ends

(* So at rest nothing is left of the kubeconfig of a shoot that is gone. *)
LEMMA GoneAtRest ==
    ASSUME TypeOK, Quiet, NEW s \in Shoots, GoneInv(s), Resting(s, {"never", "later"}),
           shoot(s) = Absent \/ shootState(s) = Absent
    PROVE  configMap(s) = Absent
<1>1. ~Attended(s) /\ pc[s] = "none"
    BY RestingIsAlone DEF TypeOK
<1>2. Gone(s) /\ cConfigMap(s) = configMap(s)
    BY QuietIsKnown DEF TypeOK, Gone
<1>3. QED
    BY <1>1, <1>2 DEF GoneInv

(* At first no shoot that is gone has a kubeconfig. *)
LEMMA GoneInit == Init => \A s \in Shoots : GoneInv(s)
<1> SUFFICES ASSUME Init, NEW s \in Shoots PROVE GoneInv(s)
    OBVIOUS
<1>1. CacheTypeOK
    BY ControllerTypeInit
<1>2. pc[s] = "none" /\ (Gone(s) => configMap(s) = Absent)
  <2>1. \A ca \in CaCerts : ca # Absent
    BY ObjectAssumption DEF CaStates
  <2>2. QED
    BY <1>1, <2>1, InitIsSettled, CurrentVersions DEF Gone, CanRender
<1>3. QED
    BY <1>2 DEF GoneInv, Reading, Rendering

(***************************************************************************)
(* Access ends with the shoot: with all informers caught up, a shoot at    *)
(* rest that is gone, or has lost its ShootState, has no kubeconfig -      *)
(* whatever was created, deleted, edited and relisted, in which order,     *)
(* with failed calls and restarts in between, in the scenarios of Owned.   *)
(***************************************************************************)
THEOREM AccessEndsWithShoot == Owned /\ Spec => []GoneIsGone
<1> DEFINE Own == \A s \in Shoots : OwnInv(s)
           Inv == Owned /\ \A s \in Shoots : GoneInv(s)
<1>1. Init => Own
    BY OwnInit
<1>2. Owned /\ Init => Inv
    BY GoneInit
<1>3. TypeOK /\ Own /\ [Next]_vars => Own'
    BY OwnStep
<1>4. TypeOK /\ Own /\ Inv /\ [Next]_vars => Inv'
  <2> SUFFICES ASSUME TypeOK, Own, Inv, [Next]_vars PROVE Inv'
    OBVIOUS
  <2>1. budget \in Scenario /\ Spends
    BY BudgetShrinks DEF TypeOK, CacheTypeOK
  <2>2. Owned'
    BY <2>1 DEF Owned, Spends, Scenario
  <2>3. QED
    BY <2>2, GoneStep
<1>5. TypeOK /\ Inv => GoneIsGone
    BY GoneAtRest DEF GoneIsGone
<1>6. QED
    BY <1>1, <1>2, <1>3, <1>4, <1>5, ControllerIsTyped, PTL DEF Spec

-----------------------------------------------------------------------------
(* The controller rests on a shoot only when its goal is reached. *)

(***************************************************************************)
(* Watches break only where nobody else deletes or edits anything.         *)
(* Otherwise one relist can hide the recreation of a shoot with the same   *)
(* addresses and another the configMap written for the former shoot and    *)
(* collected since: no event is left.                                      *)
(***************************************************************************)
RelistsAreSpared == "relist" \in budget.kinds => Spared

(***************************************************************************)
(* Every change that matters leads to an event that passes: none is of a   *)
(* kind the predicates do not compare (the version of a Shoot, the repair  *)
(* of a damaged CA, the owner of a configMap), and relists hide nothing.   *)
(***************************************************************************)
Watched == budget.kinds \cap {"upgrade", "damage", "disown"} = {} /\ RelistsAreSpared

(***************************************************************************)
(* The metadata that a quota event lists is there and current when the     *)
(* event arrives.                                                          *)
(***************************************************************************)
Prompt == ~MetadataLags /\ "listing" \notin budget.kinds

(* As the cache knows it, the quota has no room for one more configMap. *)
Exhausted == cQuota # Absent /\ Verdict(cQuota) = "insufficient"

(* The caches know everything a kubeconfig needs. *)
CanRenderKnown(s) == CanRender(cShoot(s), cShootState(s))

(* The stored configMap is the one the caches call for. *)
Match(s, v) ==
    v # Absent /\ v.role /\ v.data = Rendered(cShoot(s), cShootState(s)).data

(***************************************************************************)
(* The changes under way are changes the predicates let pass; those that a *)
(* relist may merge as well, since the versions of a Shoot then differ in  *)
(* their addresses only.                                                   *)
(***************************************************************************)
ChangesInv(s) ==
    /\ \A step \in Steps(shoots[s]) : ShootEvent(step[1], step[2])
    /\ "relist" \in budget.kinds =>
          \A v \in Entries(shoots[s]), w \in Entries(shoots[s]) :
              /\ v = Absent <=> w = Absent
              /\ v # Absent => v.uid = w.uid /\ v.legacy = w.legacy
    /\ Unparsable \notin Entries(shootStates[s])

(* A handling works with what the caches show, or is followed by another. *)
UpToDate(s) ==
    \/ Queued(s)
    \/ /\ pc[s] \in Reading => local[s].shoot = cShoot(s)
       /\ pc[s] = "listQuotas" => cConfigMap(s) = Absent
       /\ pc[s] \in Rendering =>
            \/ CanRenderKnown(s) /\ local[s].desired = Rendered(cShoot(s), cShootState(s))
            \/ cShoot(s) # Absent /\ cShootState(s) = NotProvisioned
       /\ pc[s] = "delete" => Gone(s)

(***************************************************************************)
(* What the informer will show of the configMap of s: every version, or    *)
(* only the newest if it may relist.                                       *)
(***************************************************************************)
Shown(s) ==
    IF "relist" \in budget.kinds THEN {cConfigMap(s), configMap(s)}
    ELSE Entries(configMaps[s])

(* A shoot that can be rendered is cared for. *)
CaredFor(s) ==
    CanRenderKnown(s) =>
        \/ Attended(s) \/ pc[s] # "none"
        \/ \E v \in Shown(s) : Match(s, v)
        \/ cConfigMap(s) = Absent /\ Postponed(s) /\ (Prompt => Exhausted)

(* What settles a shoot, in three parts. *)
SettledInv(s) == ChangesInv(s) /\ UpToDate(s) /\ CaredFor(s)

-----------------------------------------------------------------------------
(* Quota *)
LEMMA FilteredStaysExhausted ==
    ASSUME NEW old \in QuotaObjects, NEW new \in QuotaObjects,
           Verdict(old) = "insufficient", ~resourceQuotaPredicate(old, new)
    PROVE  Verdict(new) = "insufficient"
<1> DEFINE cm == CountConfigMaps
           M(list) == Mask(list, {CountConfigMaps})
<1>1. ASSUME NEW list \in Amounts
      PROVE  /\ DOMAIN list \in {{}, {cm}} /\ DOMAIN M(list) = DOMAIN list
             /\ cm \in DOMAIN list => list[cm] \in Nat /\ M(list)[cm] = list[cm]
  <2>1. CASE list = << >>
    <3>1. DOMAIN list = {}
      BY <2>1
    <3>2. QED
      BY <3>1 DEF Mask
  <2>2. CASE list \in [{cm} -> Nat]
    BY <2>2 DEF Mask
  <2>3. QED
    BY <2>1, <2>2 DEF Amounts
<1>2. /\ {old.hard, old.used, new.hard, new.used} \subseteq Amounts
      /\ cm \in old.spec /\ cm \in new.spec
    BY DEF QuotaObjects
<1> DEFINE oh == M(old.hard)
           ou == M(old.used)
           nh == M(new.hard)
           nu == M(new.used)
<1>3. /\ DOMAIN oh = {cm} /\ DOMAIN ou = {cm}
      /\ oh[cm] \in Nat /\ ou[cm] \in Nat /\ ou[cm] >= oh[cm]
  <2>1. /\ cm \in DOMAIN old.hard /\ cm \in DOMAIN old.used
        /\ ~(old.used[cm] + 1 <= old.hard[cm])
    BY <1>2 DEF Verdict
  <2>2. /\ DOMAIN old.hard = {cm} /\ old.hard[cm] \in Nat
        /\ DOMAIN old.used = {cm} /\ old.used[cm] \in Nat
    BY <1>1, <1>2, <2>1
  <2>3. /\ DOMAIN oh = {cm} /\ DOMAIN ou = {cm}
        /\ oh[cm] = old.hard[cm] /\ ou[cm] = old.used[cm]
    BY <1>1, <1>2, <2>2
  <2>4. QED
    BY <2>1, <2>2, <2>3
<1>4. /\ DOMAIN nh \in {{}, {cm}} /\ (cm \in DOMAIN nh => nh[cm] \in Nat)
      /\ DOMAIN nu \in {{}, {cm}} /\ (cm \in DOMAIN nu => nu[cm] \in Nat)
    BY <1>1, <1>2
<1>5. /\ Equals(oh, nh) \/ ~LessThan(oh, nh)
      /\ Equals(ou, nu) \/ LessThan(ou, oh) \/ ~LessThan(nu, nh)
    BY DEF resourceQuotaPredicate, quotaIncreased, capacityFreed
<1> HIDE DEF oh, ou, nh, nu
<1>6. DOMAIN nh = {cm} /\ nh[cm] <= oh[cm]
    BY <1>3, <1>4, <1>5 DEF Equals, LessThan
<1>7. DOMAIN nu = {cm} /\ nu[cm] >= nh[cm]
    BY <1>3, <1>4, <1>5, <1>6 DEF Equals, LessThan
<1>8. /\ cm \in DOMAIN new.hard /\ cm \in DOMAIN new.used
      /\ ~(new.used[cm] + 1 <= new.hard[cm])
    BY <1>1, <1>2, <1>4, <1>6, <1>7 DEF nh, nu
<1>9. QED
    BY <1>2, <1>8 DEF Verdict

(***************************************************************************)
(* While quota is exhausted every shoot that waits for it is listed, so    *)
(* the event that makes room wakes it.                                     *)
(***************************************************************************)
LEMMA QuotaEvents ==
    ASSUME CacheTypeOK, Deliver, Prompt, NEW s \in Shoots,
           CanRenderKnown(s), cConfigMap(s) = Absent, Exhausted
    PROVE  s \in dirty' \/ Exhausted'
<1>1. CASE UNCHANGED quotas
    BY <1>1 DEF Exhausted, cQuota
<1>2. CASE DeliverQuota
  <2>1. /\ quotas \in Log(QuotaVersions) /\ quotas' \in Log(QuotaVersions)
        /\ cQuota \in QuotaObjects /\ cQuota' \in QuotaVersions
    <3>1. quotas \in Log(QuotaVersions) /\ quotas' \in Log(QuotaVersions)
      BY <1>2, QuotaIsDelivered DEF CacheTypeOK, QuotaVersions
    <3>2. QED
      BY <3>1, LogIsNonempty DEF cQuota, QuotaVersions, Exhausted
  <2>2. Notify(Passes(resourceQuotaPredicate, cQuota, cQuota'), QuotaRequests)
    BY <1>2 DEF DeliverQuota, cQuota, Known
  <2>3. s \in QuotaRequests
    BY DEF Prompt, QuotaRequests, ListedShoots, ListedConfigMaps, CanRenderKnown, CanRender
  <2>4. CASE Passes(resourceQuotaPredicate, cQuota, cQuota')
    BY <2>2, <2>3, <2>4 DEF Notify, Enqueue
  <2>5. CASE ~Passes(resourceQuotaPredicate, cQuota, cQuota')
    <3>1. cQuota' # Absent /\ ~resourceQuotaPredicate(cQuota, cQuota')
      BY <2>5 DEF Passes, Exhausted
    <3>2. cQuota' \in QuotaObjects
      BY <2>1, <3>1 DEF QuotaVersions
    <3>3. Verdict(cQuota') = "insufficient"
      BY <2>1, <3>1, <3>2, FilteredStaysExhausted DEF Exhausted
    <3>4. QED
      BY <3>1, <3>3 DEF Exhausted
  <2>6. QED
    BY <2>4, <2>5
<1>3. CASE LoseQuotaEvent
    BY <1>3 DEF LoseQuotaEvent, Prompt
<1>4. ASSUME NEW t \in Shoots, DeliverShoot(t) \/ DeliverShootState(t) \/ DeliverConfigMap(t)
      PROVE  UNCHANGED quotas
    BY <1>4 DEF DeliverShoot, DeliverShootState, DeliverConfigMap
<1>5. CASE DeliverMetadata
    BY <1>1, <1>5 DEF DeliverMetadata, clusterVars, objects
<1>6. QED
    BY <1>1, <1>2, <1>3, <1>4, <1>5 DEF Deliver

(***************************************************************************)
(* A handling sends a shoot away for want of quota only while it is        *)
(* exhausted.                                                              *)
(***************************************************************************)
LEMMA RefusalIsExhaustion ==
    ASSUME CacheTypeOK, "insufficient" \in hasSufficientQuota({cQuota} \ {Absent})
    PROVE  Exhausted
BY DEF hasSufficientQuota, Exhausted

-----------------------------------------------------------------------------
(* The environment keeps it so: its changes are still to be delivered, *)
LEMMA SettledByEnvironment ==
    ASSUME CacheTypeOK, EnvironmentEffect, UNCHANGED <<loopVars, handler>>, Watched,
           NEW s \in Shoots, SettledInv(s), Spared => KeptInv(s)
    PROVE  SettledInv(s)'
<1>0. /\ UNCHANGED <<Queued(s), Attended(s), Postponed(s), pc, local>>
      /\ UNCHANGED <<cShoot(s), cShootState(s), cConfigMap(s)>>
      /\ budget'.kinds = budget.kinds
    BY EnvironmentShows
       DEF Queued, Attended, Postponed, Ends, loopVars, handler, EnvironmentEffect, Spends
<1>1. ASSUME ChangesInv(s)', CanRenderKnown(s) => Shown(s) \subseteq Shown(s)',
             Exhausted' <=> Exhausted
      PROVE  SettledInv(s)'
  <2>1. UpToDate(s)'
    BY <1>0 DEF SettledInv, UpToDate, Gone, CanRenderKnown
  <2>2. CaredFor(s)'
    BY <1>0, <1>1 DEF SettledInv, CaredFor, CanRenderKnown, Match, Prompt
  <2>3. QED
    BY <1>1, <2>1, <2>2 DEF SettledInv
<1>2. ASSUME NEW t \in Shoots, NEW v \in ShootVersions, ShootChanges(t, v)
      PROVE  SettledInv(s)'
  <2>1. Written(shoots, t, v, shoots') /\ UNCHANGED <<shootStates, configMaps, quotas>>
    BY <1>2, ObjectsAreWritten DEF ShootChanges, WriteShoot
  <2>2. ShootEvent(shoot(t), v)
    BY <1>2 DEF ShootChanges, ShootEvent, Passes, shootPredicate, Watched
  <2>3. /\ \A step \in Steps(shoots'[s]) :
                step \in Steps(shoots[s]) \/ step = <<shoot(t), v>>
        /\ Entries(shoots'[s]) = Entries(shoots[s]) \cup (IF t = s THEN {v} ELSE {})
    BY <2>1 DEF Written, shoot
  <2>4. "relist" \in budget.kinds =>
            /\ shoot(t) # Absent /\ v # Absent
            /\ v.uid = shoot(t).uid /\ v.legacy = shoot(t).legacy
    BY <1>2 DEF ShootChanges, Watched, RelistsAreSpared, Spared
  <2>5. shoot(s) \in Entries(shoots[s])
    BY CurrentVersions
  <2>6. ChangesInv(s)'
    BY <1>0, <2>1, <2>2, <2>3, <2>4, <2>5 DEF SettledInv, ChangesInv
  <2>7. Shown(s)' = Shown(s) /\ (Exhausted' <=> Exhausted)
    BY <1>0, <2>1 DEF Shown, configMap, Exhausted, cQuota
  <2>8. QED
    BY <1>1, <2>6, <2>7
<1>3. ASSUME NEW t \in Shoots, NEW v \in StateVersions, StateChanges(t, v)
      PROVE  SettledInv(s)'
  <2>1. Written(shootStates, t, v, shootStates') /\ UNCHANGED <<shoots, configMaps, quotas>>
    BY <1>3, ObjectsAreWritten DEF StateChanges, WriteShootState
  <2>2. v # Unparsable
    BY <1>3 DEF StateChanges, Watched
  <2>3. Entries(shootStates'[s]) \subseteq Entries(shootStates[s]) \cup {v}
    BY <2>1 DEF Written
  <2>4. ChangesInv(s)'
    BY <1>0, <2>1, <2>2, <2>3 DEF SettledInv, ChangesInv
  <2>5. Shown(s)' = Shown(s) /\ (Exhausted' <=> Exhausted)
    BY <1>0, <2>1 DEF Shown, configMap, Exhausted, cQuota
  <2>6. QED
    BY <1>1, <2>4, <2>5
<1>4. ASSUME NEW t \in Shoots, NEW v \in ConfigMapVersions, ConfigMapChanges(t, v)
      PROVE  SettledInv(s)'
  <2>1. Written(configMaps, t, v, configMaps') /\ UNCHANGED <<shoots, shootStates, quotas>>
    BY <1>4, ObjectsAreWritten DEF ConfigMapChanges, StoreConfigMap
  <2>2. ChangesInv(s)' /\ (Exhausted' <=> Exhausted)
    BY <1>0, <2>1 DEF SettledInv, ChangesInv, Exhausted, cQuota
  <2>3. ASSUME "relist" \in budget.kinds, CanRenderKnown(s)
        PROVE  t # s
    <3>1. Garbage(t)
      BY <1>4, <2>3 DEF ConfigMapChanges, Watched, RelistsAreSpared, Spared
    <3>2. shoot(s) # Absent
      <4>1. cShoot(s) # Absent /\ {cShoot(s), shoot(s)} \subseteq Entries(shoots[s])
        BY <2>3, CurrentVersions DEF CanRenderKnown, CanRender
      <4>2. QED
        BY <2>3, <4>1 DEF SettledInv, ChangesInv
    <3>3. ~Garbage(s)
      <4>1. KeptInv(s) /\ shoot(s) \in Entries(shoots[s])
              /\ configMap(s) \in Entries(configMaps[s])
        BY <2>3, CurrentVersions DEF Watched, RelistsAreSpared
      <4>2. QED
        BY <3>2, <4>1 DEF KeptInv, Garbage
    <3>4. QED
      BY <3>1, <3>3
  <2>4. CanRenderKnown(s) => Shown(s) \subseteq Shown(s)'
    BY <1>0, <2>1, <2>3 DEF Shown, Written, configMap
  <2>5. QED
    BY <1>1, <2>2, <2>4
<1>5. CASE QuotaChanges
  <2>1. Known(quotas') = Known(quotas) /\ UNCHANGED <<shoots, shootStates, configMaps>>
    BY <1>5, QuotaLogGrows DEF QuotaChanges, CacheTypeOK, QuotaVersions
  <2>2. QED
    BY <1>0, <1>1, <2>1 DEF SettledInv, ChangesInv, Exhausted, cQuota, Shown, configMap
<1>6. QED
    BY <1>2, <1>3, <1>4, <1>5 DEF EnvironmentEffect

(* What an informer shows anew *)
LEMMA SettledByDelivery ==
    ASSUME LoopTypeOK, CacheTypeOK, Deliver, Watched, NEW s \in Shoots, OwnInv(s),
           SettledInv(s)
    PROVE  SettledInv(s)'
<1>1. /\ UNCHANGED <<pc, local, timer, phase, outcome>> /\ dirty \subseteq dirty'
      /\ budget'.kinds = budget.kinds
    BY DeliverEvents, DeliverEffect DEF handler, Spends
<1>2. /\ Queued(s) => Queued(s)'
      /\ Attended(s) => Attended(s)'
      /\ Queued(s)' => Attended(s)'
      /\ UNCHANGED Postponed(s)
    BY <1>1 DEF Queued, Attended, Postponed, Ends
<1>3. ChangesInv(s)'
    BY <1>1, DeliverEffect DEF SettledInv, ChangesInv
<1>4. cShoot(s)' = cShoot(s) \/ Queued(s)'
  <2>1. CASE shoots'[s] = shoots[s]
    BY <2>1 DEF cShoot
  <2>2. CASE Reported(shoots[s], shoots'[s]) /\ (ShootEvent(cShoot(s), cShoot(s)') => s \in dirty')
    <3>1. CASE <<cShoot(s), cShoot(s)'>> \in Steps(shoots[s])
      BY <2>2, <3>1 DEF SettledInv, ChangesInv, Queued
    <3>2. CASE "relist" \in budget.kinds
      <4>1. /\ {cShoot(s), cShoot(s)'} \subseteq Entries(shoots[s])
            /\ {cShoot(s), cShoot(s)'} \subseteq ShootVersions
        <5>1. cShoot(s)' \in Entries(shoots'[s]) /\ cShoot(s)' \in ShootVersions
          BY DeliverTyped, LogIsNonempty DEF cShoot, CacheTypeOK, ShootVersions
        <5>2. QED
          BY <5>1, CurrentVersions, DeliverEffect
      <4>2. CASE cShoot(s) = Absent \/ cShoot(s)' = Absent
        BY <3>2, <4>1, <4>2 DEF SettledInv, ChangesInv
      <4>3. CASE cShoot(s) # Absent /\ cShoot(s)' # Absent
        <5>1. cShoot(s).uid = cShoot(s)'.uid /\ cShoot(s).legacy = cShoot(s)'.legacy
          BY <3>2, <4>1, <4>3 DEF SettledInv, ChangesInv
        <5>2. cShoot(s).addresses = cShoot(s)'.addresses => cShoot(s) = cShoot(s)'
          BY <4>1, <4>3, <5>1 DEF ShootVersions, ShootObjects
        <5>3. QED
          BY <2>2, <4>3, <5>2 DEF ShootEvent, Passes, shootPredicate, Queued
      <4>4. QED
        BY <4>2, <4>3
    <3>3. QED
      BY <2>2, <3>1, <3>2 DEF Reported, cShoot
  <2>3. QED
    BY <2>1, <2>2, DeliverEvents
<1>5. \/ cShootState(s)' = cShootState(s) \/ Queued(s)'
      \/ cShootState(s) # Absent /\ cShootState(s)' = NotProvisioned
  <2>1. CASE shootStates'[s] = shootStates[s]
    BY <2>1 DEF cShootState
  <2>2. CASE /\ Reported(shootStates[s], shootStates'[s])
             /\ StateEvent(cShootState(s), cShootState(s)') => s \in dirty'
    <3>2. cShootState(s) # Unparsable /\ cShootState(s)' # Unparsable
      <4>1. cShootState(s) \in Entries(shootStates[s])
        BY CurrentVersions
      <4>2. cShootState(s)' \in Entries(shootStates'[s])
        BY DeliverTyped, LogIsNonempty DEF cShootState, CacheTypeOK
      <4>3. QED
        BY <1>3, <4>1, <4>2 DEF SettledInv, ChangesInv
    <3>4. QED
      BY <2>2, <3>2 DEF StateEvent, Passes, shootStatePredicate, Queued
  <2>3. QED
    BY <2>1, <2>2, DeliverEvents
<1>6. /\ cConfigMap(s) = Absent => cConfigMap(s)' = Absent \/ Queued(s)'
      /\ \A v \in Shown(s) : Match(s, v) => Queued(s)' \/ \E w \in Shown(s)' : Match(s, w)
  <2>1. CASE configMaps'[s] = configMaps[s]
    BY <1>1, <2>1 DEF cConfigMap, configMap, Shown
  <2>2. CASE /\ Reported(configMaps[s], configMaps'[s])
             /\ ConfigMapEvent(cConfigMap(s), cConfigMap(s)') => s \in dirty'
    <3>1. /\ \A v \in Shown(s) : v \in Shown(s)' \/ v = cConfigMap(s)
          /\ cConfigMap(s)' \in Shown(s)'
      <4>1. configMap(s)' = configMap(s) /\ cConfigMap(s)' \in Entries(configMaps'[s])
        BY DeliverEffect, DeliverTyped, LogIsNonempty DEF cConfigMap, CacheTypeOK
      <4>2. QED
        BY <1>1, <2>2, <4>1 DEF Reported, cConfigMap, Shown
    <3>2. cConfigMap(s)' \in Entries(configMaps'[s]) /\ cConfigMap(s)' \in ConfigMapVersions
      BY DeliverTyped, LogIsNonempty DEF cConfigMap, CacheTypeOK, ConfigMapVersions
    <3>3. /\ cConfigMap(s)' # Absent => cConfigMap(s)'.owner # NoOwner
          /\ cConfigMap(s) # Absent => cConfigMap(s).owner # NoOwner
      BY <3>2, CurrentVersions, DeliverEffect DEF OwnInv, Watched
    <3>4. cConfigMap(s) = Absent /\ cConfigMap(s)' # Absent => s \in dirty'
      BY <2>2, <3>3 DEF ConfigMapEvent, Passes, HasOwner
    <3>5. ASSUME Match(s, cConfigMap(s)), s \notin dirty'
          PROVE  Match(s, cConfigMap(s)')
      <4>1. cConfigMap(s)' # Absent
        BY <2>2, <3>3, <3>5 DEF ConfigMapEvent, Passes, HasOwner, Match
      <4>2. /\ cConfigMap(s)'.role = cConfigMap(s).role
            /\ cConfigMap(s)'.data = cConfigMap(s).data
        BY <2>2, <3>3, <3>5, <4>1
           DEF ConfigMapEvent, Passes, HasOwner, Match, configMapPredicate
      <4>3. QED
        BY <3>5, <4>1, <4>2 DEF Match
    <3>6. QED
      BY <3>1, <3>2, <3>4, <3>5 DEF Queued
  <2>3. QED
    BY <2>1, <2>2, DeliverEvents
<1>7. UpToDate(s)'
  <2>1. CASE Queued(s) \/ Queued(s)'
    BY <1>2, <2>1 DEF UpToDate
  <2>2. CASE ~Queued(s) /\ ~Queued(s)' /\ cShootState(s)' = cShootState(s)
    BY <1>1, <1>4, <1>6, <2>2 DEF SettledInv, UpToDate, CanRenderKnown, Gone
  <2>3. CASE /\ ~Queued(s) /\ ~Queued(s)'
             /\ cShootState(s) # Absent /\ cShootState(s)' = NotProvisioned
    BY <1>1, <1>4, <1>6, <2>3 DEF SettledInv, UpToDate, CanRenderKnown, CanRender, Gone
  <2>4. QED
    BY <1>5, <2>1, <2>2, <2>3
<1>8. CaredFor(s)'
  <2>1. CASE Queued(s)' \/ Attended(s) \/ cShootState(s)' = NotProvisioned
    <3>1. cShootState(s)' = NotProvisioned => ~CanRenderKnown(s)'
      BY ObjectAssumption DEF CanRenderKnown, CanRender
    <3>2. Queued(s)' \/ Attended(s) => Attended(s)'
      BY <1>2
    <3>3. QED
      BY <2>1, <3>1, <3>2 DEF CaredFor
  <2>2. CASE /\ ~Queued(s)' /\ ~Attended(s)
             /\ cShoot(s)' = cShoot(s) /\ cShootState(s)' = cShootState(s)
    <3>1. UNCHANGED <<CanRenderKnown(s), Prompt>> /\ \A v : Match(s, v)' <=> Match(s, v)
      BY <1>1, <2>2 DEF CanRenderKnown, Match, Prompt
    <3>2. /\ CanRenderKnown(s) /\ cConfigMap(s) = Absent /\ Prompt /\ Exhausted
                => Exhausted'
      BY <2>2, QuotaEvents DEF Queued
    <3>3. QED
      BY <1>1, <1>2, <1>6, <2>2, <3>1, <3>2 DEF SettledInv, CaredFor
  <2>3. QED
    BY <1>4, <1>5, <2>1, <2>2
<1>9. QED
    BY <1>3, <1>7, <1>8 DEF SettledInv

(***************************************************************************)
(* the handler keeps it so: it acts on what the caches say or tries again  *)
(* soon,                                                                   *)
(***************************************************************************)
LEMMA SettledByHandler ==
    ASSUME LoopTypeOK, CacheTypeOK, HandlerTypeOK, NEW t \in Shoots,
           handleRequest(t) \/ CallFails(t), NEW s \in Shoots, SettledInv(s)
    PROVE  SettledInv(s)'
<1>1. /\ UNCHANGED <<cShoot(s), cShootState(s), cConfigMap(s)>> /\ (Queued(s)' <=> Queued(s))
      /\ UNCHANGED <<shoots, shootStates, cQuota>> /\ budget'.kinds = budget.kinds
    BY HandlerShows, HandlerWrites, QueueOfHandler DEF cQuota, Spends
<1>2. /\ UNCHANGED <<ChangesInv(s), CanRenderKnown(s), Gone(s), Exhausted, Prompt>>
      /\ \A v : Match(s, v)' <=> Match(s, v)
    BY <1>1 DEF ChangesInv, CanRenderKnown, Gone, Exhausted, Prompt, Match
<1>3. \/ configMaps' = configMaps
      \/ pc[t] \in Rendering /\ Written(configMaps, t, local[t].desired, configMaps')
      \/ pc[t] = "delete" /\ Written(configMaps, t, Absent, configMaps')
  <2>1. local[t].desired \in ConfigMapVersions /\ Absent \in ConfigMapVersions
    BY DEF HandlerTypeOK, ConfigMapVersions
  <2>2. QED
    BY <2>1, HandlerWrites, ObjectsAreWritten DEF Rendering
<1>4. /\ s # t \/ configMaps' = configMaps => Shown(s) \subseteq Shown(s)'
      /\ cConfigMap(s) \in Shown(s)'
  <2>1. Entries(configMaps[s]) \subseteq Entries(configMaps'[s])
    BY <1>3 DEF Written
  <2>2. s # t \/ configMaps' = configMaps => configMap(s)' = configMap(s)
    BY HandlerShows DEF configMap
  <2>3. cConfigMap(s) \in Entries(configMaps[s])
    BY CurrentVersions
  <2>4. QED
    BY <1>1, <2>1, <2>2, <2>3 DEF Shown
<1>5. CASE s # t
  <2>1. /\ Attended(s)' <=> Attended(s)
        /\ Postponed(s)' <=> Postponed(s)
        /\ pc'[s] = pc[s] /\ local'[s] = local[s]
    BY <1>5, QueueOfHandler
  <2>2. UpToDate(s)' /\ CaredFor(s)'
    BY <1>1, <1>2, <1>4, <1>5, <2>1 DEF SettledInv, UpToDate, CaredFor
  <2>3. QED
    BY <1>2, <2>2 DEF SettledInv
<1>6. CASE s = t
  <2>1. UpToDate(s)'
    <3>1. SUFFICES ASSUME ~Queued(s) PROVE UpToDate(s)'
      BY <1>1 DEF UpToDate
    <3>2. HandlerTypeOK'
      BY HandlerTyped
    <3>3. pc'[s] \in Reading => local'[s].shoot = cShoot(s)
      BY <1>6, <3>1, <3>2, HandlerFlow, HandlerReads
         DEF SettledInv, UpToDate, Reading, HandlerTypeOK
    <3>4. pc'[s] \in Rendering =>
            \/ CanRenderKnown(s) /\ local'[s].desired = Rendered(cShoot(s), cShootState(s))
            \/ cShoot(s) # Absent /\ cShootState(s) = NotProvisioned
      BY <1>6, <3>1, <3>2, HandlerFlow, HandlerReads
         DEF SettledInv, UpToDate, Reading, Rendering, HandlerTypeOK, CanRenderKnown
    <3>5. /\ pc'[s] = "listQuotas" => cConfigMap(s) = Absent
          /\ pc'[s] = "delete" => Gone(s)
      BY <1>6, HandlerFlow DEF Gone
    <3>6. QED
      BY <1>1, <1>2, <3>3, <3>4, <3>5 DEF UpToDate
  <2>2. CaredFor(s)'
    <3>1. SUFFICES ASSUME CanRenderKnown(s), pc'[s] = "none", ~Attended(s)'
                   PROVE  \/ \E v \in Shown(s)' : Match(s, v)
                          \/ /\ cConfigMap(s) = Absent /\ Postponed(s)'
                             /\ Prompt => Exhausted
      BY <1>1, <1>2 DEF CaredFor
    <3>2. ~Queued(s) /\ ~Ends(s, "soon")'
      BY <1>1, <3>1 DEF Attended
    <3>3. /\ pc[s] \in Reading => local[s].shoot = cShoot(s)
          /\ pc[s] = "listQuotas" => cConfigMap(s) = Absent
          /\ pc[s] \in Rendering => local[s].desired = Rendered(cShoot(s), cShootState(s))
          /\ pc[s] # "delete"
      <4>1. ~Gone(s) /\ NotProvisioned \notin CaCerts
        BY <3>1, ObjectAssumption DEF Gone, CanRenderKnown, CanRender, CaStates
      <4>2. QED
        BY <3>1, <3>2, <4>1 DEF SettledInv, UpToDate, CanRenderKnown, CanRender
    <3>4. pc[s] \in Rendering => Match(s, local[s].desired)
      <4>1. pc[s] \in Rendering => local[s].desired # Absent
        BY DEF HandlerTypeOK, Rendering
      <4>2. Rendered(cShoot(s), cShootState(s)).role
        BY DEF Rendered
      <4>3. QED
        BY <3>3, <4>1, <4>2 DEF Match
    <3>5. CASE pc[s] = "listQuotas"
      BY <1>6, <3>1, <3>2, <3>3, <3>5, HandlerFlow, RefusalIsExhaustion DEF Postponed
    <3>6. CASE pc[s] = "getShootState"
      BY <1>6, <3>1, <3>2, <3>3, <3>6, HandlerFlow DEF Reading, CanRenderKnown, CanRender
    <3>7. CASE pc[s] = "createOrUpdate"
      <4>1. cConfigMap(s) = local[s].desired
        BY <1>6, <3>1, <3>2, <3>7, HandlerFlow
      <4>2. QED
        BY <1>4, <3>4, <3>7, <4>1 DEF Rendering
    <3>8. CASE pc[s] \in {"create", "update"}
      <4>1. configMaps' = Write(configMaps, s, local[s].desired)
        BY <1>6, <3>1, <3>2, <3>8, HandlerFlow
      <4>2. Written(configMaps, s, local[s].desired, configMaps')
        BY <4>1, ObjectsAreWritten DEF HandlerTypeOK, ConfigMapVersions
      <4>3. QED
        BY <3>4, <3>8, <4>1, <4>2 DEF Written, Rendering, Shown, configMap
    <3>9. QED
      BY <1>6, <3>1, <3>2, <3>3, <3>5, <3>6, <3>7, <3>8, HandlerFlow
  <2>3. QED
    BY <1>2, <2>1, <2>2 DEF SettledInv
<1>7. QED
    BY <1>5, <1>6

(* so every step does. *)
LEMMA SettledStep ==
    ASSUME TypeOK, [Next]_vars, Watched, NEW s \in Shoots, OwnInv(s), SettledInv(s),
           Spared => KeptInv(s)
    PROVE  SettledInv(s)'
<1>0. LoopTypeOK /\ CacheTypeOK /\ HandlerTypeOK
    BY DEF TypeOK
<1>1. CASE World(Environment) \/ World(Housekeeping)
    BY <1>0, <1>1, EnvironmentStep, SettledByEnvironment
<1>2. CASE Deliver
    BY <1>0, <1>2, SettledByDelivery
<1>3. CASE ProcessRestarts
  <2>1. /\ Steps(shoots'[s]) = {} /\ Steps(shootStates'[s]) = {}
        /\ Entries(shootStates'[s]) = {shootState(s)} /\ Entries(shoots'[s]) = {shoot(s)}
        /\ cShoot(s)' = shoot(s) /\ pc'[s] = "none"
    BY <1>0, <1>3, CurrentVersions, LogStarts, StepsStart DEF ProcessRestarts, cShoot
  <2>2. shoot(s) # Absent => s \in dirty'
    BY <1>3 DEF ProcessRestarts, Restart
  <2>3. ChangesInv(s)'
    BY <1>0, <2>1, CurrentVersions DEF ChangesInv, SettledInv
  <2>4. UpToDate(s)'
    BY <2>1 DEF UpToDate, Reading, Rendering
  <2>5. CaredFor(s)'
    BY <2>1, <2>2 DEF CaredFor, CanRenderKnown, CanRender, Attended, Queued
  <2>6. QED
    BY <2>3, <2>4, <2>5 DEF SettledInv
<1>4. CASE \E t \in Shoots : handleRequest(t) \/ CallFails(t)
    BY <1>0, <1>4, SettledByHandler
<1>5. CASE \E t \in Shoots : Start(t) \/ Finish(t) \/ Outside(Take(t)) \/ Outside(TimerFires(t))
  <2>1. /\ UNCHANGED <<clusterVars, local>>
        /\ pc'[s] = pc[s] \/ pc'[s] = "getShoot"
        /\ pc'[s] # "none" => (Queued(s) => Queued(s)')
        /\ Attended(s) => Attended(s)' \/ pc'[s] = "getShoot"
        /\ Postponed(s) => Postponed(s)' \/ Attended(s)'
    BY <1>0, <1>5, QueueOfLoop
  <2>2. /\ UNCHANGED <<shoots, shootStates, configMaps, Exhausted, Prompt, Gone(s),
                       ChangesInv(s), CanRenderKnown(s), cShoot(s), cShootState(s),
                       cConfigMap(s), Shown(s)>>
        /\ \A v : Match(s, v)' <=> Match(s, v)
    BY <2>1 DEF clusterVars, objects, Exhausted, Prompt, Gone, ChangesInv, CanRenderKnown,
                CanRender, cShoot, cShootState, cConfigMap, configMap, cQuota, Match, Shown
  <2>3. UpToDate(s)'
    BY <2>1, <2>2 DEF SettledInv, UpToDate, Reading, Rendering
  <2>4. CaredFor(s)'
    BY <2>1, <2>2 DEF SettledInv, CaredFor
  <2>5. QED
    BY <2>2, <2>3, <2>4 DEF SettledInv
<1>6. CASE UNCHANGED vars
    BY <1>6 DEF vars, clusterVars, objects, handler, loopVars, SettledInv, ChangesInv, UpToDate,
                CaredFor, CanRenderKnown, Gone, Queued, Attended, Postponed, Ends, Match,
                Exhausted, Prompt, cShoot, cShootState, cConfigMap, configMap, cQuota, Shown
<1>7. QED
    BY <1>1, <1>2, <1>3, <1>4, <1>5, <1>6 DEF Next

(* At first every shoot has what the caches call for. *)
LEMMA SettledInit == Init => \A s \in Shoots : SettledInv(s)
<1> SUFFICES ASSUME Init, NEW s \in Shoots PROVE SettledInv(s)
    OBVIOUS
<1>1. CacheTypeOK /\ Unparsable \notin CaCerts \cup {Absent}
    BY ControllerTypeInit, ObjectAssumption DEF CaStates
<1>2. ChangesInv(s)
    BY <1>1, InitIsSettled DEF ChangesInv
<1>3. UpToDate(s)
    BY InitIsSettled DEF UpToDate, Reading, Rendering
<1>4. CaredFor(s)
  <2>1. ASSUME NEW sh \in ShootObjects, NEW ca \in CaCerts, CanRender(sh, ca),
               Entries(shoots[s]) = {sh}, Entries(shootStates[s]) = {ca},
               Entries(configMaps[s]) = {Rendered(sh, ca)}
        PROVE  CaredFor(s)
    <3>1. cShoot(s) = sh /\ cShootState(s) = ca
      BY <1>1, <2>1, CurrentVersions
    <3>2. Rendered(sh, ca) # Absent /\ Rendered(sh, ca).role
      BY <2>1, RenderedTyped DEF CanRender, Rendered
    <3>3. QED
      BY <1>1, <2>1, <3>1, <3>2, CurrentVersions DEF CaredFor, Match, Shown
  <2>2. CASE Entries(shoots[s]) = {Absent}
    BY <1>1, <2>2, CurrentVersions DEF CaredFor, CanRenderKnown, CanRender
  <2>3. QED
    BY <2>1, <2>2, InitIsSettled
<1>5. QED
    BY <1>2, <1>3, <1>4 DEF SettledInv

(* At rest, what is cared for is as it should be *)
LEMMA RestIsGoal ==
    ASSUME TypeOK, Quiet, Watched, NEW s \in Shoots, OwnInv(s), GoneInv(s), SettledInv(s),
           NEW timers \in SUBSET {"never", "later"}, Resting(s, timers),
           timers = {"never"} \/ Prompt
    PROVE  Goal(s)
<1>1. /\ cShoot(s) = shoot(s) /\ cShootState(s) = shootState(s)
      /\ cConfigMap(s) = configMap(s) /\ cQuota = quota
      /\ Entries(configMaps[s]) = {configMap(s)}
    BY QuietIsKnown DEF TypeOK
<1>2. ~Attended(s) /\ pc[s] = "none"
    BY RestingIsAlone DEF Resting, TypeOK
<1>3. shoot(s) = Absent \/ shootState(s) = Absent => configMap(s) = Absent
    BY GoneAtRest DEF Resting
<1>4. ASSUME Renderable(s), configMap(s) # Absent \/ Room
      PROVE  configMap(s) = Rendered(shoot(s), shootState(s))
  <2>1. CASE Match(s, configMap(s))
    <3>1. /\ configMap(s) \in ConfigMapObjects
          /\ configMap(s).owner # NoOwner
      BY <1>1, <2>1, CurrentVersions DEF Match, OwnInv, Watched, TypeOK, ConfigMapVersions
    <3>2. configMap(s).owner = shoot(s).uid
      BY <2>1, <3>1 DEF Quiet, Garbage, Match
    <3>3. /\ configMap(s).role = TRUE
          /\ configMap(s).data = Rendered(shoot(s), shootState(s)).data
      BY <1>1, <2>1, <3>1 DEF Match, ConfigMapObjects
    <3>4. configMap(s) = [owner |-> configMap(s).owner, role |-> configMap(s).role,
                          data |-> configMap(s).data]
      BY <3>1 DEF ConfigMapObjects
    <3>5. QED
      BY <3>2, <3>3, <3>4 DEF Rendered
  <2>2. CASE cConfigMap(s) = Absent /\ Postponed(s) /\ (Prompt => Exhausted)
    <3>1. Prompt
      BY <2>2 DEF Postponed, Ends, Resting
    <3>2. ~Room
      BY <1>1, <2>2, <3>1 DEF Exhausted, Room
    <3>3. QED
      BY <1>1, <1>4, <2>2, <3>2
  <2>3. QED
    BY <1>1, <1>2, <1>4, <2>1, <2>2
       DEF SettledInv, CaredFor, CanRenderKnown, Renderable, Shown
<1>5. QED
    BY <1>3, <1>4 DEF Goal

(***************************************************************************)
(* The three invariants hold throughout: how each request that is          *)
(* coalesced, delayed or filtered is made up for.                          *)
(***************************************************************************)
THEOREM SettledInvHolds ==
    Spec => [](Watched => \A s \in Shoots : OwnInv(s) /\ GoneInv(s) /\ SettledInv(s))
<1> DEFINE Own == \A s \in Shoots : OwnInv(s)
           Kept == Spared => \A s \in Shoots : KeptInv(s)
           Inv == Watched => \A s \in Shoots : GoneInv(s) /\ SettledInv(s)
<1>1. Init => Own
    BY OwnInit
<1>2. Init => Inv
    BY GoneInit, SettledInit
<1>3. TypeOK /\ Own /\ [Next]_vars => Own'
    BY OwnStep
<1>4. TypeOK /\ Own /\ Kept /\ Inv /\ [Next]_vars => Inv'
  <2> SUFFICES ASSUME TypeOK, Own, Kept, Inv, [Next]_vars, Watched' PROVE Inv'
    OBVIOUS
  <2>1. Watched /\ Owned
    BY BudgetShrinks DEF Watched, RelistsAreSpared, Spared, Owned, Spends, TypeOK
  <2>2. QED
    BY <2>1, GoneStep, SettledStep
<1>5. Own /\ Inv => (Watched => \A s \in Shoots : OwnInv(s) /\ GoneInv(s) /\ SettledInv(s))
    OBVIOUS
<1>6. QED
    BY <1>1, <1>2, <1>3, <1>4, <1>5, ControllerIsTyped, KeptInvHolds, PTL DEF Spec

(***************************************************************************)
(* The controller does not come to rest on a shoot before its goal is      *)
(* reached: with all caches up to date, a shoot that is neither queued,    *)
(* nor running, nor on a timer has the kubeconfig of its uid, addresses    *)
(* and CA, or none if it is gone.                                          *)
(***************************************************************************)
THEOREM ShootsSettle == Spec => [](Watched => SettledIsGoal)
<1>1. TypeOK /\ (Watched => \A s \in Shoots : OwnInv(s) /\ GoneInv(s) /\ SettledInv(s))
        => (Watched => SettledIsGoal)
    BY RestIsGoal DEF SettledIsGoal
<1>2. QED
    BY <1>1, SettledInvHolds, ControllerIsTyped, PTL

(***************************************************************************)
(* Nothing is left to the retries after 60 minutes and 24 hours either: a  *)
(* shoot that waits for addresses, for its CA or for quota is woken by the *)
(* event of the change it waits for, watches that break included, provided *)
(* the metadata informers have listed by then.                             *)
(***************************************************************************)
THEOREM ShootsSettlePromptly ==
    Spec => [](RelistsAreSpared /\ Prompt => PromptlySettled)
<1>1. TypeOK /\ (Watched => \A s \in Shoots : OwnInv(s) /\ GoneInv(s) /\ SettledInv(s))
        => (RelistsAreSpared /\ Prompt => PromptlySettled)
    BY RestIsGoal DEF PromptlySettled, Watched
<1>2. QED
    BY <1>1, SettledInvHolds, ControllerIsTyped, PTL
=============================================================================
