--------------------------- MODULE GardenCluster ---------------------------
(***************************************************************************)
(* The garden cluster as the API server stores it, and everybody who       *)
(* changes it besides the shoot controller: gardener (Shoots, ShootStates),*)
(* operators (configMaps, quotas), the garbage collector and the quota     *)
(* controller.  External to the repository: modelled from how              *)
(* controllers/shoot_controller.go and its tests use it.                   *)
(*                                                                         *)
(* All shoots live in one project namespace.  The configMap of shoot s is  *)
(* <s>.kubeconfig.                                                         *)
(***************************************************************************)
EXTENDS Integers, FiniteSets, Sequences, Quota

CONSTANTS
    Shoots,
    Absent,          \* stands for an object that does not exist
    Foreign,         \* a data.kubeconfig the controller did not render
    Addresses,       \* values of a non-empty status.advertisedAddresses
    CaCerts,         \* valid certificates of a cluster
    HardLimits,      \* limits a quota may set
    MaxOthers,       \* bound: other configMaps of the namespace
    Scenarios,       \* what this instance lets happen: see Scenario
    MaxBacklog       \* bound: versions the cache lags behind when garbage is
                     \* collected or a quota recounted

NoAddresses == "no addresses"
NoOwner == 0                \* uids of shoots count from 1
NotProvisioned == "not provisioned"     \* no "ca" among the gardener resources
Unparsable == "unparsable"              \* its raw data is not the expected JSON
Invalid == "invalid"                    \* not a valid certificate

(***************************************************************************)
(* A scenario names the kinds of change that happen in a behaviour and     *)
(* bounds how many of them there are, and how many faults beside them:     *)
(* calls that fail, answers that get lost and restarts, with "relist" also *)
(* watches that break, with "listing" lists that fail in event handlers.   *)
(***************************************************************************)
Scenario == [kinds : SUBSET {"lifecycle", "addresses", "upgrade", "ca", "damage", "edit",
                             "disown", "remove", "quota", "others", "relist", "listing"},
             changes : Nat, faults : Nat]

ASSUME ScenarioAssumption == Scenarios \subseteq Scenario

(* The objects of the namespace, as far as the controller depends on them. *)
ShootObjects ==
    [uid : Nat, addresses : Addresses \cup {NoAddresses}, legacy : BOOLEAN]

CaStates == CaCerts \cup {NotProvisioned, Unparsable, Invalid}

ConfigMapObjects ==
    [owner : Nat, role : BOOLEAN,
     data : {Foreign} \cup [addresses : Addresses, ca : CaCerts, legacy : BOOLEAN]]

(* Resource lists of a quota that has no status yet, or has one. *)
Amounts == {<< >>} \cup [{CountConfigMaps} -> Nat]
QuotaObjects == [spec : {{CountConfigMaps}}, hard : Amounts, used : Amounts]

(* No value is taken for another one. *)
ASSUME ObjectAssumption ==
    /\ Absent \notin ShootObjects \cup CaStates \cup ConfigMapObjects \cup QuotaObjects
    /\ NoAddresses \notin Addresses
    /\ {NotProvisioned, Unparsable, Invalid} \cap CaCerts = {}
    /\ HardLimits \subseteq Nat

(***************************************************************************)
(* The objects the controller watches are kept with their history: a log   *)
(* begins with the version the controller's cache holds, ends with the     *)
(* stored version, and has between them the versions whose watch events    *)
(* are under way.                                                          *)
(***************************************************************************)
VARIABLES
    shoots,        \* [Shoots -> logs of Absent or [uid, addresses, legacy]]
    shootStates,   \* [Shoots -> logs of Absent or CaStates]
    configMaps,    \* [Shoots -> logs of Absent or [owner, role, data]]
    quotas,        \* log of Absent or a quota object on count/configmaps
    others,        \* number of other configMaps in the namespace
    created,       \* how many shoots of a name were created: the last uid
    current,       \* whose configMap the handler holds in its stored version
    budget         \* the scenario of this behaviour, with what is left of it

objects == <<shoots, shootStates, configMaps, quotas, others, created, current>>
clusterVars == <<objects, budget>>

Stored(log) == log[Len(log)]
Known(log) == Head(log)          \* what the controller's cache shows
Write(logs, s, v) == [logs EXCEPT ![s] = Append(@, v)]

shoot(s) == Stored(shoots[s])
shootState(s) == Stored(shootStates[s])
configMap(s) == Stored(configMaps[s])
quota == Stored(quotas)

-----------------------------------------------------------------------------
(* The kubeconfig that belongs to a shoot with the given cluster CA. *)
Rendered(sh, ca) ==
    [owner |-> sh.uid, role |-> TRUE,
     data  |-> [addresses |-> sh.addresses, ca |-> ca, legacy |-> sh.legacy]]

ConfigMapCount == Cardinality({s \in Shoots : configMap(s) # Absent}) + others

QuotaObject(hard, used) == [spec |-> {CountConfigMaps}, hard |-> hard, used |-> used]
Amount(n) == [r \in {CountConfigMaps} |-> n]

(* Quota admission charges the new object to the stored status at once. *)
Room == quota # Absent => Verdict(quota) = "sufficient"

ChargeQuota ==
    IF quota = Absent THEN UNCHANGED quotas
    ELSE quotas' = Append(quotas,
            QuotaObject(quota.hard, Amount(quota.used[CountConfigMaps] + 1)))

(* A write gives the configMap of s a resourceVersion nobody knows yet. *)
StoreConfigMap(s, cm) ==
    /\ configMaps' = Write(configMaps, s, cm)
    /\ current' = current \ {s}

(* Requests to the API server; each applies only if it is accepted. *)
ApiCreate(s, cm) ==
    /\ configMap(s) = Absent /\ Room
    /\ StoreConfigMap(s, cm)
    /\ ChargeQuota
    /\ UNCHANGED <<shoots, shootStates, others, created>>

ApiUpdate(s, cm) ==
    /\ configMap(s) # Absent
    /\ StoreConfigMap(s, cm)
    /\ UNCHANGED <<shoots, shootStates, quotas, others, created>>

ApiDelete(s) ==
    /\ configMap(s) # Absent
    /\ StoreConfigMap(s, Absent)
    /\ UNCHANGED <<shoots, shootStates, quotas, others, created>>

-----------------------------------------------------------------------------
(* Init: the namespace is at rest, each shoot settled or not yet created. *)
ClusterInit ==
    /\ \E S \in SUBSET Shoots, a \in Addresses, ca \in CaCerts, old \in BOOLEAN :
        LET sh == [uid |-> 1, addresses |-> a, legacy |-> old]
            For(v) == [s \in Shoots |-> <<IF s \in S THEN v ELSE Absent>>]
        IN  /\ shoots = For(sh)
            /\ shootStates = For(ca)
            /\ configMaps = For(Rendered(sh, ca))
            /\ created = [s \in Shoots |-> IF s \in S THEN 1 ELSE 0]
    /\ others = 0
    /\ \/ quotas = <<Absent>>
       \/ \E h \in HardLimits :
            /\ h >= ConfigMapCount
            /\ quotas = <<QuotaObject(Amount(h), Amount(ConfigMapCount))>>
    /\ current = {}
    /\ budget \in Scenarios

Change(kind) ==
    /\ kind \in budget.kinds
    /\ budget.changes > 0
    /\ budget' = [budget EXCEPT !.changes = @ - 1]

Fault ==
    /\ budget.faults > 0
    /\ budget' = [budget EXCEPT !.faults = @ - 1]

WriteShoot(s, v) ==
    /\ shoots' = Write(shoots, s, v)
    /\ UNCHANGED <<shootStates, configMaps, quotas, others, current>>

CreateShoot(s) ==
    /\ Change("lifecycle")
    /\ shoot(s) = Absent
    /\ created' = [created EXCEPT ![s] = @ + 1]
    /\ \E a \in Addresses \cup {NoAddresses} :
        WriteShoot(s, [uid |-> created'[s], addresses |-> a, legacy |-> FALSE])

DeleteShoot(s) ==
    /\ Change("lifecycle")
    /\ shoot(s) # Absent
    /\ WriteShoot(s, Absent)
    /\ UNCHANGED created

SetAddresses(s) ==
    /\ Change("addresses")
    /\ shoot(s) # Absent
    /\ \E a \in (Addresses \cup {NoAddresses}) \ {shoot(s).addresses} :
        WriteShoot(s, [shoot(s) EXCEPT !.addresses = a])
    /\ UNCHANGED created

(* spec.kubernetes.version crosses v1.20.0; gardener does not downgrade. *)
UpgradeKubernetes(s) ==
    /\ Change("upgrade")
    /\ shoot(s) # Absent /\ shoot(s).legacy
    /\ WriteShoot(s, [shoot(s) EXCEPT !.legacy = FALSE])
    /\ UNCHANGED created

WriteShootState(s, v) ==
    /\ shootStates' = Write(shootStates, s, v)
    /\ UNCHANGED <<shoots, configMaps, quotas, others, created, current>>

DeleteShootState(s) ==
    /\ Change("lifecycle")
    /\ shootState(s) # Absent
    /\ WriteShootState(s, Absent)

CreateShootState(s) ==
    /\ Change("lifecycle")
    /\ shootState(s) = Absent
    /\ \E ca \in CaCerts \cup {NotProvisioned} : WriteShootState(s, ca)

RotateCa(s) ==
    /\ Change("ca")
    /\ shootState(s) # Absent
    /\ \E ca \in (CaCerts \cup {NotProvisioned, Invalid}) \ {shootState(s)} :
        WriteShootState(s, ca)

(* The resource data of the ca is damaged; RotateCa repairs it. *)
DamageCa(s) ==
    /\ Change("damage")
    /\ shootState(s) \notin {Absent, Unparsable}
    /\ WriteShootState(s, Unparsable)

(* Somebody with the verb "manage" edits the kubeconfig or drops the role. *)
EditConfigMap(s) ==
    /\ Change("edit")
    /\ configMap(s) # Absent
    /\ \/ ApiUpdate(s, [configMap(s) EXCEPT !.data = Foreign])
       \/ ApiUpdate(s, [configMap(s) EXCEPT !.role = FALSE])

(* Somebody takes away the owner reference. *)
DisownConfigMap(s) ==
    /\ Change("disown")
    /\ configMap(s) # Absent /\ configMap(s).owner # NoOwner
    /\ ApiUpdate(s, [configMap(s) EXCEPT !.owner = NoOwner])

RemoveConfigMap(s) ==
    /\ Change("remove")
    /\ ApiDelete(s)

WriteQuota(q) ==
    /\ quotas' = Append(quotas, q)
    /\ UNCHANGED <<shoots, shootStates, configMaps, others, created, current>>

(* A new quota has no status until the quota controller has seen it. *)
CreateQuota ==
    /\ Change("quota")
    /\ quota = Absent
    /\ WriteQuota(QuotaObject(<<>>, <<>>))

SetHard ==
    /\ Change("quota")
    /\ quota # Absent
    /\ \E h \in HardLimits : WriteQuota(QuotaObject(Amount(h), Amount(ConfigMapCount)))

DeleteQuota ==
    /\ Change("quota")
    /\ quota # Absent
    /\ WriteQuota(Absent)

CreateOther ==
    /\ Change("others")
    /\ others < MaxOthers /\ Room
    /\ others' = others + 1
    /\ ChargeQuota
    /\ UNCHANGED <<shoots, shootStates, configMaps, created, current>>

DeleteOther ==
    /\ Change("others")
    /\ others > 0
    /\ others' = others - 1
    /\ UNCHANGED <<shoots, shootStates, configMaps, quotas, created, current>>

(***************************************************************************)
(* The garbage collector deletes a configMap whose owner is gone; a shoot  *)
(* of the same name with another uid is another owner.                     *)
(***************************************************************************)
Garbage(s) ==
    /\ configMap(s) # Absent
    /\ configMap(s).owner # NoOwner
    /\ ~(shoot(s) # Absent /\ shoot(s).uid = configMap(s).owner)

CollectGarbage(s) ==
    /\ Garbage(s)
    /\ Len(configMaps[s]) <= MaxBacklog
    /\ ApiDelete(s)

(* The quota controller recomputes the status. *)
QuotaSynced ==
    quota # Absent => quota.used = Amount(ConfigMapCount)

SyncQuota ==
    /\ ~QuotaSynced
    /\ Len(quotas) <= MaxBacklog
    /\ \E h \in HardLimits :
        /\ quota.hard \in {<<>>, Amount(h)}
        /\ WriteQuota(QuotaObject(Amount(h), Amount(ConfigMapCount)))

Environment ==
    \/ \E s \in Shoots :
        \/ CreateShoot(s) \/ DeleteShoot(s)
        \/ CreateShootState(s) \/ DeleteShootState(s)
        \/ SetAddresses(s) \/ UpgradeKubernetes(s)
        \/ RotateCa(s) \/ DamageCa(s)
        \/ EditConfigMap(s) \/ DisownConfigMap(s) \/ RemoveConfigMap(s)
    \/ CreateQuota \/ SetHard \/ DeleteQuota
    \/ CreateOther \/ DeleteOther

Housekeeping ==
    /\ SyncQuota \/ \E s \in Shoots : CollectGarbage(s)
    /\ UNCHANGED budget
=============================================================================
