------------------------------ MODULE Deployer ------------------------------
(***************************************************************************)
(* The landscaper container that deploys the controller manager: the       *)
(* operations Reconcile and Delete on one cluster, or on a runtime cluster *)
(* (the manager and its webhook server) and an application cluster (the    *)
(* webhook configuration and the service account the manager uses).        *)
(*                                                                         *)
(* A run keeps everything it knows in memory, and may fail or be killed    *)
(* between any two calls; only what it stored in the clusters is left for  *)
(* the next run.  The editing of the kustomize files is part of the run's  *)
(* memory: each run starts from a fresh copy.                              *)
(***************************************************************************)
EXTENDS Integers, Sequences, FiniteSets

CONSTANTS
    Absent,          \* stands for an object that does not exist
    Damaged,         \* data that cannot be decoded
    Foreign,         \* a private key that fits no certificate here
    Validity,        \* the lifetime of a generated certificate
    Serials,         \* serial numbers, enough to always have one not in use
    Disturbances,    \* what else happens: "request", "time", "secret", "key"
    MaxTime,         \* bound: the clock
    MaxChanges,      \* bound: requests, changes of the stored secret
    MaxFaults        \* bound: failed calls, timeouts, killed runs

ASSUME DeployerAssumption ==
    /\ Validity \in Nat \ {0}
    /\ MaxTime \in Nat

VARIABLES
    now,
    namespace,   \* per cluster "absent", "active" or "terminating"
    roles,       \* per cluster, the cluster roles and their bindings
    account,     \* the service account: Absent, "new", or "ready" with a token
    caBundle,    \* the certificate the webhook configuration trusts
    server,      \* the certificate and key the webhook server serves with
    kubeconfig,  \* whether the manager's token is still "valid" or "stale"
    secret,      \* the certificate and key stored for the next run
    MultiClusterDeploymentScenario,   \* part of the imports, fixed
    wanted,      \* the operation landscaper asks for
    pc, step, tls, token,   \* the memory of the run
    outcome,     \* what the last run finished, "none" from the next change on
    changes, faults

clusterState == <<namespace, roles, account, caBundle, server, kubeconfig, secret>>
imports == <<MultiClusterDeploymentScenario, wanted>>
run == <<pc, step, tls, token>>
vars == <<now, clusterState, imports, run, outcome, changes, faults>>

(* runtimeCluster() and applicationCluster() *)
RuntimeCluster ==
    IF MultiClusterDeploymentScenario THEN "runtime" ELSE "single"
ApplicationCluster ==
    IF MultiClusterDeploymentScenario THEN "application" ELSE "single"
AnyCluster == {"runtime", "application", "single"}
Clusters == {RuntimeCluster, ApplicationCluster}

Pair(cert, key) == [cert |-> cert, key |-> key]
Certificate(n, time) == [serial |-> n, issued |-> time]

-----------------------------------------------------------------------------
(* Mutant: the certificate is used until it expires. *)
CertificateNeedsRenewalLate(cert) ==
    LET elapsed == now - cert.issued IN elapsed \notin 0..Validity

(* util.CertificateNeedsRenewal with a threshold of 0.8. *)
CertificateNeedsRenewal(cert) ==
    LET elapsed == now - cert.issued
    IN  elapsed \notin 0..Validity \/ 10 * elapsed > 8 * Validity

Used == {p.key : p \in {secret, server, tls} \ {Absent}}
            \cup {c.serial : c \in {caBundle} \ {Absent}}
            \cup {c.serial : c \in {p.cert : p \in {secret, server, tls} \ {Absent}}
                                        \ {Damaged}}

NewSerial == CHOOSE n \in Serials : n \notin Used

GeneratedPair == Pair(Certificate(NewSerial, now), NewSerial)

(* The run ends; the next one starts from the clusters alone. *)
RunEnds(result) ==
    /\ pc' = "idle" /\ step' = 0 /\ tls' = Absent /\ token' = Absent
    /\ outcome' = result

Goto(next) == pc' = next /\ UNCHANGED <<step, outcome>>

FirstOverlay == IF MultiClusterDeploymentScenario THEN "application" ELSE "single"

(* A certificate the run need not replace. *)
Restorable ==
    secret # Absent /\ secret.cert # Damaged /\ ~CertificateNeedsRenewal(secret.cert)

(* Mutant: every run generates a certificate. *)
setTLSCertificateAlways ==
    /\ pc = "load"
    /\ tls' = GeneratedPair
    /\ Goto(FirstOverlay)
    /\ UNCHANGED <<now, clusterState, imports, token, changes, faults>>

(* Mutant: no certificate is generated where no secret is found. *)
setTLSCertificateNone ==
    /\ pc = "load"
    /\ tls' = IF Restorable \/ secret = Absent THEN secret ELSE GeneratedPair
    /\ Goto(FirstOverlay)
    /\ UNCHANGED <<now, clusterState, imports, token, changes, faults>>

(***************************************************************************)
(* loadOrGenerateTLSCertificate.  A certificate that is missing, cannot be *)
(* decoded or needs renewal is replaced; a private key that cannot be      *)
(* decoded ends the run.  Nobody looks whether the key is that of the      *)
(* certificate.                                                            *)
(***************************************************************************)
setTLSCertificate ==
    /\ pc = "load"
    /\ \/ Restorable /\ secret.key # Damaged /\ tls' = secret
          /\ Goto(FirstOverlay) /\ UNCHANGED token
       \/ Restorable /\ secret.key = Damaged /\ RunEnds("none")
       \/ ~Restorable /\ tls' = GeneratedPair
          /\ Goto(FirstOverlay) /\ UNCHANGED token
    /\ UNCHANGED <<now, clusterState, imports, changes, faults>>

-----------------------------------------------------------------------------
(* The objects of the overlays that the other parts depend on. *)
ApplicationObjects ==
    {"namespace", "account", "manager-role", "manager-rolebinding", "webhook"}
RuntimeObjects == {"namespace", "proxy-role", "proxy-rolebinding", "server"}

Overlay(c) ==
    (IF c = ApplicationCluster THEN ApplicationObjects ELSE {})
        \cup (IF c = RuntimeCluster THEN RuntimeObjects ELSE {})

Roles == {"manager-role", "manager-rolebinding", "proxy-role", "proxy-rolebinding"}

(* A terminating namespace takes no new objects. *)
Accepted(c) ==
    IF namespace[c] # "terminating" THEN Overlay(c)
    ELSE Overlay(c) \ ((IF account = Absent THEN {"account"} ELSE {})
                        \cup (IF <<server, kubeconfig>> # <<tls, token>>
                              THEN {"server"} ELSE {}))

(***************************************************************************)
(* Of the objects of an overlay those in S are applied, all the others     *)
(* failed; ApplyManifest goes on after an error and reports it at the end. *)
(***************************************************************************)
buildAndApplyOverlay(c, next) ==
    /\ pc = c
    /\ \E S \in SUBSET Accepted(c) :
        /\ namespace[c] = "absent" /\ "namespace" \notin S
                => S \cap {"account", "server"} = {}
        /\ IF S = Accepted(c) THEN UNCHANGED faults
           ELSE faults < MaxFaults /\ faults' = faults + 1
        /\ namespace' = [namespace EXCEPT ![c] =
                IF @ = "absent" /\ "namespace" \in S THEN "active" ELSE @]
        /\ roles' = [roles EXCEPT ![c] = @ \cup (S \cap Roles)]
        /\ account' = IF "account" \in S /\ account = Absent THEN "new" ELSE account
        /\ caBundle' = IF "webhook" \in S THEN tls.cert ELSE caBundle
        /\ server' = IF "server" \in S THEN tls ELSE server
        /\ kubeconfig' = IF "server" \in S THEN token ELSE kubeconfig
        /\ IF S = Overlay(c) THEN Goto(next) /\ UNCHANGED <<tls, token>>
           ELSE RunEnds("none")
    /\ UNCHANGED <<now, secret, imports, changes>>

(* waitUntilTokenAvailable, then the kubeconfig with the token. *)
setGardenloginKubeconfig ==
    /\ pc = "token"
    /\ \/ account = "ready" /\ token' = "valid" /\ Goto("runtime")
          /\ UNCHANGED <<tls, faults>>
       \/ account = Absent /\ RunEnds("none") /\ UNCHANGED faults
       \/ account = "new" /\ RunEnds("none")      \* not within 10 seconds
          /\ faults < MaxFaults /\ faults' = faults + 1
    /\ UNCHANGED <<now, clusterState, imports, changes>>

createOrUpdateTLSSecret ==
    /\ pc = "store"
    /\ \/ /\ secret # Absent \/ namespace[RuntimeCluster] = "active"
          /\ secret' = tls
          /\ RunEnds("reconciled")
       \/ /\ secret = Absent /\ namespace[RuntimeCluster] # "active"
          /\ RunEnds("none")
          /\ UNCHANGED secret
    /\ UNCHANGED <<now, namespace, roles, account, caBundle, server, kubeconfig,
                   imports, changes, faults>>

Reconcile ==
    \/ setTLSCertificate
    \/ buildAndApplyOverlay("single", "store")
    \/ buildAndApplyOverlay("application", "token")
    \/ setGardenloginKubeconfig
    \/ buildAndApplyOverlay("runtime", "store")
    \/ createOrUpdateTLSSecret

-----------------------------------------------------------------------------
(* Mutant: the webhook configuration is forgotten. *)
DeletionsWithoutWebhook ==
    << <<RuntimeCluster, "namespace">>, <<RuntimeCluster, "proxy-rolebinding">>,
       <<RuntimeCluster, "proxy-role">>, <<ApplicationCluster, "namespace">>,
       <<ApplicationCluster, "manager-rolebinding">>,
       <<ApplicationCluster, "manager-role">> >>

(* deleteRuntimeResources, then deleteApplicationResources. *)
Deletions ==
    << <<RuntimeCluster, "namespace">>, <<RuntimeCluster, "proxy-rolebinding">>,
       <<RuntimeCluster, "proxy-role">>, <<ApplicationCluster, "namespace">>,
       <<ApplicationCluster, "manager-rolebinding">>,
       <<ApplicationCluster, "manager-role">>, <<ApplicationCluster, "webhook">> >>

(* What is not there, or is being deleted, is left alone. *)
ensureDeleted(c, obj) ==
    /\ namespace' = [namespace EXCEPT ![c] =
            IF obj = "namespace" /\ @ = "active" THEN "terminating" ELSE @]
    /\ roles' = [roles EXCEPT ![c] = @ \ {obj}]
    /\ caBundle' = IF obj = "webhook" THEN Absent ELSE caBundle

Delete ==
    /\ pc = "delete"
    /\ ensureDeleted(Deletions[step][1], Deletions[step][2])
    /\ IF step = Len(Deletions) THEN RunEnds("deleted")
       ELSE step' = step + 1 /\ UNCHANGED <<pc, tls, token, outcome>>
    /\ UNCHANGED <<now, account, server, kubeconfig, secret, imports, changes, faults>>

(* A call fails, or the container is killed. *)
RunFails ==
    /\ pc # "idle"
    /\ faults < MaxFaults /\ faults' = faults + 1
    /\ RunEnds("none")
    /\ UNCHANGED <<now, clusterState, imports, changes>>

-----------------------------------------------------------------------------
(* Landscaper starts one run at a time, and starts it again and again. *)
Start ==
    /\ pc = "idle"
    /\ \/ wanted = "deployed" /\ pc' = "load" /\ UNCHANGED step
       \/ wanted = "deleted" /\ pc' = "delete" /\ step' = 1
    /\ outcome' = "none"
    /\ UNCHANGED <<now, clusterState, imports, tls, token, changes, faults>>

Change(kind) ==
    /\ kind \in Disturbances
    /\ changes < MaxChanges /\ changes' = changes + 1
    /\ outcome' = "none"

Request ==
    /\ Change("request")
    /\ pc = "idle"
    /\ wanted' = IF wanted = "deployed" THEN "deleted" ELSE "deployed"
    /\ UNCHANGED <<now, clusterState, MultiClusterDeploymentScenario, run, faults>>

(* Somebody removes the stored secret, damages its certificate or stores a *)
(* pair of their own, which may be old or not valid yet.                   *)
ChangeSecret ==
    /\ Change("secret")
    /\ secret # Absent
    /\ \/ secret' = Absent
       \/ secret' = [secret EXCEPT !.cert = Damaged]
       \/ \E time \in 0..MaxTime :
            secret' = Pair(Certificate(NewSerial, time), NewSerial)
    /\ UNCHANGED <<now, namespace, roles, account, caBundle, server, kubeconfig,
                   imports, run, faults>>

(* Somebody damages or exchanges the stored key, or stores a certificate   *)
(* of their own and forgets its key.                                       *)
ChangeKey ==
    /\ Change("key")
    /\ secret # Absent
    /\ \/ \E key \in {Damaged, Foreign} : secret' = [secret EXCEPT !.key = key]
       \/ \E time \in 0..MaxTime :
            secret' = Pair(Certificate(NewSerial, time), Foreign)
    /\ UNCHANGED <<now, namespace, roles, account, caBundle, server, kubeconfig,
                   imports, run, faults>>

(* Years pass between runs, not within one. *)
Tick ==
    /\ "time" \in Disturbances
    /\ pc = "idle" /\ now < MaxTime
    /\ now' = now + 1
    /\ outcome' = "none"
    /\ UNCHANGED <<clusterState, imports, run, changes, faults>>

TokenController ==
    /\ account = "new" /\ account' = "ready"
    /\ UNCHANGED <<now, namespace, roles, caBundle, server, kubeconfig, secret,
                   imports, run, outcome, changes, faults>>

Stale(credential) == IF credential = "valid" THEN "stale" ELSE credential

(* A namespace is gone with all it held; a token dies with its account. *)
NamespaceGone(c) ==
    /\ c \in Clusters /\ namespace[c] = "terminating"
    /\ namespace' = [namespace EXCEPT ![c] = "absent"]
    /\ IF c = RuntimeCluster
       THEN server' = Absent /\ secret' = Absent ELSE UNCHANGED <<server, secret>>
    /\ account' = IF c = ApplicationCluster THEN Absent ELSE account
    /\ token' = IF c = ApplicationCluster THEN Stale(token) ELSE token
    /\ kubeconfig' = IF c = RuntimeCluster THEN Absent
                     ELSE Stale(kubeconfig)
    /\ outcome' = IF outcome = "deleted" THEN "deleted" ELSE "none"
    /\ UNCHANGED <<now, roles, caBundle, imports, pc, step, tls, changes, faults>>

Init ==
    /\ MultiClusterDeploymentScenario \in BOOLEAN
    /\ now = 0
    /\ namespace = [c \in Clusters |-> "absent"]
    /\ roles = [c \in Clusters |-> {}]
    /\ account = Absent /\ caBundle = Absent /\ server = Absent
    /\ kubeconfig = Absent /\ secret = Absent
    /\ wanted = "deployed"
    /\ pc = "idle" /\ step = 0 /\ tls = Absent /\ token = Absent
    /\ outcome = "none" /\ changes = 0 /\ faults = 0

Next ==
    \/ Start \/ Reconcile \/ Delete \/ RunFails
    \/ Request \/ ChangeSecret \/ ChangeKey \/ Tick
    \/ TokenController \/ \E c \in AnyCluster : NamespaceGone(c)

Spec == Init /\ [][Next]_vars

(* Runs go on and are repeated; the clusters' controllers do their work. *)
FairSpec ==
    /\ Spec
    /\ WF_vars(Start) /\ WF_vars(Reconcile) /\ WF_vars(Delete)
    /\ WF_vars(TokenController)
    /\ \A c \in AnyCluster : WF_vars(NamespaceGone(c))

-----------------------------------------------------------------------------
Certificates == [serial : Serials, issued : 0..MaxTime]
Pairs == [cert : Certificates \cup {Damaged}, key : Serials \cup {Damaged, Foreign}]

(* Used has at most seven elements. *)
ASSUME SerialsAssumption ==
    /\ IsFiniteSet(Serials) => Cardinality(Serials) > 7
    /\ Absent \notin Pairs \cup Certificates
    /\ Damaged \notin Serials \cup Certificates
    /\ Foreign \notin Serials \cup {Damaged}

DeployerTypeOK ==
    /\ namespace \in [Clusters -> {"absent", "active", "terminating"}]
    /\ roles \in [Clusters -> SUBSET Roles]
    /\ caBundle \in Certificates \cup {Absent}
    /\ {server, secret, tls} \subseteq Pairs \cup {Absent}
    /\ pc \in {"application", "token", "runtime", "single", "store"}
            <=> tls # Absent
    /\ pc = "delete" <=> step # 0
    /\ step \in 0..Len(Deletions)

(* Of the lifetime of the certificate a fifth is left. *)
FreshCertificate(cert) ==
    /\ now >= cert.issued
    /\ 5 * (cert.issued + Validity - now) >= Validity

(***************************************************************************)
(* The API server of the application cluster trusts the certificate that   *)
(* the webhook server has, and the next run will find the same.            *)
(***************************************************************************)
Agreed ==
    /\ secret # Absent /\ secret.cert # Damaged
    /\ server = secret /\ caBundle = secret.cert
    /\ FreshCertificate(secret.cert)

(* The server has its key too: it serves, and is trusted. *)
Trusted == Agreed /\ secret.key = secret.cert.serial

(***************************************************************************)
(* A run that reports success leaves a webhook that is trusted for another *)
(* fifth of the lifetime, whatever earlier runs left half done and whether *)
(* the stored secret was removed, damaged or exchanged for another pair.   *)
(* The one exception is a stored certificate in order beside the key of    *)
(* another one: LoadCertificate does not compare the two, and the run      *)
(* deploys them as they are, to a server that cannot serve.                *)
(***************************************************************************)
ReconciledIsTrusted ==
    outcome = "reconciled" => Trusted \/ (Agreed /\ secret.key = Foreign)

(***************************************************************************)
(* A working certificate is not exchanged: no run, finished or failed,     *)
(* breaks the trust that is there; it takes the time, an operator or a     *)
(* deletion.                                                               *)
(***************************************************************************)
TrustIsKept == [][Trusted /\ ~Trusted' => ~(Reconcile \/ RunFails)]_vars

Working ==
    /\ Trusted
    /\ \A c \in Clusters : namespace[c] = "active" /\ roles[c] = Overlay(c) \cap Roles
    /\ account # Absent
    /\ MultiClusterDeploymentScenario => kubeconfig = "valid"

Removed ==
    /\ \A c \in Clusters : namespace[c] = "absent" /\ roles[c] = {}
    /\ {account, caBundle, server, kubeconfig, secret} = {Absent}

(***************************************************************************)
(* Repeated often enough, the operation that is asked for achieves what it *)
(* is for, and keeps it: a working deployment with credentials that are    *)
(* valid, or nothing at all - from every state that failed runs, a secret  *)
(* out of order, an expired certificate or a deletion under way can leave. *)
(* The exception is a certificate in order next to a key that is not its   *)
(* own: a damaged one ends every run in setTLSCertificate, another one is  *)
(* deployed.                                                               *)
(***************************************************************************)
KeyIsWrong == Restorable /\ secret.key \in {Damaged, Foreign}

Settles ==
    <>[](IF wanted = "deployed" THEN Working \/ KeyIsWrong ELSE Removed)
=============================================================================
