--------------------------- MODULE DeployerProofs ---------------------------
(***************************************************************************)
(* Type correctness of Deployer and what a run does to the trust between   *)
(* the webhook server and its configuration, for every lifetime of a       *)
(* certificate and every number of runs, changes and failures.             *)
(***************************************************************************)
EXTENDS Deployer, FiniteSetTheorems, TLAPS

(* A run keeps its outcome to itself and follows its scenario. *)
RunInv ==
    /\ MultiClusterDeploymentScenario \in BOOLEAN
    /\ now \in 0..MaxTime
    /\ pc \in {"idle", "load", "application", "token", "runtime", "single", "store",
               "delete"}
    /\ pc # "idle" => outcome = "none"
    /\ pc = "single" => ~MultiClusterDeploymentScenario
    /\ pc \in {"application", "token", "runtime"} => MultiClusterDeploymentScenario

(* A run works with a certificate that is in order; its key may be a       *)
(* foreign one that it found, and then that certificate is not stored with *)
(* its own key again.  A stored pair that is not in order is one that      *)
(* somebody damaged or mixed up.                                           *)
PairInv ==
    /\ tls # Absent =>
        /\ tls.cert \in Certificates
        /\ tls.key \in {tls.cert.serial, Foreign}
        /\ ~CertificateNeedsRenewal(tls.cert)
        /\ tls.key = Foreign /\ secret # Absent /\ secret.cert = tls.cert
                => secret.key \in {Damaged, Foreign}
    /\ secret # Absent =>
        \/ secret.key \in {Damaged, Foreign}
        \/ secret.cert = Damaged
        \/ secret.key = secret.cert.serial

(* What the overlays have put where; a namespace that is gone took the     *)
(* server with it.                                                         *)
PlacedInv ==
    /\ pc \in {"token", "runtime", "store"} => caBundle = tls.cert
    /\ pc = "store" =>
        \/ server = tls
        \/ namespace[RuntimeCluster] = "absent" /\ server = Absent /\ secret = Absent

(* A run that started from a trusted pair works with this pair. *)
TrustInv == tls # Absent /\ Trusted => tls = secret

DeployerInv ==
    /\ DeployerTypeOK /\ RunInv /\ PairInv /\ PlacedInv /\ TrustInv
    /\ ReconciledIsTrusted

-----------------------------------------------------------------------------
LEMMA OneMore ==
    ASSUME NEW S, IsFiniteSet(S), NEW x
    PROVE  /\ IsFiniteSet(S \cup {x})
           /\ Cardinality(S) \in Nat /\ Cardinality(S \cup {x}) \in Nat
           /\ Cardinality(S \cup {x}) <= Cardinality(S) + 1
<1>1. Cardinality(S) \in Nat
  BY FS_CardinalityType
<1>2. /\ IsFiniteSet(S \cup {x})
      /\ Cardinality(S \cup {x}) = IF x \in S THEN Cardinality(S) ELSE Cardinality(S) + 1
  BY FS_AddElement
<1> QED
  BY <1>1, <1>2

LEMMA AtMostSeven ==
    ASSUME NEW a, NEW b, NEW c, NEW d, NEW e, NEW f, NEW g
    PROVE  /\ IsFiniteSet({a, b, c, d, e, f, g})
           /\ Cardinality({a, b, c, d, e, f, g}) <= 7
<1> DEFINE S1 == {} \cup {a}
           S2 == S1 \cup {b}
           S3 == S2 \cup {c}
           S4 == S3 \cup {d}
           S5 == S4 \cup {e}
           S6 == S5 \cup {f}
           S7 == S6 \cup {g}
<1>0. S7 = {a, b, c, d, e, f, g}
  OBVIOUS
<1> HIDE DEF S1, S2, S3, S4, S5, S6, S7
<1>1. IsFiniteSet({}) /\ Cardinality({}) = 0
  BY FS_EmptySet
<1>2. /\ IsFiniteSet(S1) /\ Cardinality(S1) \in Nat
      /\ Cardinality(S1) <= Cardinality({}) + 1
  BY <1>1, OneMore, Zenon DEF S1
<1>3. /\ IsFiniteSet(S2) /\ Cardinality(S2) \in Nat
      /\ Cardinality(S2) <= Cardinality(S1) + 1
  BY <1>2, OneMore, Zenon DEF S2
<1>4. /\ IsFiniteSet(S3) /\ Cardinality(S3) \in Nat
      /\ Cardinality(S3) <= Cardinality(S2) + 1
  BY <1>3, OneMore, Zenon DEF S3
<1>5. /\ IsFiniteSet(S4) /\ Cardinality(S4) \in Nat
      /\ Cardinality(S4) <= Cardinality(S3) + 1
  BY <1>4, OneMore, Zenon DEF S4
<1>6. /\ IsFiniteSet(S5) /\ Cardinality(S5) \in Nat
      /\ Cardinality(S5) <= Cardinality(S4) + 1
  BY <1>5, OneMore, Zenon DEF S5
<1>7. /\ IsFiniteSet(S6) /\ Cardinality(S6) \in Nat
      /\ Cardinality(S6) <= Cardinality(S5) + 1
  BY <1>6, OneMore, Zenon DEF S6
<1>8. /\ IsFiniteSet(S7) /\ Cardinality(S7) \in Nat
      /\ Cardinality(S7) <= Cardinality(S6) + 1
  BY <1>7, OneMore, Zenon DEF S7
<1>9. Cardinality(S7) <= 7
  BY <1>1, <1>2, <1>3, <1>4, <1>5, <1>6, <1>7, <1>8
<1> QED
  BY <1>0, <1>8, <1>9

(* There always is a serial that is not in use. *)
LEMMA SerialIsNew == NewSerial \in Serials /\ NewSerial \notin Used
<1> DEFINE Seven == {secret.key, server.key, tls.key, caBundle.serial,
                     secret.cert.serial, server.cert.serial, tls.cert.serial}
<1>1. Used \subseteq Seven
  BY DEF Used
<1>2. IsFiniteSet(Seven) /\ Cardinality(Seven) <= 7
  BY AtMostSeven
<1>3. \E n \in Serials : n \notin Used
  <2>1. SUFFICES ASSUME Serials \subseteq Used PROVE FALSE
    OBVIOUS
  <2>2. Serials \in SUBSET Seven
    BY <1>1, <2>1
  <2>3. IsFiniteSet(Serials) /\ Cardinality(Serials) <= Cardinality(Seven)
    BY <1>2, <2>2, FS_Subset
  <2>4. Cardinality(Serials) \in Nat /\ Cardinality(Seven) \in Nat
    BY <1>2, <2>3, FS_CardinalityType
  <2> QED
    BY <1>2, <2>3, <2>4, SerialsAssumption
<1> QED
  BY <1>3 DEF NewSerial

(* A pair with a new serial is in order and served by nobody yet. *)
LEMMA NewPairs ==
    ASSUME NEW time \in 0..MaxTime, NEW key \in {NewSerial, Foreign}
    PROVE  LET pair == Pair(Certificate(NewSerial, time), key) IN
           /\ pair \in Pairs /\ pair # Absent
           /\ pair.cert = Certificate(NewSerial, time) /\ pair.cert \in Certificates
           /\ pair.key = key /\ pair.cert.serial = NewSerial
           /\ pair.cert.issued = time
           /\ key = NewSerial => pair # server
           /\ tls \in Pairs /\ tls.cert # Damaged => pair.cert # tls.cert
           /\ NewSerial # Foreign
<1>1. NewSerial \in Serials /\ NewSerial \notin Used
  BY SerialIsNew
<1>2. Certificate(NewSerial, time) \in Certificates
  BY <1>1 DEF Certificate, Certificates
<1>3. Pair(Certificate(NewSerial, time), key) \in Pairs
  BY <1>1, <1>2 DEF Pair, Pairs
<1>4. Absent \notin Pairs
  BY SerialsAssumption
<1>5. server # Absent => server.key \in Used
  BY DEF Used
<1>6. tls \in Pairs /\ tls.cert # Damaged => tls.cert.serial \in Used
  BY <1>4 DEF Used
<1>7. NewSerial # Foreign
  BY <1>1, SerialsAssumption
<1> QED
  BY <1>1, <1>2, <1>3, <1>4, <1>5, <1>6, <1>7 DEF Pair, Certificate

(* The two ways to say that a fifth of the lifetime is left. *)
LEMMA FreshNeedsNoRenewal ==
    ASSUME now \in Nat, NEW cert \in Certificates
    PROVE  FreshCertificate(cert) <=> ~CertificateNeedsRenewal(cert)
<1>1. cert.issued \in Nat /\ Validity \in Nat \ {0}
  BY DeployerAssumption DEF Certificates
<1> QED
  BY <1>1 DEF FreshCertificate, CertificateNeedsRenewal

(* What is needed of a pair that a run or a cluster holds. *)
LEMMA PairParts ==
    ASSUME NEW p \in Pairs
    PROVE  /\ p = [cert |-> p.cert, key |-> p.key] /\ p # Absent
           /\ p.cert \in Certificates \cup {Damaged}
           /\ p.key \in Serials \cup {Damaged, Foreign}
           /\ p.cert # Damaged => p.cert \in Certificates /\ p.cert.serial \in Serials
           /\ Damaged \notin Serials /\ Damaged \notin Certificates
           /\ Foreign \notin Serials /\ Foreign # Damaged
BY SerialsAssumption DEF Pairs, Certificates

LEMMA DeletionsAreSeven == Len(Deletions) = 7
BY DEF Deletions

LEMMA InitiallyInv == Init => DeployerInv
<1> SUFFICES ASSUME Init PROVE DeployerInv
  OBVIOUS
<1>1. RunInv
  BY DeployerAssumption DEF Init, RunInv
<1>2. DeployerTypeOK
  BY DeletionsAreSeven DEF Init, DeployerTypeOK
<1>3. PairInv /\ PlacedInv /\ TrustInv /\ ReconciledIsTrusted
  BY DEF Init, PairInv, PlacedInv, TrustInv, ReconciledIsTrusted
<1> QED
  BY <1>1, <1>2, <1>3 DEF DeployerInv

-----------------------------------------------------------------------------
(* The secret decides: a pair in order is taken over, any other replaced.  *)
LEMMA PairIsSet == DeployerInv /\ setTLSCertificate => DeployerInv'
<1> SUFFICES ASSUME DeployerInv, setTLSCertificate PROVE DeployerInv'
  OBVIOUS
<1> USE DEF DeployerInv
<1>1. /\ UNCHANGED <<now, clusterState, imports>>
      /\ pc = "load" /\ step = 0 /\ outcome = "none" /\ tls = Absent
  BY DEF setTLSCertificate, RunInv, DeployerTypeOK
<1>2. now \in Nat
  BY DEF RunInv
<1>3. CASE Restorable /\ secret.key # Damaged /\ tls' = secret /\ Goto(FirstOverlay)
  <2>1. /\ secret \in Pairs /\ secret.cert \in Certificates
        /\ ~CertificateNeedsRenewal(secret.cert)
        /\ secret.key \in {secret.cert.serial, Foreign}
    BY <1>3, PairParts DEF Restorable, DeployerTypeOK, PairInv
  <2>2. tls' \in Pairs /\ tls' # Absent
    BY <1>3, <2>1, PairParts
  <2>3. DeployerTypeOK'
    BY <1>1, <1>3, <2>2 DEF DeployerTypeOK, Goto, FirstOverlay, clusterState, imports,
        Clusters, RuntimeCluster, ApplicationCluster
  <2>4. RunInv'
    BY <1>1, <1>3 DEF RunInv, Goto, FirstOverlay, imports
  <2>5. PairInv'
    BY <1>1, <1>3, <2>1 DEF PairInv, CertificateNeedsRenewal, clusterState
  <2>6. PlacedInv' /\ TrustInv' /\ ReconciledIsTrusted'
    BY <1>1, <1>3 DEF PlacedInv, TrustInv, ReconciledIsTrusted, Goto, FirstOverlay,
        clusterState
  <2> QED
    BY <2>3, <2>4, <2>5, <2>6
<1>4. CASE RunEnds("none")
  <2>1. DeployerTypeOK'
    BY <1>1, <1>4, DeletionsAreSeven DEF DeployerTypeOK, RunEnds, clusterState, imports,
        Clusters, RuntimeCluster, ApplicationCluster, Deletions
  <2>2. RunInv'
    BY <1>1, <1>4 DEF RunInv, RunEnds, imports
  <2>3. PairInv' /\ PlacedInv' /\ TrustInv' /\ ReconciledIsTrusted'
    BY <1>1, <1>4 DEF PairInv, PlacedInv, TrustInv, ReconciledIsTrusted, RunEnds,
        clusterState
  <2> QED
    BY <2>1, <2>2, <2>3
<1>5. CASE ~Restorable /\ tls' = GeneratedPair /\ Goto(FirstOverlay)
  <2>1. /\ tls' \in Pairs /\ tls' # Absent /\ tls'.cert \in Certificates
        /\ tls'.key = tls'.cert.serial /\ tls'.cert.issued = now /\ tls'.key # Foreign
    BY <1>5, NewPairs DEF GeneratedPair, RunInv
  <2>2. DeployerTypeOK'
    BY <1>1, <1>5, <2>1 DEF DeployerTypeOK, Goto, FirstOverlay, clusterState, imports,
        Clusters, RuntimeCluster, ApplicationCluster
  <2>3. RunInv'
    BY <1>1, <1>5 DEF RunInv, Goto, FirstOverlay, imports
  <2>4. ~CertificateNeedsRenewal(tls.cert)'
    BY <1>1, <1>2, <2>1, DeployerAssumption DEF CertificateNeedsRenewal
  <2>5. PairInv'
    BY <1>1, <2>1, <2>4 DEF PairInv, clusterState
  <2>6. ~Trusted
    <3>1. SUFFICES ASSUME Trusted PROVE FALSE
      OBVIOUS
    <3>2. secret.cert \in Certificates /\ secret # Absent /\ secret.cert # Damaged
      BY <3>1, PairParts DEF Trusted, Agreed, DeployerTypeOK
    <3>3. ~CertificateNeedsRenewal(secret.cert)
      BY <1>2, <3>1, <3>2, FreshNeedsNoRenewal DEF Trusted, Agreed
    <3> QED
      BY <1>5, <3>2, <3>3 DEF Restorable
  <2>7. ~Trusted'
    BY <1>1, <2>6 DEF Trusted, Agreed, FreshCertificate, clusterState
  <2>8. PlacedInv' /\ TrustInv' /\ ReconciledIsTrusted'
    BY <1>1, <1>5, <2>7 DEF PlacedInv, TrustInv, ReconciledIsTrusted, Goto, FirstOverlay,
        clusterState
  <2> QED
    BY <2>2, <2>3, <2>5, <2>8
<1> QED
  BY <1>3, <1>4, <1>5 DEF setTLSCertificate

(* A step that leaves all this alone leaves the trust alone. *)
LEMMA TrustStays ==
    UNCHANGED <<now, caBundle, server, secret>> =>
        (Trusted' <=> Trusted) /\ (Agreed' <=> Agreed)
BY DEF Trusted, Agreed, FreshCertificate

(* The end of a run that reports nothing. *)
LEMMA RunEndsWell ==
    ASSUME DeployerInv, pc # "idle", RunEnds("none"),
           UNCHANGED <<now, namespace, roles, caBundle, server, secret, imports>>
    PROVE  DeployerInv'
<1> USE DEF DeployerInv
<1>1. DeployerTypeOK'
  BY DeletionsAreSeven DEF DeployerTypeOK, RunEnds, imports, Clusters, RuntimeCluster,
      ApplicationCluster, Deletions
<1>2. RunInv'
  BY DEF RunInv, RunEnds, imports
<1>3. PairInv' /\ PlacedInv' /\ TrustInv' /\ ReconciledIsTrusted'
  BY DEF PairInv, PlacedInv, TrustInv, ReconciledIsTrusted, RunEnds
<1> QED
  BY <1>1, <1>2, <1>3

(***************************************************************************)
(* An overlay, applied in part or as a whole.  Objects that are applied    *)
(* come from the pair of the run, the others stay as they are: so the      *)
(* trust that may come of it is the trust in this pair.                    *)
(***************************************************************************)
LEMMA OverlayIsApplied ==
    ASSUME DeployerInv,
           NEW c \in AnyCluster, NEW next \in {"token", "store"},
           buildAndApplyOverlay(c, next),
           c = "application" <=> next = "token"
    PROVE  DeployerInv'
<1> USE DEF DeployerInv
<1>1. PICK S \in SUBSET Accepted(c) :
        /\ namespace' = [namespace EXCEPT ![c] =
                IF @ = "absent" /\ "namespace" \in S THEN "active" ELSE @]
        /\ roles' = [roles EXCEPT ![c] = @ \cup (S \cap Roles)]
        /\ caBundle' = IF "webhook" \in S THEN tls.cert ELSE caBundle
        /\ server' = IF "server" \in S THEN tls ELSE server
        /\ IF S = Overlay(c) THEN Goto(next) /\ UNCHANGED <<tls, token>>
           ELSE RunEnds("none")
  BY DEF buildAndApplyOverlay
<1>2. /\ pc = c /\ UNCHANGED <<now, secret, imports>>
      /\ c \in {"single", "application", "runtime"}
      /\ tls \in Pairs /\ tls # Absent /\ step = 0 /\ outcome = "none"
  BY DEF buildAndApplyOverlay, AnyCluster, DeployerTypeOK, RunInv
<1>3. /\ tls.cert \in Certificates /\ tls.key \in {tls.cert.serial, Foreign}
      /\ ~CertificateNeedsRenewal(tls.cert)
  BY <1>2 DEF PairInv
<1>4. c \in Clusters /\ Clusters' = Clusters
      /\ (c = RuntimeCluster <=> c # "application")
      /\ (c = ApplicationCluster <=> c # "runtime")
  BY <1>2 DEF RunInv, Clusters, RuntimeCluster, ApplicationCluster, imports
<1>5. \/ tls' = tls /\ Goto(next) /\ S = Overlay(c)
      \/ tls' = Absent /\ RunEnds("none")
  BY <1>1 DEF RunEnds
<1>6. DeployerTypeOK'
  <2>1. namespace' \in [Clusters -> {"absent", "active", "terminating"}]
    BY <1>1 DEF DeployerTypeOK
  <2>2. roles' \in [Clusters -> SUBSET Roles]
    BY <1>1 DEF DeployerTypeOK
  <2>3. /\ caBundle' \in Certificates \cup {Absent}
        /\ server' \in Pairs \cup {Absent} /\ secret' \in Pairs \cup {Absent}
    BY <1>1, <1>2, <1>3 DEF DeployerTypeOK
  <2>4. /\ tls' \in Pairs \cup {Absent} /\ step' = 0
        /\ \/ pc' \in {"token", "store"} /\ tls' # Absent
           \/ pc' = "idle" /\ tls' = Absent
    BY <1>2, <1>5 DEF Goto, RunEnds
  <2> QED
    BY <1>4, <2>1, <2>2, <2>3, <2>4, DeletionsAreSeven DEF DeployerTypeOK, Deletions
<1>7. RunInv'
  BY <1>2, <1>5 DEF RunInv, Goto, RunEnds, imports
<1>8. PairInv'
  BY <1>2, <1>3, <1>5 DEF PairInv, CertificateNeedsRenewal
<1>9. PlacedInv'
  <2>1. SUFFICES ASSUME Goto(next), S = Overlay(c), tls' = tls PROVE PlacedInv'
    BY <1>5 DEF PlacedInv, RunEnds
  <2>2. caBundle' = tls'.cert
    BY <1>1, <1>2, <1>4, <2>1 DEF PlacedInv, Overlay, ApplicationObjects, RuntimeObjects
  <2>3. next = "store" => server' = tls'
    BY <1>1, <1>2, <1>4, <2>1 DEF Overlay, ApplicationObjects, RuntimeObjects
  <2> QED
    BY <2>1, <2>2, <2>3 DEF PlacedInv, Goto
<1>10. TrustInv'
  <2>1. SUFFICES ASSUME tls' = tls, Trusted' PROVE tls = secret
    BY <1>2, <1>5 DEF TrustInv
  <2>2. /\ secret \in Pairs /\ server' = secret /\ caBundle' = secret.cert
        /\ secret.key = secret.cert.serial
    BY <1>2, <2>1 DEF Trusted, Agreed, DeployerTypeOK
  <2>3. CASE "server" \in S
    BY <1>1, <2>2, <2>3
  <2>4. CASE "webhook" \in S
    <3>1. secret.cert = tls.cert /\ secret.key = tls.cert.serial
      BY <1>1, <2>2, <2>4
    <3>2. tls.key = tls.cert.serial
      <4>1. secret.key \in Serials /\ Foreign \notin Serials /\ Damaged \notin Serials
        BY <1>2, <1>3, <3>1, PairParts
      <4> QED
        BY <1>2, <1>3, <2>2, <3>1, <4>1, PairParts DEF PairInv
    <3> QED
      BY <1>2, <2>2, <3>1, <3>2, PairParts
  <2>5. CASE "server" \notin S /\ "webhook" \notin S
    BY <1>1, <1>2, <2>1, <2>5, TrustStays DEF TrustInv
  <2> QED
    BY <2>3, <2>4, <2>5
<1>11. ReconciledIsTrusted'
  BY <1>2, <1>5 DEF ReconciledIsTrusted, Goto, RunEnds
<1> QED
  BY <1>6, <1>7, <1>8, <1>9, <1>10, <1>11

(* The token changes nothing of the pair. *)
LEMMA TokenIsWaitedFor == DeployerInv /\ setGardenloginKubeconfig => DeployerInv'
<1> SUFFICES ASSUME DeployerInv, setGardenloginKubeconfig PROVE DeployerInv'
  OBVIOUS
<1>1. pc = "token" /\ UNCHANGED <<clusterState, now, imports>>
  BY DEF setGardenloginKubeconfig
<1>2. CASE RunEnds("none")
  BY <1>1, <1>2, RunEndsWell DEF clusterState, imports
<1>3. CASE Goto("runtime") /\ UNCHANGED tls
  <2>1. DeployerTypeOK'
    BY <1>1, <1>3 DEF DeployerInv, DeployerTypeOK, Goto, clusterState, imports, Clusters,
        RuntimeCluster, ApplicationCluster, Deletions
  <2>2. RunInv'
    BY <1>1, <1>3 DEF DeployerInv, RunInv, Goto, imports
  <2>3. PairInv' /\ PlacedInv'
    BY <1>1, <1>3 DEF DeployerInv, PairInv, PlacedInv, Goto, clusterState,
        CertificateNeedsRenewal
  <2>4. TrustInv' /\ ReconciledIsTrusted'
    BY <1>1, <1>3, TrustStays DEF DeployerInv, TrustInv, ReconciledIsTrusted, Goto,
        clusterState
  <2> QED
    BY <2>1, <2>2, <2>3, <2>4 DEF DeployerInv
<1> QED
  BY <1>2, <1>3 DEF setGardenloginKubeconfig

(* The last call: the pair that everything was set up with is stored. *)
LEMMA SecretIsStored == DeployerInv /\ createOrUpdateTLSSecret => DeployerInv'
<1> SUFFICES ASSUME DeployerInv, createOrUpdateTLSSecret PROVE DeployerInv'
  OBVIOUS
<1>1. /\ pc = "store"
      /\ UNCHANGED <<now, namespace, roles, account, caBundle, server, kubeconfig, imports>>
  BY DEF createOrUpdateTLSSecret
<1>2. CASE RunEnds("none") /\ UNCHANGED secret
  BY <1>1, <1>2, RunEndsWell
<1>3. CASE /\ secret # Absent \/ namespace[RuntimeCluster] = "active"
           /\ secret' = tls /\ RunEnds("reconciled")
  <2>1. tls \in Pairs /\ tls # Absent
    BY <1>1 DEF DeployerInv, DeployerTypeOK
  <2>2. /\ tls.cert \in Certificates /\ tls.key \in {tls.cert.serial, Foreign}
        /\ ~CertificateNeedsRenewal(tls.cert)
    BY <2>1 DEF DeployerInv, PairInv
  <2>3. server = tls /\ caBundle = tls.cert
    BY <1>1, <1>3 DEF DeployerInv, PlacedInv
  <2>4. Agreed'
    <3>1. FreshCertificate(tls.cert)
      BY <2>2, FreshNeedsNoRenewal DEF DeployerInv, RunInv
    <3>2. FreshCertificate(secret.cert)'
      BY <1>1, <1>3, <3>1 DEF FreshCertificate
    <3>3. tls.cert # Damaged
      BY <2>1, <2>2, PairParts
    <3> QED
      BY <1>1, <1>3, <2>1, <2>2, <2>3, <3>2, <3>3 DEF Agreed
  <2>5. DeployerTypeOK'
    BY <1>1, <1>3, <2>1, DeletionsAreSeven DEF DeployerInv, DeployerTypeOK, RunEnds, imports,
        Clusters, RuntimeCluster, ApplicationCluster, Deletions
  <2>6. RunInv' /\ PairInv' /\ PlacedInv'
    BY <1>1, <1>3, <2>2 DEF DeployerInv, RunInv, PairInv, PlacedInv, RunEnds, imports
  <2>7. TrustInv' /\ ReconciledIsTrusted'
    BY <1>3, <2>2, <2>4 DEF TrustInv, ReconciledIsTrusted, RunEnds, Trusted
  <2> QED
    BY <2>5, <2>6, <2>7 DEF DeployerInv
<1> QED
  BY <1>2, <1>3 DEF createOrUpdateTLSSecret

LEMMA ReconcileKeepsInv == DeployerInv /\ Reconcile => DeployerInv'
<1> SUFFICES ASSUME DeployerInv, Reconcile PROVE DeployerInv'
  OBVIOUS
<1>1. \A c \in {"single", "runtime"} : buildAndApplyOverlay(c, "store") => DeployerInv'
  BY OverlayIsApplied DEF AnyCluster
<1>2. buildAndApplyOverlay("application", "token") => DeployerInv'
  BY OverlayIsApplied DEF AnyCluster
<1> QED
  BY <1>1, <1>2, PairIsSet, TokenIsWaitedFor, SecretIsStored DEF Reconcile

-----------------------------------------------------------------------------
(* A deletion holds no pair, and finishes with an outcome of its own. *)
LEMMA DeleteKeepsInv == DeployerInv /\ Delete => DeployerInv'
<1> SUFFICES ASSUME DeployerInv, Delete PROVE DeployerInv'
  OBVIOUS
<1> DEFINE c == Deletions[step][1]
           obj == Deletions[step][2]
<1>1. /\ pc = "delete" /\ tls = Absent /\ outcome = "none" /\ step \in 1..7
      /\ UNCHANGED <<now, server, secret, imports>>
      /\ ensureDeleted(c, obj)
  BY DeletionsAreSeven DEF Delete, DeployerInv, DeployerTypeOK, RunInv
<1>2. Clusters' = Clusters /\ Len(Deletions)' = 7
  BY <1>1 DEF Clusters, RuntimeCluster, ApplicationCluster, imports, Deletions
<1>3. /\ tls' = Absent /\ outcome' \in {"none", "deleted"}
      /\ \/ pc' = "idle" /\ step' = 0
         \/ pc' = "delete" /\ step' \in 1..7 /\ outcome' = "none"
  BY <1>1, DeletionsAreSeven DEF Delete, RunEnds
<1> HIDE DEF c, obj
<1>4. DeployerTypeOK'
  <2>1. namespace' \in [Clusters -> {"absent", "active", "terminating"}]
    BY <1>1 DEF ensureDeleted, DeployerInv, DeployerTypeOK
  <2>2. roles' \in [Clusters -> SUBSET Roles]
    BY <1>1 DEF ensureDeleted, DeployerInv, DeployerTypeOK
  <2>3. caBundle' \in Certificates \cup {Absent}
    BY <1>1 DEF ensureDeleted, DeployerInv, DeployerTypeOK
  <2> QED
    BY <1>1, <1>2, <1>3, <2>1, <2>2, <2>3 DEF DeployerInv, DeployerTypeOK
<1>5. RunInv'
  BY <1>1, <1>3 DEF DeployerInv, RunInv, imports
<1>6. PairInv' /\ PlacedInv' /\ TrustInv' /\ ReconciledIsTrusted'
  BY <1>1, <1>3 DEF DeployerInv, PairInv, PlacedInv, TrustInv, ReconciledIsTrusted
<1> QED
  BY <1>4, <1>5, <1>6 DEF DeployerInv

-----------------------------------------------------------------------------
(* What operators, landscaper and the clusters do. *)
LEMMA RunStarts == DeployerInv /\ Start => DeployerInv'
<1> SUFFICES ASSUME DeployerInv, Start PROVE DeployerInv'
  OBVIOUS
<1>1. /\ pc = "idle" /\ tls = Absent /\ step = 0 /\ outcome' = "none"
      /\ UNCHANGED <<now, clusterState, imports, tls>>
      /\ \/ pc' = "load" /\ step' = 0
         \/ pc' = "delete" /\ step' = 1
  BY DEF Start, DeployerInv, DeployerTypeOK
<1>2. Clusters' = Clusters /\ Len(Deletions)' = 7
  BY <1>1 DEF Clusters, RuntimeCluster, ApplicationCluster, imports, Deletions
<1>3. DeployerTypeOK'
  BY <1>1, <1>2 DEF DeployerInv, DeployerTypeOK, clusterState
<1>4. RunInv'
  BY <1>1 DEF DeployerInv, RunInv, imports
<1>5. PairInv' /\ PlacedInv' /\ TrustInv' /\ ReconciledIsTrusted'
  BY <1>1 DEF DeployerInv, PairInv, PlacedInv, TrustInv, ReconciledIsTrusted, clusterState
<1> QED
  BY <1>3, <1>4, <1>5 DEF DeployerInv

(* The secret changes under a run: what is stored then is served by nobody. *)
LEMMA SecretMayChange ==
    ASSUME DeployerInv, outcome' = "none",
           UNCHANGED <<now, namespace, roles, account, caBundle, server, kubeconfig,
                       imports, run>>,
           secret # Absent,
           \/ secret' = Absent
           \/ secret' = [secret EXCEPT !.cert = Damaged]
           \/ \E key \in {Damaged, Foreign} : secret' = [secret EXCEPT !.key = key]
           \/ \E time \in 0..MaxTime, key \in {NewSerial, Foreign} :
                secret' = Pair(Certificate(NewSerial, time), key)
    PROVE  DeployerInv'
<1>1. secret \in Pairs
  BY DEF DeployerInv, DeployerTypeOK
<1> DEFINE InOrder(pair) ==
                \/ pair.key \in {Damaged, Foreign}
                \/ pair.cert = Damaged
                \/ pair.key = pair.cert.serial
           NotAgain(pair) ==
                tls # Absent /\ tls.key = Foreign /\ pair.cert = tls.cert
                    => pair.key \in {Damaged, Foreign}
<1>2. /\ secret' \in Pairs \cup {Absent}
      /\ secret' # Absent => InOrder(secret') /\ NotAgain(secret')
      /\ ~Trusted'
  <2>1. CASE secret' = Absent
    BY <2>1 DEF Trusted, Agreed
  <2>2. CASE secret' = [secret EXCEPT !.cert = Damaged]
    <3>1. secret' \in Pairs /\ secret'.cert = Damaged
      BY <1>1, <2>2 DEF Pairs
    <3>2. tls # Absent => tls.cert # Damaged
      BY PairParts DEF DeployerInv, DeployerTypeOK, PairInv
    <3> QED
      BY <3>1, <3>2 DEF Trusted, Agreed
  <2>3. ASSUME NEW key \in {Damaged, Foreign}, secret' = [secret EXCEPT !.key = key]
        PROVE  secret' \in Pairs /\ InOrder(secret') /\ NotAgain(secret') /\ ~Trusted'
    <3>1. secret' \in Pairs /\ secret'.key \in {Damaged, Foreign}
      BY <1>1, <2>3 DEF Pairs
    <3>2. ~Trusted'
      BY <3>1, PairParts DEF Trusted, Agreed
    <3> QED
      BY <3>1, <3>2
  <2>4. ASSUME NEW time \in 0..MaxTime, NEW key \in {NewSerial, Foreign},
               secret' = Pair(Certificate(NewSerial, time), key)
        PROVE  secret' \in Pairs /\ InOrder(secret') /\ NotAgain(secret') /\ ~Trusted'
    <3>1. /\ secret' \in Pairs
          /\ secret'.key = key /\ secret'.cert.serial = NewSerial /\ NewSerial # Foreign
          /\ key = NewSerial => secret' # server
          /\ tls \in Pairs /\ tls.cert # Damaged => secret'.cert # tls.cert
      BY <2>4, NewPairs
    <3>2. tls # Absent => tls \in Pairs /\ tls.cert # Damaged
      BY PairParts DEF DeployerInv, DeployerTypeOK, PairInv
    <3>3. ~Trusted'
      BY <3>1 DEF Trusted, Agreed
    <3> QED
      BY <3>1, <3>2, <3>3
  <2> HIDE DEF InOrder, NotAgain
  <2> QED
    BY <2>1, <2>2, <2>3, <2>4
<1>3. Clusters' = Clusters /\ Deletions' = Deletions
  BY DEF Clusters, RuntimeCluster, ApplicationCluster, imports, Deletions
<1>4. DeployerTypeOK'
  BY <1>2, <1>3 DEF DeployerInv, DeployerTypeOK, run
<1>5. RunInv'
  BY DEF DeployerInv, RunInv, imports, run
<1>6. PairInv'
  BY <1>2 DEF DeployerInv, PairInv, CertificateNeedsRenewal, run
<1>7. PlacedInv' /\ TrustInv' /\ ReconciledIsTrusted'
  BY <1>2 DEF DeployerInv, PlacedInv, TrustInv, ReconciledIsTrusted, run, RuntimeCluster, imports
<1> QED
  BY <1>4, <1>5, <1>6, <1>7 DEF DeployerInv

(* Requests and the clock wait for the end of a run, the token controller *)
(* does not; none of them touches a pair.                                  *)
LEMMA PairsAreLeftAlone ==
    ASSUME DeployerInv,
           UNCHANGED <<namespace, roles, caBundle, server, secret,
                       MultiClusterDeploymentScenario, run>>,
           \/ pc = "idle" /\ now' \in 0..MaxTime /\ outcome' = "none"
           \/ UNCHANGED <<now, outcome>>
    PROVE  DeployerInv'
<1>1. Clusters' = Clusters /\ Deletions' = Deletions
  BY DEF Clusters, RuntimeCluster, ApplicationCluster, Deletions
<1>2. DeployerTypeOK'
  BY <1>1 DEF DeployerInv, DeployerTypeOK, run
<1>3. RunInv'
  BY DEF DeployerInv, RunInv, run
<1>4. pc = "idle" => tls = Absent
  BY DEF DeployerInv, DeployerTypeOK
<1>5. PairInv'
  BY <1>4 DEF DeployerInv, PairInv, CertificateNeedsRenewal, run
<1>6. PlacedInv' /\ TrustInv'
  BY <1>4, TrustStays DEF DeployerInv, PlacedInv, TrustInv, run, RuntimeCluster
<1>7. ReconciledIsTrusted'
  BY TrustStays DEF DeployerInv, ReconciledIsTrusted
<1> QED
  BY <1>2, <1>3, <1>5, <1>6, <1>7 DEF DeployerInv

(* A namespace takes server and secret with it, never the one without the other. *)
LEMMA NamespaceTakesBoth ==
    ASSUME DeployerInv, NEW c \in AnyCluster, NamespaceGone(c)
    PROVE  DeployerInv'
<1>1. /\ UNCHANGED <<now, roles, caBundle, imports, pc, step, tls>>
      /\ \/ outcome' = "none"
         \/ outcome' = "deleted" /\ outcome = "deleted"
      /\ namespace' = [namespace EXCEPT ![c] = "absent"]
      /\ c \in Clusters /\ namespace[c] = "terminating"
      /\ \/ c = RuntimeCluster /\ server' = Absent /\ secret' = Absent
         \/ c # RuntimeCluster /\ UNCHANGED <<server, secret>>
  BY DEF NamespaceGone
<1>2. Clusters' = Clusters /\ Deletions' = Deletions /\ RuntimeCluster' = RuntimeCluster
  BY <1>1 DEF Clusters, RuntimeCluster, ApplicationCluster, imports, Deletions
<1>3. DeployerTypeOK'
  BY <1>1, <1>2 DEF DeployerInv, DeployerTypeOK
<1>4. RunInv'
  BY <1>1 DEF DeployerInv, RunInv, imports
<1>5. PairInv'
  BY <1>1 DEF DeployerInv, PairInv, CertificateNeedsRenewal
<1>6. PlacedInv'
  BY <1>1, <1>2 DEF DeployerInv, PlacedInv, DeployerTypeOK
<1>7. TrustInv'
  <2>1. CASE secret' = Absent
    BY <2>1 DEF TrustInv, Trusted, Agreed
  <2>2. CASE UNCHANGED <<server, secret>>
    BY <1>1, <2>2, TrustStays DEF DeployerInv, TrustInv
  <2> QED
    BY <1>1, <2>1, <2>2
<1>8. ReconciledIsTrusted'
  BY <1>1 DEF ReconciledIsTrusted
<1> QED
  BY <1>3, <1>4, <1>5, <1>6, <1>7, <1>8 DEF DeployerInv

LEMMA RunFailsWell == DeployerInv /\ RunFails => DeployerInv'
BY RunEndsWell DEF RunFails, clusterState

LEMMA OthersKeepInv ==
    ASSUME DeployerInv,
           \/ Request \/ ChangeSecret \/ ChangeKey \/ Tick \/ TokenController
           \/ UNCHANGED vars
    PROVE  DeployerInv'
<1>1. CASE Request
  <2>1. now' \in 0..MaxTime
    BY <1>1 DEF Request, DeployerInv, RunInv
  <2> QED
    BY <1>1, <2>1, PairsAreLeftAlone DEF Request, Change, clusterState
<1>2. CASE ChangeSecret
  BY <1>2, SecretMayChange DEF ChangeSecret, Change
<1>3. CASE ChangeKey
  BY <1>3, SecretMayChange DEF ChangeKey, Change
<1>4. CASE Tick
  <2>1. now' \in 0..MaxTime
    BY <1>4, DeployerAssumption DEF Tick, DeployerInv, RunInv
  <2> QED
    BY <1>4, <2>1, PairsAreLeftAlone DEF Tick, clusterState, imports
<1>5. CASE TokenController
  BY <1>5, PairsAreLeftAlone DEF TokenController, imports
<1>6. CASE UNCHANGED vars
  BY <1>6, PairsAreLeftAlone DEF vars, clusterState, imports
<1> QED
  BY <1>1, <1>2, <1>3, <1>4, <1>5, <1>6

LEMMA NextKeepsDeployerInv == DeployerInv /\ [Next]_vars => DeployerInv'
BY RunStarts, ReconcileKeepsInv, DeleteKeepsInv, RunFailsWell, NamespaceTakesBoth,
   OthersKeepInv DEF Next

-----------------------------------------------------------------------------
LEMMA DeployerInvHolds == Spec => []DeployerInv
BY InitiallyInv, NextKeepsDeployerInv, PTL DEF Spec

(***************************************************************************)
(* Type correctness: a run holds a pair exactly while it works on the      *)
(* overlays, and deletions stay within their list.                         *)
(***************************************************************************)
THEOREM DeployerIsTyped == Spec => []DeployerTypeOK
<1>1. DeployerInv => DeployerTypeOK
  BY DEF DeployerInv
<1> QED
  BY <1>1, DeployerInvHolds, PTL

(***************************************************************************)
(* A run that reports success leaves a trusted webhook with a fifth of the *)
(* lifetime of its certificate left, as long as nothing else happens:      *)
(* wherever earlier runs ended, and whether the stored secret was removed, *)
(* damaged or exchanged - unless a certificate in order was stored beside  *)
(* the key of another one, which is then deployed.                         *)
(***************************************************************************)
THEOREM SuccessIsTrust == Spec => []ReconciledIsTrusted
<1>1. DeployerInv => ReconciledIsTrusted
  BY DEF DeployerInv
<1> QED
  BY <1>1, DeployerInvHolds, PTL

(* Whatever a run puts in place of the pair it found trusted is that pair. *)
LEMMA RunsKeepTrust ==
    ASSUME DeployerInv, Trusted, Reconcile \/ RunFails
    PROVE  Trusted'
<1>1. CASE RunFails
  BY <1>1, TrustStays DEF RunFails, clusterState
<1>2. CASE setTLSCertificate
  BY <1>2, TrustStays DEF setTLSCertificate, clusterState
<1>3. CASE setGardenloginKubeconfig
  BY <1>3, TrustStays DEF setGardenloginKubeconfig, clusterState
<1>4. ASSUME NEW c \in {"single", "application", "runtime"}, NEW next,
             buildAndApplyOverlay(c, next)
      PROVE  Trusted'
  <2>1. tls # Absent /\ tls = secret
    BY <1>4 DEF buildAndApplyOverlay, DeployerInv, DeployerTypeOK, TrustInv
  <2>2. server' \in {server, tls} /\ caBundle' \in {caBundle, tls.cert}
    BY <1>4 DEF buildAndApplyOverlay
  <2>3. UNCHANGED <<now, secret, server, caBundle>>
    BY <1>4, <2>1, <2>2 DEF buildAndApplyOverlay, Trusted, Agreed
  <2> QED
    BY <2>3, TrustStays
<1>5. CASE createOrUpdateTLSSecret
  <2>1. secret' = secret
    BY <1>5 DEF createOrUpdateTLSSecret, DeployerInv, DeployerTypeOK, TrustInv
  <2> QED
    BY <1>5, <2>1, TrustStays DEF createOrUpdateTLSSecret
<1> QED
  BY <1>1, <1>2, <1>3, <1>4, <1>5 DEF Reconcile

(***************************************************************************)
(* No run, finished or failed, exchanges a certificate that works, or      *)
(* breaks the trust in it, whatever is changed by others meanwhile.        *)
(***************************************************************************)
THEOREM TrustIsAlwaysKept == Spec => TrustIsKept
<1>1. DeployerInv /\ [Next]_vars => [Trusted /\ ~Trusted' => ~(Reconcile \/ RunFails)]_vars
  BY RunsKeepTrust
<1> QED
  BY <1>1, DeployerInvHolds, PTL DEF Spec, TrustIsKept
=============================================================================
