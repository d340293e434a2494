--------------------------- MODULE RolloutProofs ----------------------------
(***************************************************************************)
(* Proofs about Rollout, for any clusters, namespaces, imports and         *)
(* configurations: what the validation accepts is enough for the           *)
(* operations, which keep to the clusters they were given and away from    *)
(* the projects, every manager has the settings of some import, and limits *)
(* its loop can work with.                                                 *)
(***************************************************************************)
EXTENDS Rollout, TLAPS

(***************************************************************************)
(* What the run has established by the time it gets to a step.             *)
(***************************************************************************)
Established ==
    /\ pc \in {"validate", "operation"} \cup AtWork =>
            /\ job.imports \in Imports
            /\ job.descriptor \in Seq(Seq(Resources)) /\ Len(job.descriptor) = 1
            /\ \A c \in Containers : Images(job.descriptor[1])[c] \notin {Unset, Broken}
    /\ pc \in {"operation"} \cup AtWork => ValidateImports(job.imports)
    /\ pc \in AtWork => clients = ClustersOf(job.imports)
    /\ pc \in {"kubeconfig", "runtime"} => job.imports.multi

(***************************************************************************)
(* What LoopAssumption of ReconcileLoop.tla demands, of every manager.     *)
(***************************************************************************)
LimitsInOrder ==
    \A c \in Clusters, ns \in Namespaces :
        manager[c][ns] # Unset =>
            /\ manager[c][ns].maxConcurrentReconciles \in Nat \ {0}
            /\ manager[c][ns].maxConcurrentReconcilesPerNamespace
                    <= manager[c][ns].maxConcurrentReconciles

(* The inductive invariant, in its two halves. *)
RunInv ==
    /\ inputs \in Inputs /\ job \in Inputs \cup {Unset}
    /\ pc \in AtWork \cup {"idle", "options", "load", "validate", "operation"}
    /\ pc = "idle" <=> job = Unset
    /\ clients \in [Roles -> Clusters \cup {Unset}]
    /\ pc \in AtWork =>
            {r \in Roles : clients[r] # Unset} = Named(job.imports)
    /\ Established

ClusterInv ==
    /\ cluster \in [Clusters -> State]
    /\ manager \in [Clusters -> [Namespaces -> Config \cup {Unset}]]
    /\ ProjectsKept /\ SettingsAreMeant /\ LimitsInOrder

RolloutInv == RunInv /\ ClusterInv

-----------------------------------------------------------------------------
(* An operator who edits the inputs keeps to their types. *)
LEMMA EditsAreInputs ==
    ASSUME NEW in \in Inputs, NEW out \in InputsLike(in)
    PROVE  out \in Inputs
<1> USE RolloutAssumption
<1>1. CASE \E i \in {Broken} \cup
                IF in.imports = Broken THEN {} ELSE ImportsLike(in.imports) :
                    out = [in EXCEPT !.imports = i]
  <2>1. PICK i \in {Broken} \cup
                IF in.imports = Broken THEN {} ELSE ImportsLike(in.imports) :
                    out = [in EXCEPT !.imports = i]
    BY <1>1
  <2>2. i \in Imports \cup {Broken}
    <3>1. CASE i = Broken
      BY <3>1
    <3>2. CASE i # Broken
      <4>1. in.imports \in Imports /\ i \in ImportsLike(in.imports)
        BY <2>1, <3>2 DEF Inputs
      <4>2. OtherTargets \subseteq Targets
        BY DEF OtherTargets, Targets, Configurations
      <4> DEFINE old == in.imports
      <4>3. CASE i \in {[old EXCEPT !.multi = ~@], [old EXCEPT !.namePrefix = Unset],
                        [old EXCEPT !.endpoint = Unset]}
        <5>1. ASSUME NEW b \in BOOLEAN PROVE [old EXCEPT !.multi = b] \in Imports
          BY <4>1 DEF Imports
        <5>2. [old EXCEPT !.multi = ~@] \in Imports
          <6>1. (~old.multi) \in BOOLEAN
            OBVIOUS
          <6>2. [old EXCEPT !.multi = ~old.multi] \in Imports
            BY <5>1, <6>1, Zenon
          <6> QED
            BY <6>2, Zenon
        <5>3. /\ [old EXCEPT !.namePrefix = Unset] \in Imports
              /\ [old EXCEPT !.endpoint = Unset] \in Imports
          BY <4>1 DEF Imports
        <5> HIDE DEF old
        <5> QED
          BY <4>3, <5>2, <5>3, Zenon
      <4>4. CASE \E r \in Roles, t \in OtherTargets : i = [old EXCEPT !.targets[r] = t]
        <5>1. PICK r \in Roles, t \in OtherTargets : i = [old EXCEPT !.targets[r] = t]
          BY <4>4
        <5>2. [old.targets EXCEPT ![r] = t] \in [Roles -> Targets]
          BY <4>1, <4>2 DEF Imports
        <5>3. ASSUME NEW ts \in [Roles -> Targets]
              PROVE  [old EXCEPT !.targets = ts] \in Imports
          BY <4>1 DEF Imports
        <5> HIDE DEF old
        <5>4. i = [old EXCEPT !.targets = [old.targets EXCEPT ![r] = t]]
          BY <5>1, Zenon
        <5> QED
          BY <5>2, <5>3, <5>4, Zenon
      <4>5. CASE \E ns \in Namespaces \cup {Unset} : i = [old EXCEPT !.namespace = ns]
        BY <4>1, <4>5 DEF Imports
      <4>6. CASE \E d \in Documents : i = [old EXCEPT !.managerConfig = d]
        BY <4>1, <4>6 DEF Imports
      <4>7. CASE \E c \in Containers, r \in Requirements :
                    i = [old EXCEPT !.resources[c] = r]
        <5>1. PICK c \in Containers, r \in Requirements :
                    i = [old EXCEPT !.resources[c] = r]
          BY <4>7
        <5>2. [old.resources EXCEPT ![c] = r] \in [Containers -> Requirements]
          BY <4>1 DEF Imports
        <5>3. ASSUME NEW rs \in [Containers -> Requirements]
              PROVE  [old EXCEPT !.resources = rs] \in Imports
          BY <4>1 DEF Imports
        <5> HIDE DEF old
        <5>4. i = [old EXCEPT !.resources = [old.resources EXCEPT ![c] = r]]
          BY <5>1, Zenon
        <5> QED
          BY <5>2, <5>3, <5>4, Zenon
      <4> QED
        BY <4>1, <4>3, <4>4, <4>5, <4>6, <4>7 DEF ImportsLike
    <3> QED
      BY <3>1, <3>2
  <2> QED
    BY <2>1, <2>2 DEF Inputs
<1>2. CASE \E d \in Descriptors : out = [in EXCEPT !.descriptor = d]
  BY <1>2 DEF Inputs
<1>3. CASE \E o \in {Unset, "RECONCILE", "DELETE", "other"} :
                out = [in EXCEPT !.operation = o]
  BY <1>3 DEF Inputs
<1>4. CASE \/ \E p \in Paths : out = [in EXCEPT !.paths = @ \ {p}]
           \/ \E d \in Directories : out = [in EXCEPT !.directories = @ \ {d}]
  BY <1>4 DEF Inputs
<1> QED
  BY <1>1, <1>2, <1>3, <1>4 DEF InputsLike

(* The clients are those of the targets the scenario names. *)
LEMMA ClientsAreTyped ==
    ASSUME NEW i \in Imports
    PROVE  /\ ClustersOf(i) \in [Roles -> Clusters \cup {Unset}]
           /\ {r \in Roles : ClustersOf(i)[r] # Unset} \subseteq Named(i)
<1>1. ASSUME NEW t \in Targets PROVE newClusterFromTarget(t) \in Clusters \cup {Unset}
  BY RolloutAssumption DEF newClusterFromTarget, Targets, Configurations
<1> QED
  BY <1>1 DEF Imports, ClustersOf, Named, Roles

(* A validated target from which a client can be made is a kubeconfig of   *)
(* that client's cluster, and nothing but that.                            *)
LEMMA AcceptedTarget ==
    ASSUME NEW t \in Targets, validateTarget(t), newClusterFromTarget(t) # Unset
    PROVE  t = KubernetesTarget(newClusterFromTarget(t))
<1>1. /\ t.type = "kubernetes-cluster"
      /\ t.configuration \in
            [kubeconfig : Clusters \cup {Unset, Broken}, secretRef : BOOLEAN]
      /\ t.configuration.secretRef = FALSE
  BY DEF validateTarget, Targets, Configurations
<1>2. newClusterFromTarget(t) = t.configuration.kubeconfig
  BY DEF newClusterFromTarget
<1>3. t.configuration =
        [kubeconfig |-> newClusterFromTarget(t), secretRef |-> FALSE]
  BY <1>1, <1>2
<1>4. t = [type |-> t.type, configuration |-> t.configuration]
  BY DEF Targets
<1> QED
  BY <1>1, <1>3, <1>4 DEF KubernetesTarget

(***************************************************************************)
(* An operation works on the clusters the imports name for the two parts,  *)
(* on the one cluster of a single cluster deployment.                      *)
(***************************************************************************)
LEMMA ClustersAreMeant ==
    ASSUME RunInv, pc \in AtWork
    PROVE  /\ runtimeCluster \in Clusters /\ applicationCluster \in Clusters
           /\ IF job.imports.multi
              THEN Given("runtime", runtimeCluster)
                    /\ Given("application", applicationCluster)
              ELSE Given("single", runtimeCluster)
                    /\ applicationCluster = runtimeCluster
           /\ job.imports.namespace \in Namespaces \ ProjectNamespaces
           /\ \A r \in Roles \ Named(job.imports) :
                    job.imports.targets[r].configuration = Unset
<1> DEFINE i == job.imports
<1>1. i \in Imports /\ ValidateImports(i) /\ clients = ClustersOf(i)
  BY DEF RunInv, Established
<1>2. \A r \in Named(i) : clients[r] \in Clusters
  BY DEF RunInv, Named, Roles
<1>3. ASSUME NEW r \in Named(i) PROVE Given(r, clients[r])
  <2>1. r \in Roles /\ i.targets[r] \in Targets
    BY <1>1, <1>3 DEF Named, Roles, Imports
  <2>2. clients[r] = newClusterFromTarget(i.targets[r])
    BY <1>1, <1>3, <2>1 DEF ClustersOf
  <2>3. validateTarget(i.targets[r])
    BY <1>1, <1>3, <2>1 DEF ValidateImports
  <2>4. newClusterFromTarget(i.targets[r]) # Unset
    BY <1>2, <1>3, <2>2, RolloutAssumption
  <2> QED
    BY <2>1, <2>2, <2>3, <2>4, AcceptedTarget DEF Given
<1>4. i.namespace \in Namespaces \ ProjectNamespaces
  BY <1>1 DEF Imports, ValidateImports, validateRequiredFields
<1>5. \A r \in Roles \ Named(i) : i.targets[r].configuration = Unset
  BY <1>1 DEF ValidateImports, validateTargetNotSet
<1>6. i.multi \in BOOLEAN
  BY <1>1 DEF Imports
<1>7. CASE i.multi
  <2>1. "runtime" \in Named(i) /\ "application" \in Named(i)
    BY <1>7 DEF Named
  <2> QED
    BY <1>2, <1>3, <1>4, <1>5, <1>7, <2>1 DEF runtimeCluster, applicationCluster
<1>8. CASE ~i.multi
  <2>1. "single" \in Named(i)
    BY <1>8 DEF Named
  <2> QED
    BY <1>2, <1>3, <1>4, <1>5, <1>8, <2>1 DEF runtimeCluster, applicationCluster
<1> QED
  BY <1>6, <1>7, <1>8

-----------------------------------------------------------------------------
(* An image that was found in a descriptor and could be read. *)
LEMMA ImagesAreRefs ==
    ASSUME NEW resources \in Seq(Resources), NEW c \in Containers,
           Images(resources)[c] \notin {Unset, Broken}
    PROVE  Images(resources)[c] \in ImageRefs
<1> DEFINE name == ResourceName(c)
           first == {resources[i].image : i \in
                {j \in DOMAIN resources :
                    /\ resources[j].name = name
                    /\ \A k \in 1..(j - 1) : resources[k].name # name}}
<1>1. first \subseteq ImageRefs \cup {Broken}
  <2>1. ASSUME NEW i \in DOMAIN resources
        PROVE  resources[i].image \in ImageRefs \cup {Broken}
    <3>1. resources[i] \in Resources
      OBVIOUS
    <3> QED
      BY <3>1 DEF Resources
  <2> HIDE DEF name
  <2> QED
    BY <2>1
<1>2. Images(resources)[c] = IF first = {} THEN Unset ELSE CHOOSE image \in first : TRUE
  BY DEF Images, getImageRef
<1> HIDE DEF first, name
<1>3. first # {} /\ Images(resources)[c] = CHOOSE image \in first : TRUE
  BY <1>2
<1>4. Images(resources)[c] \in first
  BY <1>3
<1> QED
  BY <1>1, <1>4

(* Nor is any other image built than an imported or a shipped one. *)
LEMMA BuiltImagesAreRefs ==
    ASSUME NEW images, \A c \in Containers : images[c] \in ImageRefs, NEW c \in Containers
    PROVE  BuiltImage(setImages(images), c) \in ImageRefs \cup {"shipped"}
<1> DEFINE found == {r \in setImages(images) : /\ r.folder = Blueprint[c].folder
                                               /\ r.name = Blueprint[c].name}
<1>1. \A r \in setImages(images) : r.image \in ImageRefs
  BY DEF setImages, Containers
<1>2. \A r \in found : r.image \in ImageRefs
  BY <1>1
<1>3. BuiltImage(setImages(images), c) =
            IF found = {} THEN "shipped" ELSE (CHOOSE r \in found : TRUE).image
  BY DEF BuiltImage
<1> HIDE DEF found
<1>4. CASE found # {}
  <2>1. (CHOOSE r \in found : TRUE) \in found
    BY <1>4
  <2> QED
    BY <1>2, <1>3, <1>4, <2>1
<1> QED
  BY <1>3, <1>4

LEMMA PatchesAreTyped ==
    ASSUME NEW resources \in [Containers -> Requirements]
    PROVE  patchResourceRequirements(resources) \in
                [Containers -> [Quantities -> Amounts \cup {"shipped"}]]
<1> SUFFICES ASSUME NEW c \in Containers, NEW q \in Quantities, q \in DOMAIN resources[c]
             PROVE  resources[c][q] \in Amounts
  BY DEF patchResourceRequirements
<1>1. PICK S \in SUBSET Quantities : resources[c] \in [S -> Amounts]
  BY DEF Requirements
<1> QED
  BY <1>1

(* What the operations write is typed, and leaves the projects alone. *)
LEMMA WritesAreTyped ==
    ASSUME RunInv, pc \in AtWork, NEW state \in State
    PROVE  /\ WithApplication(state) \in State
           /\ WithRuntime(state) \in State
           /\ WithoutNamespace(state) \in State
           /\ [WithoutNamespace(state) EXCEPT !.webhook = FALSE] \in State
           /\ ProjectNamespaces \subseteq state.namespaces =>
                /\ ProjectNamespaces \subseteq WithApplication(state).namespaces
                /\ ProjectNamespaces \subseteq WithRuntime(state).namespaces
                /\ ProjectNamespaces \subseteq WithoutNamespace(state).namespaces
<1> DEFINE ns == job.imports.namespace
<1>1. ns \in Namespaces \ ProjectNamespaces /\ applicationCluster \in Clusters
  BY ClustersAreMeant
<1>2. /\ job.imports.managerConfig \in Documents
      /\ job.descriptor[1] \in Seq(Resources)
  BY DEF RunInv, Established, Imports
<1> DEFINE images == [c \in Containers |->
                        BuiltImage(setImages(Images(job.descriptor[1])), c)]
           resources == patchResourceRequirements(job.imports.resources)
<1>3. images \in [Containers -> ImageRefs \cup {"shipped"}]
  <2>1. \A c \in Containers : Images(job.descriptor[1])[c] \in ImageRefs
    <3>1. \A c \in Containers : Images(job.descriptor[1])[c] \notin {Unset, Broken}
      BY DEF RunInv, Established
    <3> QED
      BY <1>2, <3>1, ImagesAreRefs
  <2> QED
    BY <2>1, BuiltImagesAreRefs
<1>10. resources \in [Containers -> [Quantities -> Amounts \cup {"shipped"}]]
  <2>1. job.imports.resources \in [Containers -> Requirements]
    BY DEF RunInv, Established, Imports
  <2> QED
    BY <2>1, PatchesAreTyped
<1> DEFINE new == [config |-> job.imports.managerConfig,
                   images |-> images, resources |-> resources,
                   application |-> applicationCluster]
<1>4. new \in Deployments
  <2> HIDE DEF images, resources
  <2> QED
    BY <1>1, <1>2, <1>3, <1>10 DEF Deployments
<1> HIDE DEF new, ns
<1>5. /\ [state.deployment EXCEPT ![ns] = new] \in
                [Namespaces -> Deployments \cup {Unset}]
      /\ [state.deployment EXCEPT ![ns] = Unset] \in
                [Namespaces -> Deployments \cup {Unset}]
  BY <1>1, <1>4 DEF State
<1>6. /\ WithApplication(state) =
            [state EXCEPT !.namespaces = state.namespaces \cup {ns}, !.webhook = TRUE]
      /\ WithRuntime(state) =
            [state EXCEPT !.namespaces = state.namespaces \cup {ns},
                          !.deployment = [state.deployment EXCEPT ![ns] = new]]
      /\ WithoutNamespace(state) =
            [state EXCEPT !.namespaces = state.namespaces \ {ns},
                          !.deployment = [state.deployment EXCEPT ![ns] = Unset]]
  <2>1. WithApplication(state) =
            [state EXCEPT !.namespaces = state.namespaces \cup {ns}, !.webhook = TRUE]
    BY DEF WithApplication, ns, State
  <2>2. WithRuntime(state) =
            [state EXCEPT !.namespaces = state.namespaces \cup {ns},
                          !.deployment = [state.deployment EXCEPT ![ns] = new]]
    BY DEF WithRuntime, ns, new, images, resources, State
  <2>3. WithoutNamespace(state) =
            [state EXCEPT !.namespaces = state.namespaces \ {ns},
                          !.deployment = [state.deployment EXCEPT ![ns] = Unset]]
    BY DEF WithoutNamespace, ns, State
  <2> QED
    BY <2>1, <2>2, <2>3
<1>7. /\ WithApplication(state) \in State
      /\ WithRuntime(state) \in State
      /\ WithoutNamespace(state) \in State
  <2>1. /\ state.namespaces \cup {ns} \in SUBSET Namespaces
        /\ state.namespaces \ {ns} \in SUBSET Namespaces
    BY <1>1 DEF State
  <2>2. [state EXCEPT !.namespaces = state.namespaces \cup {ns}, !.webhook = TRUE]
            \in State
    BY <2>1 DEF State
  <2>3. [state EXCEPT !.namespaces = state.namespaces \cup {ns},
                      !.deployment = [state.deployment EXCEPT ![ns] = new]] \in State
    BY <1>5, <2>1 DEF State
  <2>4. [state EXCEPT !.namespaces = state.namespaces \ {ns},
                      !.deployment = [state.deployment EXCEPT ![ns] = Unset]] \in State
    BY <1>5, <2>1 DEF State
  <2> QED
    BY <1>6, <2>2, <2>3, <2>4, Zenon
<1>8. [WithoutNamespace(state) EXCEPT !.webhook = FALSE] \in State
  <2>1. ASSUME NEW x \in State PROVE [x EXCEPT !.webhook = FALSE] \in State
    BY DEF State
  <2> QED
    BY <1>7, <2>1, Zenon
<1>9. /\ WithApplication(state).namespaces = state.namespaces \cup {ns}
      /\ WithRuntime(state).namespaces = state.namespaces \cup {ns}
      /\ WithoutNamespace(state).namespaces = state.namespaces \ {ns}
  BY <1>6 DEF State
<1> QED
  BY <1>1, <1>7, <1>8, <1>9

-----------------------------------------------------------------------------
LEMMA InitiallyInv == Init => RolloutInv
<1> SUFFICES ASSUME Init PROVE RolloutInv
  OBVIOUS
<1> USE RolloutAssumption DEF Init
<1>1. RunInv
  BY DEF RunInv, Established, NoClients, AtWork
<1>2. ClusterInv
  BY DEF ClusterInv, ProjectsKept, SettingsAreMeant, LimitsInOrder, State
<1> QED
  BY <1>1, <1>2 DEF RolloutInv

(* A run that ends forgets all it knew. *)
LEMMA EndsWell ==
    ASSUME RunInv, RunEnds, inputs' = inputs
    PROVE  RunInv'
BY DEF RunInv, RunEnds, NoClients, Established, AtWork

(* A check establishes what the next step finds established. *)
LEMMA ChecksKeepRun ==
    ASSUME RunInv, validate \/ Load \/ Validate \/ generateKubeconfigFromTokenSecret
    PROVE  RunInv'
<1>1. ASSUME RunEnds, inputs' = inputs PROVE RunInv'
  BY <1>1, EndsWell
<1>2. CASE validate
  <2>1. CASE pc' = "load" /\ UNCHANGED <<job, clients, inputs>>
    BY <1>2, <2>1 DEF RunInv, Established, AtWork, validate, Check
  <2> QED
    BY <1>1, <1>2, <2>1 DEF validate, Check
<1>3. CASE Load
  <2>1. CASE /\ pc = "load" /\ pc' = "validate" /\ UNCHANGED <<job, clients, inputs>>
             /\ job.imports # Broken
             /\ job.descriptor # Broken /\ Len(job.descriptor) = 1
             /\ \A c \in Containers :
                    Images(job.descriptor[1])[c] \notin {Unset, Broken}
    <3>1. job \in Inputs
      BY <2>1 DEF RunInv
    <3>2. job.imports \in Imports /\ job.descriptor \in Seq(Seq(Resources))
      BY <2>1, <3>1 DEF Inputs
    <3> QED
      BY <2>1, <3>1, <3>2 DEF RunInv, Established, AtWork
  <2> QED
    BY <1>1, <1>3, <2>1 DEF Load, Check
<1>4. CASE Validate
  <2>1. CASE /\ pc = "validate" /\ pc' = "operation" /\ UNCHANGED <<job, clients, inputs>>
             /\ ValidateImports(job.imports)
    BY <2>1 DEF RunInv, Established, AtWork
  <2> QED
    BY <1>1, <1>4, <2>1 DEF Validate, Check
<1>5. CASE generateKubeconfigFromTokenSecret
  <2>1. CASE /\ pc = "kubeconfig" /\ pc' = "runtime" /\ UNCHANGED <<job, clients, inputs>>
    BY <2>1 DEF RunInv, Established, AtWork
  <2> QED
    BY <1>1, <1>5, <2>1 DEF generateKubeconfigFromTokenSecret, Check
<1> QED
  BY <1>2, <1>3, <1>4, <1>5

(* No operation begins without the clients it needs. *)
LEMMA NewOperationKeepsRun ==
    ASSUME RunInv, NewOperation
    PROVE  RunInv'
<1> DEFINE made == ClustersOf(job.imports)
<1>1. CASE \E r \in Named(job.imports) : made[r] = Unset
  BY <1>1, EndsWell DEF NewOperation
<1>2. CASE \A r \in Named(job.imports) : made[r] # Unset
  <2>1. /\ pc = "operation" /\ UNCHANGED <<inputs, job>> /\ clients' = made
        /\ pc' \in {"delete", "reconcile"}
    BY <1>2 DEF NewOperation
  <2>2. job # Unset /\ job \in Inputs /\ job.imports \in Imports
    BY <2>1 DEF RunInv, Established
  <2>3. /\ made \in [Roles -> Clusters \cup {Unset}]
        /\ {r \in Roles : made[r] # Unset} \subseteq Named(job.imports)
    BY <2>2, ClientsAreTyped
  <2>4. Named(job.imports) \subseteq Roles
    BY DEF Named, Roles
  <2>5. {r \in Roles : clients'[r] # Unset} = Named(job'.imports)
    BY <1>2, <2>1, <2>3, <2>4
  <2>6. Established'
    BY <2>1, <2>2 DEF RunInv, Established, AtWork
  <2> HIDE DEF made
  <2> QED
    BY <2>1, <2>2, <2>3, <2>5, <2>6 DEF RunInv, AtWork
<1> QED
  BY <1>1, <1>2

-----------------------------------------------------------------------------
(* A cluster that is changed by the book stays in order. *)
LEMMA ChangedByTheBook ==
    ASSUME ClusterInv, NEW c \in Clusters, NEW state \in State,
           ProjectNamespaces \subseteq state.namespaces,
           cluster' = [cluster EXCEPT ![c] = state], manager' = manager
    PROVE  ClusterInv'
<1>1. cluster' \in [Clusters -> State]
  BY DEF ClusterInv
<1>2. ProjectsKept'
  BY DEF ClusterInv, ProjectsKept
<1>3. SettingsAreMeant' /\ LimitsInOrder'
  BY DEF ClusterInv, SettingsAreMeant, LimitsInOrder
<1> QED
  BY <1>1, <1>2, <1>3 DEF ClusterInv

(* So does everything when a manager is gone. *)
LEMMA ManagerGone ==
    ASSUME ClusterInv, NEW c \in Clusters, NEW ns \in Namespaces,
           manager' = [manager EXCEPT ![c][ns] = Unset]
    PROVE  /\ manager' \in [Clusters -> [Namespaces -> Config \cup {Unset}]]
           /\ SettingsAreMeant' /\ LimitsInOrder'
<1>1. \A d \in Clusters : manager[d] \in [Namespaces -> Config \cup {Unset}]
  BY DEF ClusterInv
<1>2. [manager[c] EXCEPT ![ns] = Unset] \in [Namespaces -> Config \cup {Unset}]
  BY <1>1
<1>3. manager' \in [Clusters -> [Namespaces -> Config \cup {Unset}]]
  BY <1>2 DEF ClusterInv
<1>4. ASSUME NEW d \in Clusters, NEW n \in Namespaces, manager'[d][n] # Unset
      PROVE  manager'[d][n] = manager[d][n]
  BY <1>1, <1>4 DEF ClusterInv
<1>5. LimitsInOrder'
  BY <1>4 DEF ClusterInv, LimitsInOrder
<1>6. SettingsAreMeant'
  <2> SUFFICES ASSUME NEW d \in Clusters, NEW n \in Namespaces, manager'[d][n] # Unset
               PROVE  \E doc \in Documents \ {Unset} :
                        manager'[d][n] = [f \in Fields |-> Limit(doc, f)]
    BY DEF SettingsAreMeant, Limit
  <2>1. manager'[d][n] = manager[d][n]
    BY <1>4
  <2> QED
    BY <2>1, Zenon DEF ClusterInv, SettingsAreMeant
<1> QED
  BY <1>3, <1>5, <1>6

(* Overlays and deletions. *)
LEMMA OperationsKeepClusters ==
    ASSUME RolloutInv,
           applySingle \/ applyApplication \/ applyRuntime \/ Delete
    PROVE  ClusterInv'
<1>1. RunInv /\ ClusterInv /\ pc \in AtWork
  BY DEF RolloutInv, applySingle, applyApplication, applyRuntime, Delete,
         deleteRuntimeResources, deleteApplicationResources, AtWork
<1> DEFINE rt == runtimeCluster
           app == applicationCluster
           ns == job.imports.namespace
<1>2. rt \in Clusters /\ app \in Clusters /\ ns \in Namespaces
  BY <1>1, ClustersAreMeant
<1>3. /\ cluster[rt] \in State /\ ProjectNamespaces \subseteq cluster[rt].namespaces
      /\ cluster[app] \in State /\ ProjectNamespaces \subseteq cluster[app].namespaces
  BY <1>1, <1>2 DEF ClusterInv, ProjectsKept
<1>4. CASE applySingle
  <2>1. /\ WithApplication(cluster[rt]) \in State
        /\ ProjectNamespaces \subseteq WithApplication(cluster[rt]).namespaces
    BY <1>1, <1>3, WritesAreTyped
  <2>2. /\ WithRuntime(WithApplication(cluster[rt])) \in State
        /\ ProjectNamespaces \subseteq
                WithRuntime(WithApplication(cluster[rt])).namespaces
    BY <1>1, <2>1, WritesAreTyped
  <2>3. /\ cluster' = [cluster EXCEPT ![rt] = WithRuntime(WithApplication(cluster[rt]))]
        /\ manager' = manager
    BY <1>4 DEF applySingle
  <2> HIDE DEF rt
  <2> QED
    BY <1>1, <1>2, <2>2, <2>3, ChangedByTheBook
<1>5. CASE applyApplication
  <2>1. /\ WithApplication(cluster[app]) \in State
        /\ ProjectNamespaces \subseteq WithApplication(cluster[app]).namespaces
    BY <1>1, <1>3, WritesAreTyped
  <2>2. /\ cluster' = [cluster EXCEPT ![app] = WithApplication(cluster[app])]
        /\ manager' = manager
    BY <1>5 DEF applyApplication
  <2> HIDE DEF app
  <2> QED
    BY <1>1, <1>2, <2>1, <2>2, ChangedByTheBook
<1>6. CASE applyRuntime
  <2>1. /\ WithRuntime(cluster[rt]) \in State
        /\ ProjectNamespaces \subseteq WithRuntime(cluster[rt]).namespaces
    BY <1>1, <1>3, WritesAreTyped
  <2>2. /\ cluster' = [cluster EXCEPT ![rt] = WithRuntime(cluster[rt])]
        /\ manager' = manager
    BY <1>6 DEF applyRuntime
  <2> HIDE DEF rt
  <2> QED
    BY <1>1, <1>2, <2>1, <2>2, ChangedByTheBook
<1>7. CASE deleteRuntimeResources
  <2>1. /\ WithoutNamespace(cluster[rt]) \in State
        /\ ProjectNamespaces \subseteq WithoutNamespace(cluster[rt]).namespaces
    BY <1>1, <1>3, WritesAreTyped
  <2>2. /\ cluster' = [cluster EXCEPT ![rt] = WithoutNamespace(cluster[rt])]
        /\ manager' = [manager EXCEPT ![rt][ns] = Unset]
    BY <1>7 DEF deleteRuntimeResources
  <2> HIDE DEF rt, ns
  <2>3. cluster' \in [Clusters -> State] /\ ProjectsKept'
    BY <1>1, <1>2, <2>1, <2>2 DEF ClusterInv, ProjectsKept
  <2> QED
    BY <1>1, <1>2, <2>2, <2>3, ManagerGone DEF ClusterInv
<1>8. CASE deleteApplicationResources
  <2> DEFINE state == [WithoutNamespace(cluster[app]) EXCEPT !.webhook = FALSE]
  <2>1. state \in State /\ ProjectNamespaces \subseteq state.namespaces
    <3>1. /\ state \in State /\ WithoutNamespace(cluster[app]) \in State
          /\ ProjectNamespaces \subseteq WithoutNamespace(cluster[app]).namespaces
      BY <1>1, <1>3, WritesAreTyped
    <3>2. state.namespaces = WithoutNamespace(cluster[app]).namespaces
      BY <3>1 DEF State
    <3> QED
      BY <3>1, <3>2
  <2>2. /\ cluster' = [cluster EXCEPT ![app] = state]
        /\ manager' = [manager EXCEPT ![app][ns] = Unset]
    BY <1>8 DEF deleteApplicationResources
  <2> HIDE DEF app, ns, state
  <2>3. cluster' \in [Clusters -> State] /\ ProjectsKept'
    BY <1>1, <1>2, <2>1, <2>2 DEF ClusterInv, ProjectsKept
  <2> QED
    BY <1>1, <1>2, <2>2, <2>3, ManagerGone DEF ClusterInv
<1> QED
  BY <1>4, <1>5, <1>6, <1>7, <1>8 DEF Delete

(* A manager that starts has settings that were meant, in order. *)
LEMMA ManagersStartInOrder ==
    ASSUME ClusterInv, NEW c \in Clusters, NEW ns \in Namespaces, StartManager(c, ns)
    PROVE  ClusterInv'
<1> DEFINE cfg == Decoded(cluster[c].deployment[ns].config)
<1>1. cluster[c].deployment[ns] \in Deployments
  <2>1. cluster[c].deployment[ns] \in Deployments \cup {Unset}
    BY DEF ClusterInv, State
  <2> QED
    BY <2>1 DEF StartManager
<1>2. cfg \in Config
  <2>1. cluster[c].deployment[ns].config \in Documents
    BY <1>1 DEF Deployments
  <2>2. ASSUME NEW doc \in Documents PROVE Decoded(doc) \in Config
    <3>1. \A f \in Fields : Default[f] \in Int
      BY DEF Default, Fields
    <3>2. \A f \in Fields : doc # Unset /\ f \in DOMAIN doc => doc[f] \in Int
      BY RolloutAssumption
    <3> QED
      BY <3>1, <3>2 DEF Decoded, Config
  <2> QED
    BY <2>1, <2>2
<1>3. /\ cfg.maxConcurrentReconciles \in Nat \ {0}
      /\ cfg.maxConcurrentReconcilesPerNamespace <= cfg.maxConcurrentReconciles
  <2>1. cfg.maxConcurrentReconciles \in Int
    BY <1>2 DEF Config, Fields
  <2>2. validateConfig(cfg)
    BY DEF StartManager
  <2> HIDE DEF cfg
  <2> QED
    BY <2>1, <2>2 DEF validateConfig
<1>10. \E doc \in Documents \ {Unset} : cfg = [f \in Fields |-> Limit(doc, f)]
  <2> DEFINE doc == cluster[c].deployment[ns].config
  <2>1. doc \in Documents
    BY <1>1 DEF Deployments
  <2>2. doc # Unset
    <3>1. ASSUME doc = Unset PROVE cfg.maxConcurrentReconciles = 0
      BY <3>1 DEF Decoded, Fields
    <3> HIDE DEF cfg, doc
    <3> QED
      BY <1>3, <3>1
  <2>3. cfg = [f \in Fields |-> Limit(doc, f)]
    BY <2>2 DEF Decoded, Limit
  <2> QED
    BY <2>1, <2>2, <2>3
<1>4. manager' = [manager EXCEPT ![c][ns] = cfg] /\ cluster' = cluster
  BY DEF StartManager
<1> HIDE DEF cfg
<1>5. \A d \in Clusters : manager[d] \in [Namespaces -> Config \cup {Unset}]
  BY DEF ClusterInv
<1>6. manager' \in [Clusters -> [Namespaces -> Config \cup {Unset}]]
  <2>1. [manager[c] EXCEPT ![ns] = cfg] \in [Namespaces -> Config \cup {Unset}]
    BY <1>2, <1>5
  <2> QED
    BY <1>4, <2>1 DEF ClusterInv
<1>7. ASSUME NEW d \in Clusters, NEW n \in Namespaces
      PROVE  manager'[d][n] = cfg \/ manager'[d][n] = manager[d][n]
  BY <1>4, <1>5 DEF ClusterInv
<1>8. LimitsInOrder'
  BY <1>3, <1>7 DEF ClusterInv, LimitsInOrder
<1>11. SettingsAreMeant'
  <2> SUFFICES ASSUME NEW d \in Clusters, NEW n \in Namespaces, manager'[d][n] # Unset
               PROVE  \E doc \in Documents \ {Unset} :
                        manager'[d][n] = [f \in Fields |-> Limit(doc, f)]
    BY DEF SettingsAreMeant, Limit
  <2>1. CASE manager'[d][n] = cfg
    BY <1>10, <2>1, Zenon
  <2>2. CASE manager'[d][n] = manager[d][n]
    <3>1. manager[d][n] # Unset
      BY <2>2
    <3>2. PICK doc \in Documents \ {Unset} :
                manager[d][n] = [f \in Fields |-> Limit(doc, f)]
      BY <3>1, Zenon DEF ClusterInv, SettingsAreMeant
    <3> QED
      BY <2>2, <3>2, Zenon
  <2> QED
    BY <1>7, <2>1, <2>2
<1>9. ProjectsKept'
  BY <1>4 DEF ClusterInv, ProjectsKept
<1> QED
  BY <1>4, <1>6, <1>8, <1>9, <1>11 DEF ClusterInv

-----------------------------------------------------------------------------
LEMMA NextKeepsInv == RolloutInv /\ [Next]_vars => RolloutInv'
<1> SUFFICES ASSUME RolloutInv, [Next]_vars PROVE RolloutInv'
  OBVIOUS
<1>1. RunInv /\ ClusterInv
  BY DEF RolloutInv
<1>2. ASSUME UNCHANGED <<cluster, manager>> PROVE ClusterInv'
  BY <1>1, <1>2 DEF ClusterInv, ProjectsKept, SettingsAreMeant, LimitsInOrder
<1>3. CASE Launch
  <2>1. RunInv'
    BY <1>1, <1>3, RolloutAssumption DEF RunInv, Launch, Established, AtWork
  <2> QED
    BY <1>2, <1>3, <2>1 DEF Launch, RolloutInv
<1>4. CASE validate \/ Load \/ Validate \/ generateKubeconfigFromTokenSecret
  <2>1. UNCHANGED <<cluster, manager>>
    BY <1>4 DEF validate, Load, Validate, generateKubeconfigFromTokenSecret, Check
  <2> QED
    BY <1>1, <1>2, <1>4, <2>1, ChecksKeepRun DEF RolloutInv
<1>5. CASE NewOperation
  <2>1. UNCHANGED <<cluster, manager>>
    BY <1>5 DEF NewOperation
  <2> QED
    BY <1>1, <1>2, <1>5, <2>1, NewOperationKeepsRun DEF RolloutInv
<1>6. CASE applySingle \/ applyRuntime \/ deleteApplicationResources
  <2>1. RunInv'
    BY <1>1, <1>6, EndsWell DEF applySingle, applyRuntime, deleteApplicationResources
  <2> QED
    BY <1>6, <2>1, OperationsKeepClusters DEF RolloutInv, Delete
<1>7. CASE applyApplication
  <2>1. RunInv'
    BY <1>1, <1>7 DEF RunInv, applyApplication, Established, AtWork
  <2> QED
    BY <1>7, <2>1, OperationsKeepClusters DEF RolloutInv
<1>8. CASE deleteRuntimeResources
  <2>1. RunInv'
    BY <1>1, <1>8 DEF RunInv, deleteRuntimeResources, Established, AtWork
  <2> QED
    BY <1>8, <2>1, OperationsKeepClusters DEF RolloutInv, Delete
<1>9. CASE RunFails
  <2>1. RunInv' /\ UNCHANGED <<cluster, manager>>
    BY <1>1, <1>9, EndsWell DEF RunFails
  <2> QED
    BY <1>2, <2>1 DEF RolloutInv
<1>10. CASE Edit
  <2>1. inputs' \in Inputs
    BY <1>1, <1>10, EditsAreInputs, RolloutAssumption DEF Edit, RunInv
  <2>2. UNCHANGED <<run, cluster, manager>>
    BY <1>10 DEF Edit
  <2>3. RunInv'
    BY <1>1, <2>1, <2>2 DEF RunInv, Established, run
  <2> QED
    BY <1>2, <2>2, <2>3 DEF RolloutInv
<1>11. CASE \E c \in Clusters, ns \in Namespaces : StartManager(c, ns)
  <2>1. UNCHANGED <<inputs, run>>
    BY <1>11 DEF StartManager
  <2>2. RunInv'
    BY <1>1, <2>1 DEF RunInv, Established, run
  <2> QED
    BY <1>1, <1>11, <2>2, ManagersStartInOrder DEF RolloutInv
<1>12. CASE UNCHANGED vars
  <2>1. RunInv' /\ UNCHANGED <<cluster, manager>>
    BY <1>1, <1>12 DEF RunInv, Established, vars, run
  <2> QED
    BY <1>2, <2>1 DEF RolloutInv
<1> QED
  BY <1>3, <1>4, <1>5, <1>6, <1>7, <1>8, <1>9, <1>10, <1>11, <1>12
     DEF Next, RunStep, Reconcile, Delete

LEMMA InvHolds == Spec => []RolloutInv
BY InitiallyInv, NextKeepsInv, PTL DEF Spec

(***************************************************************************)
(* Type correctness: an operation has a client for each cluster of its     *)
(* scenario and for no other (runtimeCluster and applicationCluster of     *)
(* operation.go are never nil).                                            *)
(***************************************************************************)
THEOREM RolloutIsTyped == Spec => []RolloutTypeOK
<1>1. RolloutInv => RolloutTypeOK
  BY DEF RolloutInv, RunInv, ClusterInv, RolloutTypeOK
<1> QED
  BY <1>1, InvHolds, PTL

(***************************************************************************)
(* No run, whatever it is given, removes the namespace of a project.       *)
(***************************************************************************)
THEOREM ProjectsAreKept == Spec => []ProjectsKept
<1>1. RolloutInv => ProjectsKept
  BY DEF RolloutInv, ClusterInv
<1> QED
  BY <1>1, InvHolds, PTL

(***************************************************************************)
(* Each manager that runs has, setting by setting, what some document says *)
(* or the default, whatever managerConfig was imported: one that is left   *)
(* out resets all of them, and no manager starts on that.                  *)
(***************************************************************************)
THEOREM SettingsAreAlwaysMeant == Spec => []SettingsAreMeant
<1>1. RolloutInv => SettingsAreMeant
  BY DEF RolloutInv, ClusterInv
<1> QED
  BY <1>1, InvHolds, PTL

(***************************************************************************)
(* What is proved of the loop holds for every manager that was rolled out. *)
(***************************************************************************)
COROLLARY LimitsAreInOrder == Spec => []LimitsInOrder
<1>1. RolloutInv => LimitsInOrder
  BY DEF RolloutInv, ClusterInv
<1> QED
  BY <1>1, InvHolds, PTL

-----------------------------------------------------------------------------
(* What the parts of an operation leave alone in a cluster. *)
LEMMA PartsAreKept ==
    ASSUME NEW state \in State
    PROVE  /\ WithApplication(state).deployment = state.deployment
           /\ WithRuntime(state).webhook = state.webhook
           /\ WithoutNamespace(state).webhook = state.webhook
           /\ \A ns \in Namespaces :
                /\ WithRuntime(state).deployment[ns] # state.deployment[ns]
                        => WithRuntime(state).deployment[ns].application
                                = applicationCluster
                /\ WithoutNamespace(state).deployment[ns] \in
                        {Unset, state.deployment[ns]}
                /\ [WithoutNamespace(state) EXCEPT !.webhook = FALSE].deployment[ns] \in
                        {Unset, state.deployment[ns]}
<1>1. /\ WithApplication(state).deployment = state.deployment
      /\ WithRuntime(state).webhook = state.webhook
      /\ WithoutNamespace(state).webhook = state.webhook
  BY DEF WithApplication, WithRuntime, WithoutNamespace, State
<1> DEFINE new == [config |-> job.imports.managerConfig,
                   images |-> [c \in Containers |->
                        BuiltImage(setImages(Images(job.descriptor[1])), c)],
                   resources |-> patchResourceRequirements(job.imports.resources),
                   application |-> applicationCluster]
<1>2. new.application = applicationCluster
  OBVIOUS
<1>3. WithRuntime(state).deployment =
            [state.deployment EXCEPT ![job.imports.namespace] = new]
  BY DEF WithRuntime, State
<1>4. WithoutNamespace(state).deployment =
            [state.deployment EXCEPT ![job.imports.namespace] = Unset]
  BY DEF WithoutNamespace, State
<1>5. [WithoutNamespace(state) EXCEPT !.webhook = FALSE].deployment =
            WithoutNamespace(state).deployment
  BY DEF WithoutNamespace, State
<1>6. DOMAIN state.deployment = Namespaces
  BY DEF State
<1> HIDE DEF new
<1> QED
  BY <1>1, <1>2, <1>3, <1>4, <1>5, <1>6

(***************************************************************************)
(* A run changes only clusters that its imports name, each in the part     *)
(* they name it for.                                                       *)
(***************************************************************************)
THEOREM ClustersAreRight == Spec => RightClusters
<1> DEFINE Right ==
    \A c \in Clusters : cluster'[c] # cluster[c] =>
        /\ \A r \in Roles \ Named(job.imports) :
                job.imports.targets[r].configuration = Unset
        /\ \E r \in Named(job.imports) : Given(r, c)
        /\ job.imports.multi /\ cluster'[c].webhook # cluster[c].webhook
                => Given("application", c)
        /\ \A ns \in Namespaces :
            cluster'[c].deployment[ns] \notin {Unset, cluster[c].deployment[ns]}
                /\ job.imports.multi
            => /\ Given("runtime", c)
               /\ Given("application", cluster'[c].deployment[ns].application)
<1>1. ASSUME RolloutInv, Next PROVE Right
  <2>1. CASE cluster' = cluster
    BY <2>1
  <2>2. CASE applySingle \/ applyApplication \/ applyRuntime \/ Delete
    <3>1. RunInv /\ pc \in AtWork
      BY <1>1, <2>2 DEF RolloutInv, applySingle, applyApplication, applyRuntime,
            Delete, deleteRuntimeResources, deleteApplicationResources, AtWork
    <3> DEFINE rt == runtimeCluster
               app == applicationCluster
    <3>2. /\ rt \in Clusters /\ app \in Clusters
          /\ IF job.imports.multi
             THEN Given("runtime", rt) /\ Given("application", app)
             ELSE Given("single", rt) /\ app = rt
          /\ \A r \in Roles \ Named(job.imports) :
                    job.imports.targets[r].configuration = Unset
      BY <3>1, ClustersAreMeant
    <3>3. \A c \in Clusters : cluster[c] \in State
      BY <1>1 DEF RolloutInv, ClusterInv
    <3>4. DOMAIN cluster = Clusters
      BY <1>1 DEF RolloutInv, ClusterInv
    <3>5. \A c \in {rt, app} : \E r \in Named(job.imports) : Given(r, c)
      BY <3>2 DEF Named
    <3>6. CASE applySingle
      <4>1. /\ ~job.imports.multi
            /\ \E x : cluster' = [cluster EXCEPT ![rt] = x]
        BY <3>6 DEF applySingle
      <4> QED
        BY <3>2, <3>4, <3>5, <4>1
    <3>7. CASE applyApplication
      <4>1. cluster' = [cluster EXCEPT ![app] = WithApplication(cluster[app])]
            /\ job.imports.multi
        BY <3>7 DEF applyApplication
      <4>2. WithApplication(cluster[app]).deployment = cluster[app].deployment
        BY <3>2, <3>3, PartsAreKept
      <4> HIDE DEF app, rt
      <4> QED
        BY <3>2, <3>4, <3>5, <4>1, <4>2
    <3>8. CASE applyRuntime
      <4>1. cluster' = [cluster EXCEPT ![rt] = WithRuntime(cluster[rt])]
        BY <3>8 DEF applyRuntime
      <4>2. /\ WithRuntime(cluster[rt]).webhook = cluster[rt].webhook
            /\ \A ns \in Namespaces :
                WithRuntime(cluster[rt]).deployment[ns] # cluster[rt].deployment[ns]
                    => WithRuntime(cluster[rt]).deployment[ns].application = app
        BY <3>2, <3>3, PartsAreKept
      <4> HIDE DEF app, rt
      <4> QED
        BY <3>2, <3>4, <3>5, <4>1, <4>2
    <3>9. CASE deleteRuntimeResources
      <4>1. cluster' = [cluster EXCEPT ![rt] = WithoutNamespace(cluster[rt])]
        BY <3>9 DEF deleteRuntimeResources
      <4>2. /\ WithoutNamespace(cluster[rt]).webhook = cluster[rt].webhook
            /\ \A ns \in Namespaces : WithoutNamespace(cluster[rt]).deployment[ns]
                                        \in {Unset, cluster[rt].deployment[ns]}
        BY <3>2, <3>3, PartsAreKept
      <4> HIDE DEF app, rt
      <4> QED
        BY <3>2, <3>4, <3>5, <4>1, <4>2
    <3>10. CASE deleteApplicationResources
      <4> DEFINE state == [WithoutNamespace(cluster[app]) EXCEPT !.webhook = FALSE]
      <4>1. cluster' = [cluster EXCEPT ![app] = state]
        BY <3>10 DEF deleteApplicationResources
      <4>2. \A ns \in Namespaces :
                state.deployment[ns] \in {Unset, cluster[app].deployment[ns]}
        BY <3>2, <3>3, PartsAreKept
      <4> HIDE DEF app, rt, state
      <4> QED
        BY <3>2, <3>4, <3>5, <4>1, <4>2
    <3> QED
      BY <2>2, <3>6, <3>7, <3>8, <3>9, <3>10 DEF Delete
  <2> HIDE DEF Right
  <2> QED
    BY <1>1, <2>1, <2>2 DEF Next, RunStep, Reconcile, Launch, validate, Load, Validate,
          generateKubeconfigFromTokenSecret, Check, NewOperation, RunFails, Edit,
          StartManager
<1>2. RolloutInv /\ [Next]_vars => [Right]_vars
  BY <1>1
<1> QED
  BY <1>2, InvHolds, PTL DEF Spec, RightClusters
=============================================================================
