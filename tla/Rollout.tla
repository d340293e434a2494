------------------------------ MODULE Rollout -------------------------------
(***************************************************************************)
(* From what an operator hands to landscaper to a manager that runs: the   *)
(* command of the deployer (options, imports, component descriptor,        *)
(* contents), the choice of the clusters it works on, the configuration it *)
(* writes for the manager, and the start of the manager from it.           *)
(*                                                                         *)
(* The operations themselves are coarse here: an overlay is applied in one *)
(* step and a deletion takes effect at once.  Deployer.tla has their       *)
(* detail, for inputs that never change; here the inputs are wrong,        *)
(* incomplete and changed between and during the runs.                     *)
(***************************************************************************)
EXTENDS Integers, Sequences

CONSTANTS
    Unset,               \* a value that is missing, empty or null
    Broken,              \* data that cannot be parsed
    Clusters,
    Namespaces,
    ProjectNamespaces,   \* "garden" and all that begin with "garden-"
    Documents,           \* the values of the import managerConfig
    ImageRefs,
    Quantities, Amounts, \* what a container requires, and how much of it
    Offers,              \* complete inputs that an operator begins with
    Descriptors,         \* component descriptor lists
    MaxEdits,            \* bound: changes of the inputs
    MaxFaults            \* bound: failed calls, killed runs

Roles == {"single", "runtime", "application"}
Paths == {"imports", "content", "descriptor"}
Directories == {"default", "manager", "tls", "runtime manager",
                "virtual garden", "runtime", "single cluster"}
Fields == {"maxConcurrentReconciles", "maxConcurrentReconcilesPerNamespace",
           "quotaExceededRetryDelay", "maxObjectSize"}

Containers == {"manager", "kube-rbac-proxy"}
Requirements == UNION {[S -> Amounts] : S \in SUBSET Quantities}

Configurations ==
    {Unset, Broken} \cup [kubeconfig : Clusters \cup {Unset, Broken}, secretRef : BOOLEAN]
Targets == [type : {Unset, "kubernetes-cluster", "other"}, configuration : Configurations]
Imports ==
    [multi : BOOLEAN, targets : [Roles -> Targets], namespace : Namespaces \cup {Unset},
     namePrefix : {Unset, "gardenlogin-"}, endpoint : {Unset, "endpoint"},
     managerConfig : Documents, resources : [Containers -> Requirements]]
Resources == [name : STRING, image : ImageRefs \cup {Broken}]
Inputs ==
    [operation : {Unset, "RECONCILE", "DELETE", "other"}, paths : SUBSET Paths,
     imports : Imports \cup {Broken},
     descriptor : Seq(Seq(Resources)) \cup {Broken},
     directories : SUBSET Directories]

Config == [Fields -> Int]
Deployments ==
    [config : Documents, application : Clusters,
     images : [Containers -> ImageRefs \cup {"shipped"}],
     resources : [Containers -> [Quantities -> Amounts \cup {"shipped"}]]]
State ==
    [namespaces : SUBSET Namespaces, webhook : BOOLEAN,
     deployment : [Namespaces -> Deployments \cup {Unset}]]

ASSUME RolloutAssumption ==
    /\ ProjectNamespaces \subseteq Namespaces
    /\ Unset \notin Namespaces \cup Clusters \cup ImageRefs \cup {Broken, "gardenlogin-"}
    /\ Broken \notin Clusters \cup Imports
    /\ Unset \notin Inputs \cup Config \cup Deployments
    /\ [kubeconfig : Clusters \cup {Unset, Broken}, secretRef : BOOLEAN]
            \cap {Unset, Broken} = {}
    /\ \A d \in Documents \ {Unset} :
            DOMAIN d \subseteq Fields /\ \A f \in DOMAIN d : d[f] \in Int
    /\ Offers \subseteq Inputs
    /\ Descriptors \subseteq Seq(Seq(Resources)) \cup {Broken}

VARIABLES
    inputs,    \* what the next run is given
    pc, job,   \* the run, with the inputs it was given
    clients,   \* the cluster a client of the run talks to, per target
    cluster,   \* what the runs leave in a cluster
    manager,   \* the configuration of the manager that runs in a namespace
    edits, faults

run == <<pc, job, clients>>
vars == <<inputs, run, cluster, manager, edits, faults>>

-----------------------------------------------------------------------------
(* The configuration of the manager. *)
Default ==
    [maxConcurrentReconciles |-> 50,
     maxConcurrentReconcilesPerNamespace |-> 3,
     quotaExceededRetryDelay |-> 24,
     maxObjectSize |-> 102400]

(* Mutant: a file replaces the defaults as a whole. *)
DecodedWithoutDefaults(doc) ==
    [f \in Fields |-> IF doc # Unset /\ f \in DOMAIN doc THEN doc[f]
                      ELSE IF f = "maxConcurrentReconciles" THEN 50 ELSE 0]

(***************************************************************************)
(* What yaml.v2 leaves in a struct that holds the defaults: keys that are  *)
(* missing stay, and a document that is null resets all of it.             *)
(***************************************************************************)
Decoded(doc) ==
    IF doc = Unset THEN [f \in Fields |-> 0]
    ELSE [f \in Fields |-> IF f \in DOMAIN doc THEN doc[f] ELSE Default[f]]

(* Mutant: the limits are only compared with each other. *)
validateConfigCompared(cfg) ==
    cfg.maxConcurrentReconcilesPerNamespace <= cfg.maxConcurrentReconciles

validateConfig(cfg) ==
    /\ cfg.maxConcurrentReconciles >= 1
    /\ cfg.maxConcurrentReconcilesPerNamespace <= cfg.maxConcurrentReconciles

-----------------------------------------------------------------------------
(* The imports. *)
Named(imports) ==
    IF imports.multi THEN {"runtime", "application"} ELSE {"single"}

KubernetesTarget(c) ==
    [type |-> "kubernetes-cluster",
     configuration |-> [kubeconfig |-> c, secretRef |-> FALSE]]

validateTarget(target) ==
    /\ target.type = "kubernetes-cluster"
    /\ target.configuration \notin {Unset, Broken}
    /\ target.configuration.kubeconfig # Unset
    /\ ~target.configuration.secretRef

validateTargetNotSet(target) == target.configuration = Unset

validateRequiredFields(imports) ==
    imports.namePrefix # Unset /\ imports.namespace # Unset

(* Mutant: project namespaces are let through. *)
ValidateImportsAnyNamespace(imports) ==
    /\ \A r \in Roles :
        IF r \in Named(imports) THEN validateTarget(imports.targets[r])
        ELSE validateTargetNotSet(imports.targets[r])
    /\ validateRequiredFields(imports)

(* Whatever is not used must not be given. *)
ValidateImports(imports) ==
    /\ \A r \in Roles :
        IF r \in Named(imports) THEN validateTarget(imports.targets[r])
        ELSE validateTargetNotSet(imports.targets[r])
    /\ validateRequiredFields(imports)
    /\ imports.namespace \notin ProjectNamespaces

(* The image of the first resource of that name. *)
getImageRef(name, resources) ==
    LET first == {resources[i].image : i \in
            {j \in DOMAIN resources : /\ resources[j].name = name
                                      /\ \A k \in 1..(j - 1) : resources[k].name # name}}
    IN  IF first = {} THEN Unset ELSE CHOOSE image \in first : TRUE

ResourceName(c) ==
    IF c = "manager" THEN "gardenlogin-controller-manager" ELSE "kube-rbac-proxy"

Images(resources) == [c \in Containers |-> getImageRef(ResourceName(c), resources)]

(* kubeconfigFromTarget, and the clients made from it; Unset when it fails. *)
newClusterFromTarget(target) ==
    IF \/ target.configuration \in {Unset, Broken}
       \/ target.configuration.kubeconfig = Broken
    THEN Unset ELSE target.configuration.kubeconfig

-----------------------------------------------------------------------------
(* The command. *)
NoClients == [r \in Roles |-> Unset]

RunEnds == pc' = "idle" /\ job' = Unset /\ clients' = NoClients

(* A check of the run: it goes on, or ends without another step. *)
Check(here, passed, next) ==
    /\ pc = here
    /\ IF passed THEN pc' = next /\ UNCHANGED <<job, clients>> ELSE RunEnds
    /\ UNCHANGED <<inputs, cluster, manager, edits, faults>>

Launch ==
    /\ pc = "idle"
    /\ pc' = "options" /\ job' = inputs
    /\ UNCHANGED <<inputs, clients, cluster, manager, edits, faults>>

(* An operation that is not set is RECONCILE. *)
Deletes(in) == in.operation = "DELETE"

validate ==
    Check("options",
          job.operation \in {Unset, "RECONCILE", "DELETE"} /\ job.paths = Paths,
          "load")

(* ImportsFromFile, ComponentDescriptorFromFile, then the images. *)
Load ==
    Check("load",
          /\ job.imports # Broken
          /\ job.descriptor # Broken /\ Len(job.descriptor) = 1
          /\ \A c \in Containers : Images(job.descriptor[1])[c] \notin {Unset, Broken},
          "validate")

Validate ==
    Check("validate",
          ValidateImports(job.imports) /\ job.directories = Directories,
          "operation")

ClustersOf(imports) ==
    [r \in Roles |-> IF r \in Named(imports)
                     THEN newClusterFromTarget(imports.targets[r]) ELSE Unset]

(* Mutant: the errors of newClusterFromTarget are not looked at. *)
NewOperationUnchecked ==
    /\ pc = "operation"
    /\ clients' = ClustersOf(job.imports)
    /\ pc' = IF Deletes(job) THEN "delete" ELSE "reconcile"
    /\ UNCHANGED <<inputs, job, cluster, manager, edits, faults>>

NewOperation ==
    /\ pc = "operation"
    /\ LET made == ClustersOf(job.imports) IN
        IF \E r \in Named(job.imports) : made[r] = Unset THEN RunEnds
        ELSE /\ clients' = made
             /\ pc' = IF Deletes(job) THEN "delete" ELSE "reconcile"
             /\ UNCHANGED job
    /\ UNCHANGED <<inputs, cluster, manager, edits, faults>>

runtimeCluster ==
    IF ~job.imports.multi THEN clients["single"] ELSE clients["runtime"]

(* Mutant: everything goes to the runtime cluster. *)
applicationClusterOfRuntime == runtimeCluster

applicationCluster ==
    IF ~job.imports.multi THEN clients["single"] ELSE clients["application"]

-----------------------------------------------------------------------------
(* The operations. *)
WithApplication(state) ==
    [state EXCEPT !.namespaces = @ \cup {job.imports.namespace}, !.webhook = TRUE]

(***************************************************************************)
(* The folder of the blueprint that names the image of a container, and    *)
(* the name it has there.  The sidecar comes with the patch in default.    *)
(***************************************************************************)
Blueprint ==
    [c \in Containers |->
        IF c = "manager" THEN [folder |-> "manager", name |-> "controller"]
        ELSE [folder |-> "default", name |-> "quay.io/brancz/kube-rbac-proxy"]]

(* The replacements of images that the run adds to the blueprint. *)
setImages(images) ==
    {[folder |-> "manager", name |-> "controller", image |-> images["manager"]],
     [folder |-> "manager", name |-> "gcr.io/kubebuilder/kube-rbac-proxy",
      image |-> images["kube-rbac-proxy"]]}

(* A replacement of a name that is not in its folder has no effect. *)
BuiltImage(replacements, c) ==
    LET found == {r \in replacements : /\ r.folder = Blueprint[c].folder
                                       /\ r.name = Blueprint[c].name}
    IN  IF found = {} THEN "shipped" ELSE (CHOOSE r \in found : TRUE).image

(* A merge: what a requirement does not mention stays as it is shipped. *)
patchResourceRequirements(resources) ==
    [c \in Containers |-> [q \in Quantities |->
        IF q \in DOMAIN resources[c] THEN resources[c][q] ELSE "shipped"]]

WithRuntime(state) ==
    [state EXCEPT
        !.namespaces = @ \cup {job.imports.namespace},
        !.deployment[job.imports.namespace] =
            [config |-> job.imports.managerConfig,
             images |-> [c \in Containers |->
                            BuiltImage(setImages(Images(job.descriptor[1])), c)],
             resources |-> patchResourceRequirements(job.imports.resources),
             application |-> applicationCluster]]

applySingle ==
    /\ pc = "reconcile" /\ ~job.imports.multi
    /\ cluster' = [cluster EXCEPT ![runtimeCluster] =
                        WithRuntime(WithApplication(@))]
    /\ RunEnds
    /\ UNCHANGED <<inputs, manager, edits, faults>>

applyApplication ==
    /\ pc = "reconcile" /\ job.imports.multi
    /\ cluster' = [cluster EXCEPT ![applicationCluster] = WithApplication(@)]
    /\ pc' = "kubeconfig"
    /\ UNCHANGED <<inputs, job, clients, manager, edits, faults>>

(* The endpoint of the application cluster is looked at only now. *)
generateKubeconfigFromTokenSecret ==
    Check("kubeconfig", job.imports.endpoint # Unset, "runtime")

applyRuntime ==
    /\ pc = "runtime"
    /\ cluster' = [cluster EXCEPT ![runtimeCluster] = WithRuntime(@)]
    /\ RunEnds
    /\ UNCHANGED <<inputs, manager, edits, faults>>

Reconcile ==
    applySingle \/ applyApplication \/ generateKubeconfigFromTokenSecret \/ applyRuntime

WithoutNamespace(state) ==
    [state EXCEPT !.namespaces = @ \ {job.imports.namespace},
                  !.deployment[job.imports.namespace] = Unset]

deleteRuntimeResources ==
    /\ pc = "delete"
    /\ cluster' = [cluster EXCEPT ![runtimeCluster] = WithoutNamespace(@)]
    /\ manager' = [manager EXCEPT ![runtimeCluster][job.imports.namespace] = Unset]
    /\ pc' = "delete application"
    /\ UNCHANGED <<inputs, job, clients, edits, faults>>

deleteApplicationResources ==
    /\ pc = "delete application"
    /\ cluster' = [cluster EXCEPT ![applicationCluster] =
                        [WithoutNamespace(@) EXCEPT !.webhook = FALSE]]
    /\ manager' = [manager EXCEPT ![applicationCluster][job.imports.namespace] = Unset]
    /\ RunEnds
    /\ UNCHANGED <<inputs, edits, faults>>

Delete == deleteRuntimeResources \/ deleteApplicationResources

RunFails ==
    /\ pc # "idle"
    /\ faults < MaxFaults /\ faults' = faults + 1
    /\ RunEnds
    /\ UNCHANGED <<inputs, cluster, manager, edits>>

-----------------------------------------------------------------------------
(***************************************************************************)
(* main: a manager starts with the configuration that is deployed, or ends *)
(* over one it does not accept.  The one before it runs on meanwhile.      *)
(***************************************************************************)
StartManager(c, ns) ==
    LET deployed == cluster[c].deployment[ns] IN
    /\ deployed # Unset
    /\ LET cfg == Decoded(deployed.config) IN
        /\ validateConfig(cfg)
        /\ manager' = [manager EXCEPT ![c][ns] = cfg]
    /\ UNCHANGED <<inputs, run, cluster, edits, faults>>

-----------------------------------------------------------------------------
(* What an operator may give instead of what is given now. *)
OtherTargets ==
    [type : {"kubernetes-cluster", "other"},
     configuration :
        {Unset, Broken}
        \cup [kubeconfig : Clusters \cup {Unset, Broken}, secretRef : {FALSE}]
        \cup [kubeconfig : {Unset}, secretRef : {TRUE}]]

ImportsLike(i) ==
    {[i EXCEPT !.multi = ~@], [i EXCEPT !.namePrefix = Unset],
     [i EXCEPT !.endpoint = Unset]}
    \cup {[i EXCEPT !.targets[r] = t] : r \in Roles, t \in OtherTargets}
    \cup {[i EXCEPT !.namespace = ns] : ns \in Namespaces \cup {Unset}}
    \cup {[i EXCEPT !.managerConfig = d] : d \in Documents}
    \cup {[i EXCEPT !.resources[c] = r] : c \in Containers, r \in Requirements}

InputsLike(in) ==
    {[in EXCEPT !.operation = o] : o \in {Unset, "RECONCILE", "DELETE", "other"}}
    \cup {[in EXCEPT !.paths = @ \ {p}] : p \in Paths}
    \cup {[in EXCEPT !.descriptor = d] : d \in Descriptors}
    \cup {[in EXCEPT !.directories = @ \ {d}] : d \in Directories}
    \cup {[in EXCEPT !.imports = i] : i \in {Broken} \cup
            IF in.imports = Broken THEN {} ELSE ImportsLike(in.imports)}

Edit ==
    /\ edits < MaxEdits /\ edits' = edits + 1
    /\ inputs' \in Offers \cup InputsLike(inputs)
    /\ UNCHANGED <<run, cluster, manager, faults>>

Init ==
    /\ inputs \in Offers
    /\ pc = "idle" /\ job = Unset /\ clients = NoClients
    /\ cluster = [c \in Clusters |->
                    [namespaces |-> ProjectNamespaces, webhook |-> FALSE,
                     deployment |-> [ns \in Namespaces |-> Unset]]]
    /\ manager = [c \in Clusters |-> [ns \in Namespaces |-> Unset]]
    /\ edits = 0 /\ faults = 0

RunStep == validate \/ Load \/ Validate \/ NewOperation \/ Reconcile \/ Delete

Next ==
    \/ Launch \/ RunStep \/ RunFails \/ Edit
    \/ \E c \in Clusters, ns \in Namespaces : StartManager(c, ns)

Spec == Init /\ [][Next]_vars

(* Runs are repeated and come to an end; a manager is started until it runs. *)
FairSpec ==
    /\ Spec
    /\ WF_vars(Launch) /\ WF_vars(RunStep)
    /\ \A c \in Clusters, ns \in Namespaces : WF_vars(StartManager(c, ns))

-----------------------------------------------------------------------------
AtWork == {"reconcile", "kubeconfig", "runtime", "delete", "delete application"}

(***************************************************************************)
(* Type correctness.  An operation has a client for every cluster it asks  *)
(* for, whichever scenario it runs: it never meets a nil cluster.          *)
(***************************************************************************)
RolloutTypeOK ==
    /\ inputs \in Inputs /\ job \in Inputs \cup {Unset}
    /\ pc \in AtWork \cup {"idle", "options", "load", "validate", "operation"}
    /\ pc = "idle" <=> job = Unset
    /\ clients \in [Roles -> Clusters \cup {Unset}]
    /\ pc \in AtWork =>
            {r \in Roles : clients[r] # Unset} = Named(job.imports)
    /\ cluster \in [Clusters -> State]
    /\ manager \in [Clusters -> [Namespaces -> Config \cup {Unset}]]

(***************************************************************************)
(* The namespaces of the gardener projects outlive every run, those that   *)
(* delete included: Delete removes the namespace of the imports with all   *)
(* that is in it, whoever created it.                                      *)
(***************************************************************************)
ProjectsKept == \A c \in Clusters : ProjectNamespaces \subseteq cluster[c].namespaces

(***************************************************************************)
(* Every manager that runs has, setting by setting, what some document     *)
(* that can be imported says, and the documented default where it says nothing. *)
(* An import that is left out reaches the file as null and resets all of   *)
(* it, the delay of retries and the size limit included, to 0: no manager  *)
(* may ever run on that.                                                   *)
(***************************************************************************)
Limit(doc, f) == IF f \in DOMAIN doc THEN doc[f] ELSE Default[f]

SettingsAreMeant ==
    \A c \in Clusters, ns \in Namespaces :
        manager[c][ns] # Unset =>
            \E doc \in Documents \ {Unset} :
                manager[c][ns] = [f \in Fields |-> Limit(doc, f)]

(***************************************************************************)
(* A cluster changes only by a run whose imports name it for its part:     *)
(* what serves runs in the runtime cluster, what is served in the          *)
(* application cluster, and no cluster is given that has no part.          *)
(***************************************************************************)
Given(r, c) == job.imports.targets[r] = KubernetesTarget(c)

RightClusters ==
    [][\A c \in Clusters : cluster'[c] # cluster[c] =>
        /\ \A r \in Roles \ Named(job.imports) :
                job.imports.targets[r].configuration = Unset
        /\ \E r \in Named(job.imports) : Given(r, c)
        /\ job.imports.multi /\ cluster'[c].webhook # cluster[c].webhook
                => Given("application", c)
        /\ \A ns \in Namespaces :
            cluster'[c].deployment[ns] \notin {Unset, cluster[c].deployment[ns]}
                /\ job.imports.multi
            => /\ Given("runtime", c)
               /\ Given("application", cluster'[c].deployment[ns].application)]_vars

(***************************************************************************)
(* What was meant to be deployed is: the images of the component           *)
(* descriptor, that of the sidecar included.  The comment of setImages     *)
(* says so; the code does not do it.                                       *)
(***************************************************************************)
ImagesAreSet ==
    [][\A c \in Clusters, ns \in Namespaces :
        cluster'[c].deployment[ns] \notin {Unset, cluster[c].deployment[ns]} =>
            cluster'[c].deployment[ns].images = Images(job.descriptor[1])]_vars

(***************************************************************************)
(* Inputs that are in order, said without the code's validation: the       *)
(* clusters of the scenario and nothing else, a namespace of its own, one  *)
(* image for each container, and limits in order once the defaults are     *)
(* added.  The endpoint must be given for two clusters, and managerConfig  *)
(* must be given: left out, it resets all defaults and no manager starts.  *)
(***************************************************************************)
ImagesNamed(resources, name) ==
    {resources[i].image : i \in {j \in DOMAIN resources : resources[j].name = name}}

InOrder(in) ==
    /\ in.operation \in {Unset, "RECONCILE", "DELETE"}
    /\ in.paths = Paths /\ in.directories = Directories
    /\ in \in {[o EXCEPT !.operation = in.operation,
                         !.descriptor = in.descriptor,
                         !.imports.managerConfig = in.imports.managerConfig,
                         !.imports.resources = in.imports.resources,
                         !.imports.namespace = in.imports.namespace] : o \in Offers}
    /\ in.descriptor # Broken /\ Len(in.descriptor) = 1
    /\ \A c \in Containers : \E image \in ImageRefs :
            ImagesNamed(in.descriptor[1], ResourceName(c)) = {image}
    /\ in.imports.namespace \in Namespaces \ ProjectNamespaces
    /\ in.imports.managerConfig # Unset
    /\ LET doc == in.imports.managerConfig IN
        1 <= Limit(doc, "maxConcurrentReconciles")
        /\ Limit(doc, "maxConcurrentReconcilesPerNamespace")
                <= Limit(doc, "maxConcurrentReconciles")

Target(imports, r) == imports.targets[r].configuration.kubeconfig

(* The image of the manager, and what both containers require. *)
AsAsked(deployment, in) ==
    /\ {deployment.images["manager"]} =
            ImagesNamed(in.descriptor[1], "gardenlogin-controller-manager")
    /\ \A c \in Containers : LET asked == in.imports.resources[c] IN
            \A q \in Quantities :
                deployment.resources[c][q] \in
                    IF q \in DOMAIN asked THEN {asked[q]} ELSE {"shipped"}

(* What is asked for stands, and a manager runs on it. *)
RolledOut(in) ==
    LET imports == in.imports
        runtime == Target(imports, IF imports.multi THEN "runtime" ELSE "single")
        application == Target(imports, IF imports.multi THEN "application" ELSE "single")
        ns == imports.namespace
        deployment == cluster[runtime].deployment[ns]
    IN  IF in.operation = "DELETE"
        THEN /\ ns \notin cluster[runtime].namespaces \cup cluster[application].namespaces
             /\ ~cluster[application].webhook /\ manager[runtime][ns] = Unset
        ELSE /\ cluster[application].webhook
             /\ deployment # Unset
             /\ deployment.application = application /\ AsAsked(deployment, in)
             /\ manager[runtime][ns] =
                    [f \in Fields |-> Limit(imports.managerConfig, f)]

(***************************************************************************)
(* Runs that are repeated end in what the inputs ask for, once these are   *)
(* in order: whatever was asked for before, whatever was wrong with it and *)
(* wherever a run failed.  The image of the sidecar is left out here: what *)
(* is asked for does not reach it (ImagesAreSet).                          *)
(***************************************************************************)
RollsOut == <>[](inputs.imports # Broken /\ InOrder(inputs) => RolledOut(inputs))
=============================================================================
