----------------------------- MODULE Kubeconfig -----------------------------
(***************************************************************************)
(* How the kubeconfig of a shoot is rendered: what handleRequest reads     *)
(* from the Shoot, its ShootState and the cluster identity, the checks it  *)
(* makes, and the kubeconfig it generates, seen by the kubectl that uses   *)
(* it.                                                                     *)
(*                                                                         *)
(* Names are tuples of what they are composed of: those of one kubeconfig  *)
(* differ only in the name of the address.                                 *)
(***************************************************************************)
EXTENDS Integers, Sequences, Functions

CONSTANTS
    ShootRefs,      \* [namespace, name]
    AddressLists,   \* sequences of [name, host]; the names differ
    CaResources,    \* "ca" of the ShootState: None, Damaged or [type, data]
    Certificates,   \* the valid certificates
    Identities,     \* garden cluster identities
    None,           \* what is not there
    Damaged         \* what cannot be parsed

Legacy == "< v1.20.0"
Current == ">= v1.20.0"

Sources == [shoot : ShootRefs, addresses : AddressLists, ca : CaResources,
            version : {Legacy, Current, Damaged}, identity : Identities \cup {"", None}]

(***************************************************************************)
(* References and addresses have these fields and no others, lists are     *)
(* sequences, and gardener advertises at most one address of a name.       *)
(***************************************************************************)
ASSUME ListAssumption ==
    /\ \A ref \in ShootRefs : ref = [namespace |-> ref.namespace, name |-> ref.name]
    /\ \A list \in AddressLists :
            /\ list \in Seq(Range(list))
            /\ \A i \in DOMAIN list :
                    list[i] = [name |-> list[i].name, host |-> list[i].host]
            /\ \A i, j \in DOMAIN list : list[i].name = list[j].name => i = j

VARIABLES
    source,       \* what the cluster has now
    kubeconfig,   \* what was rendered last, None at first
    rendered      \* the source it was rendered from

vars == <<source, kubeconfig, rendered>>

(* clusterCaCert: None is the error, or a key that is not there. *)
clusterCaCert(ca) ==
    IF ca \in {None, Damaged} THEN None
    ELSE ca.data[IF ca.type = "certificate" THEN "certificate" ELSE "ca.crt"]

ValidateCertificate(cert) == cert \in Certificates

kubeconfigRequest(src) ==
    [namespace |-> src.shoot.namespace,
     shootName |-> src.shoot.name,
     gardenClusterIdentity |-> src.identity,
     clusters |-> [i \in DOMAIN src.addresses |->
                      [name |-> src.addresses[i].name,
                       apiServerHost |-> src.addresses[i].host,
                       caCert |-> clusterCaCert(src.ca)]]]

validate(k) ==
    /\ k.clusters # << >>
    /\ \A c \in Range(k.clusters) : c.name # "" /\ c.apiServerHost # ""
    /\ k.namespace # "" /\ k.shootName # ""
    /\ k.gardenClusterIdentity # ""

(* Whether handleRequest comes to render the source. *)
Renderable(src) ==
    /\ ValidateCertificate(clusterCaCert(src.ca))
    /\ src.identity # None
    /\ \A a \in Range(src.addresses) : a.host # Damaged
    /\ validate(kubeconfigRequest(src))
    /\ src.version # Damaged

(* What the credential plugin must be told. *)
ExecPluginConfig(k) ==
    [shootRef |-> [namespace |-> k.namespace, name |-> k.shootName],
     gardenClusterIdentity |-> k.gardenClusterIdentity]

AuthName(k) == <<k.namespace, k.shootName>>
ContextName(k, c) == <<k.namespace, k.shootName, c.name>>

Config(k, legacy, clusters, contexts) ==
    [currentContext |-> ContextName(k, k.clusters[1]),
     clusters |-> clusters,
     contexts |-> contexts,
     users |-> << [name |-> AuthName(k),
                   args |-> IF legacy THEN ExecPluginConfig(k) ELSE None] >>]

NamedCluster(k, legacy, c) ==
    [name |-> ContextName(k, c), caCert |-> c.caCert, server |-> c.apiServerHost,
     extension |-> IF legacy THEN None ELSE ExecPluginConfig(k)]

NamedContext(k, c) ==
    [name |-> ContextName(k, c), cluster |-> ContextName(k, c), user |-> AuthName(k)]

(* None is not taken for an entry or a configuration that is there. *)
ASSUME NoneAssumption ==
    \A src \in Sources :
        LET k == kubeconfigRequest(src)
        IN  /\ None # ExecPluginConfig(k)
            /\ \A address \in Range(src.addresses) : None # NamedContext(k, address)

(* Mutant: every context is named like the current one. *)
generateOneName(k, legacy) ==
    Config(k, legacy,
           [i \in DOMAIN k.clusters |-> NamedCluster(k, legacy, k.clusters[i])],
           [i \in DOMAIN k.clusters |->
               [NamedContext(k, k.clusters[i]) EXCEPT
                   !.name = ContextName(k, k.clusters[1])]])

(* Mutant: the certificate authority is left to the system's trust store. *)
generateWithoutCa(k, legacy) ==
    Config(k, legacy,
           [i \in DOMAIN k.clusters |->
               [NamedCluster(k, legacy, k.clusters[i]) EXCEPT !.caCert = None]],
           [i \in DOMAIN k.clusters |-> NamedContext(k, k.clusters[i])])

generate(k, legacy) ==
    Config(k, legacy,
           [i \in DOMAIN k.clusters |-> NamedCluster(k, legacy, k.clusters[i])],
           [i \in DOMAIN k.clusters |-> NamedContext(k, k.clusters[i])])

-----------------------------------------------------------------------------
Init == source \in Sources /\ kubeconfig = None /\ rendered = None

(* Gardener and operators change one thing at a time. *)
Change ==
    /\ \/ \E ref \in ShootRefs : source' = [source EXCEPT !.shoot = ref]
       \/ \E list \in AddressLists : source' = [source EXCEPT !.addresses = list]
       \/ \E ca \in CaResources : source' = [source EXCEPT !.ca = ca]
       \/ \E v \in {Legacy, Current, Damaged} : source' = [source EXCEPT !.version = v]
       \/ \E id \in Identities \cup {"", None} : source' = [source EXCEPT !.identity = id]
    /\ UNCHANGED <<kubeconfig, rendered>>

Render ==
    /\ Renderable(source)
    /\ kubeconfig' = generate(kubeconfigRequest(source), source.version = Legacy)
    /\ rendered' = source
    /\ UNCHANGED source

Next == Change \/ Render

Spec == Init /\ [][Next]_vars

-----------------------------------------------------------------------------
(* The entry of a list that kubectl finds under a name, which must be unique. *)
Find(entries, name) ==
    LET found == {i \in DOMAIN entries : entries[i].name = name}
    IN  IF \E i \in found : found = {i}
        THEN entries[CHOOSE i \in found : TRUE] ELSE None

(* Where kubectl connects to in a context, and what the plugin gets to know. *)
Connection(config, name) ==
    LET context == Find(config.contexts, name)
        cluster == Find(config.clusters, context.cluster)
        user == Find(config.users, context.user)
    IN  [server |-> cluster.server, caCert |-> cluster.caCert,
         flags |-> user.args, extension |-> cluster.extension]

Expected(src, address) ==
    LET plugin == [shootRef |-> src.shoot, gardenClusterIdentity |-> src.identity]
    IN  [server |-> address.host, caCert |-> clusterCaCert(src.ca),
         flags |-> IF src.version = Legacy THEN plugin ELSE None,
         extension |-> IF src.version = Legacy THEN None ELSE plugin]

(***************************************************************************)
(* In every context of a kubeconfig kubectl connects to the address of     *)
(* that name with the CA of the shoot's ShootState, and the plugin is told *)
(* the shoot and the garden in the way the shoot's version calls for; the  *)
(* context chosen from the start is that of the first advertised address.  *)
(***************************************************************************)
Connects ==
    kubeconfig # None =>
        LET Context(a) == ContextName(kubeconfigRequest(rendered), a)
        IN  /\ \A a \in Range(rendered.addresses) :
                 Find(kubeconfig.contexts, Context(a)) # None
                    /\ Connection(kubeconfig, Context(a)) = Expected(rendered, a)
            /\ kubeconfig.currentContext = Context(rendered.addresses[1])

(* What a user of the kubeconfig depends on. *)
Relevant(src) == [src EXCEPT !.ca = clusterCaCert(@)]

(***************************************************************************)
(* handleRequest writes the configMap only if the kubeconfig differs from  *)
(* the stored one: rendered again, it differs exactly if something changed *)
(* that its user depends on.  (ShootController, where a kubeconfig is the  *)
(* record of what it was rendered from, relies on it.)                     *)
(***************************************************************************)
RenderedAnew ==
    [][rendered # None /\ rendered' # rendered =>
          (kubeconfig' = kubeconfig <=> Relevant(rendered') = Relevant(rendered))]_vars
=============================================================================
