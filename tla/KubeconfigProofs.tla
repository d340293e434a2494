------------------------- MODULE KubeconfigProofs -------------------------
(***************************************************************************)
(* Every kubeconfig that is rendered connects to every address of its      *)
(* shoot, and rendering again gives another kubeconfig exactly if          *)
(* something changed that its user depends on: for any names, hosts,       *)
(* certificates and identities, and lists of any length.                   *)
(***************************************************************************)
EXTENDS Kubeconfig, TLAPS

(* The kubeconfig of a source. *)
G(src) == generate(kubeconfigRequest(src), src.version = Legacy)

(***************************************************************************)
(* The kubeconfig that is there was generated from a source that could be  *)
(* rendered.                                                               *)
(***************************************************************************)
Kept ==
    /\ source \in Sources
    /\ \/ kubeconfig = None /\ rendered = None
       \/ rendered \in Sources /\ Renderable(rendered) /\ kubeconfig = G(rendered)

(* An entry whose name is no other's is found under its name. *)
LEMMA UniqueIsFound ==
    ASSUME NEW entries, NEW i \in DOMAIN entries,
           \A j \in DOMAIN entries : entries[j].name = entries[i].name => j = i
    PROVE  Find(entries, entries[i].name) = entries[i]
<1> DEFINE found == {j \in DOMAIN entries : entries[j].name = entries[i].name}
<1>1. found = {i}
    OBVIOUS
<1>2. (CHOOSE j \in found : TRUE) = i
    BY <1>1
<1>3. QED
    BY <1>1, <1>2 DEF Find

(* A source that can be rendered has a first address. *)
LEMMA AddressesAreListed ==
    ASSUME NEW src \in Sources, Renderable(src)
    PROVE  /\ src.addresses \in AddressLists
           /\ src.addresses = [i \in 1..Len(src.addresses) |-> src.addresses[i]]
           /\ DOMAIN src.addresses = 1..Len(src.addresses)
           /\ 1 \in DOMAIN src.addresses
           /\ src.version \in {Legacy, Current}
           /\ src.shoot \in ShootRefs
           /\ src.identity \in Identities
           /\ Len(src.addresses) \in Nat
<1>1. src.addresses \in AddressLists /\ src.shoot \in ShootRefs
    BY DEF Sources
<1>2. src.addresses \in Seq(Range(src.addresses))
    BY <1>1, ListAssumption
<1>3. /\ src.addresses = [i \in 1..Len(src.addresses) |-> src.addresses[i]]
      /\ DOMAIN src.addresses = 1..Len(src.addresses) /\ Len(src.addresses) \in Nat
    BY <1>2
<1>4. kubeconfigRequest(src).clusters # << >> /\ src.identity # "" /\ src.identity # None
    BY DEF Renderable, validate, kubeconfigRequest
<1>5. 1 \in DOMAIN src.addresses
  <2>1. CASE Len(src.addresses) = 0
    <3>1. kubeconfigRequest(src).clusters
            = [i \in 1..0 |-> [name |-> src.addresses[i].name,
                               apiServerHost |-> src.addresses[i].host,
                               caCert |-> clusterCaCert(src.ca)]]
      BY <1>3, <2>1 DEF kubeconfigRequest
    <3>2. \A f : f = [i \in 1..0 |-> f[i]] => f = << >>
      OBVIOUS
    <3>3. QED
      BY <1>4, <3>1, <3>2
  <2>2. QED
    BY <1>3, <2>1
<1>6. src.version \in {Legacy, Current} /\ src.identity \in Identities
    BY <1>4 DEF Sources, Renderable
<1>7. QED
    BY <1>1, <1>3, <1>5, <1>6

(***************************************************************************)
(* The shape of a kubeconfig: as many clusters and contexts as addresses,  *)
(* and one user.                                                           *)
(***************************************************************************)
LEMMA ConfigIsGenerated ==
    ASSUME NEW src
    PROVE  /\ DOMAIN G(src).clusters = DOMAIN src.addresses
           /\ DOMAIN G(src).contexts = DOMAIN src.addresses
           /\ DOMAIN G(src).users = {1}
           /\ G(src).currentContext
                = ContextName(kubeconfigRequest(src), kubeconfigRequest(src).clusters[1])
           /\ G(src).users[1].name = AuthName(kubeconfigRequest(src))
           /\ G(src).users[1].args
                = IF src.version = Legacy THEN ExecPluginConfig(kubeconfigRequest(src)) ELSE None
BY DEF G, generate, Config, kubeconfigRequest

(* What handleRequest passes on of a source. *)
LEMMA RequestIsMade ==
    ASSUME NEW src
    PROVE  /\ kubeconfigRequest(src).namespace = src.shoot.namespace
           /\ kubeconfigRequest(src).shootName = src.shoot.name
           /\ kubeconfigRequest(src).gardenClusterIdentity = src.identity
           /\ DOMAIN kubeconfigRequest(src).clusters = DOMAIN src.addresses
           /\ \A i \in DOMAIN src.addresses :
                /\ kubeconfigRequest(src).clusters[i].name = src.addresses[i].name
                /\ kubeconfigRequest(src).clusters[i].apiServerHost = src.addresses[i].host
                /\ kubeconfigRequest(src).clusters[i].caCert = clusterCaCert(src.ca)
BY DEF kubeconfigRequest

(* The cluster and the context of an address. *)
LEMMA EntriesAreGenerated ==
    ASSUME NEW src, NEW i \in DOMAIN src.addresses
    PROVE  LET k == kubeconfigRequest(src)
               name == ContextName(k, src.addresses[i])
           IN  /\ G(src).clusters[i].name = name
               /\ G(src).clusters[i].server = src.addresses[i].host
               /\ G(src).clusters[i].caCert = clusterCaCert(src.ca)
               /\ G(src).clusters[i].extension
                    = IF src.version = Legacy THEN None ELSE ExecPluginConfig(k)
               /\ G(src).contexts[i] = NamedContext(k, src.addresses[i])
<1> DEFINE k == kubeconfigRequest(src)
<1>1. /\ k.clusters[i].name = src.addresses[i].name
      /\ k.clusters[i].apiServerHost = src.addresses[i].host
      /\ k.clusters[i].caCert = clusterCaCert(src.ca)
      /\ i \in DOMAIN k.clusters
    BY RequestIsMade
<1>2. G(src) = generate(k, src.version = Legacy)
    BY DEF G
<1> HIDE DEF k
<1>3. /\ G(src).clusters[i].name = ContextName(k, k.clusters[i])
      /\ G(src).clusters[i].server = k.clusters[i].apiServerHost
      /\ G(src).clusters[i].caCert = k.clusters[i].caCert
      /\ G(src).clusters[i].extension
            = IF src.version = Legacy THEN None ELSE ExecPluginConfig(k)
      /\ G(src).contexts[i] = NamedContext(k, k.clusters[i])
    BY <1>1, <1>2 DEF generate, Config, NamedCluster
<1>4. ContextName(k, k.clusters[i]) = ContextName(k, src.addresses[i])
    BY <1>1 DEF ContextName
<1>5. NamedContext(k, k.clusters[i]) = NamedContext(k, src.addresses[i])
    BY <1>4 DEF NamedContext
<1>6. QED
    BY <1>1, <1>3, <1>4, <1>5 DEF k

(* Different addresses have different names. *)
LEMMA AddressesDiffer ==
    ASSUME NEW src \in Sources, NEW i \in DOMAIN src.addresses,
           NEW j \in DOMAIN src.addresses, src.addresses[j].name = src.addresses[i].name
    PROVE  j = i
BY ListAssumption DEF Sources

(* The plugin is told the shoot and the garden. *)
LEMMA PluginIsTold ==
    ASSUME NEW src \in Sources
    PROVE  LET k == kubeconfigRequest(src)
           IN  /\ ExecPluginConfig(k) = [shootRef |-> src.shoot,
                                         gardenClusterIdentity |-> src.identity]
               /\ ExecPluginConfig(k) # None
<1>1. /\ src.shoot \in ShootRefs
      /\ src.shoot = [namespace |-> src.shoot.namespace, name |-> src.shoot.name]
    BY ListAssumption DEF Sources
<1>2. ExecPluginConfig(kubeconfigRequest(src))
        = [shootRef |-> [namespace |-> src.shoot.namespace, name |-> src.shoot.name],
           gardenClusterIdentity |-> src.identity]
    BY DEF ExecPluginConfig, kubeconfigRequest
<1>3. QED
    BY <1>1, <1>2, NoneAssumption

(* Every address has a context, and it connects as expected. *)
LEMMA EveryContextConnects ==
    ASSUME NEW src \in Sources, NEW i \in DOMAIN src.addresses
    PROVE  LET name == ContextName(kubeconfigRequest(src), src.addresses[i])
           IN  /\ Find(G(src).contexts, name) # None
               /\ Connection(G(src), name) = Expected(src, src.addresses[i])
<1> DEFINE k == kubeconfigRequest(src)
           name == ContextName(k, src.addresses[i])
           context == NamedContext(k, src.addresses[i])
           cluster == G(src).clusters[i]
           user == G(src).users[1]
<1>1. /\ context.name = name /\ context.cluster = name /\ context.user = AuthName(k)
      /\ context # None
  <2>1. src.addresses[i] \in Range(src.addresses)
    BY DEF Range
  <2>2. context # None
    BY <2>1, NoneAssumption
  <2>3. QED
    BY <2>2 DEF NamedContext
<1>2. /\ G(src).contexts[i] = context /\ cluster.name = name
      /\ cluster.server = src.addresses[i].host /\ cluster.caCert = clusterCaCert(src.ca)
      /\ cluster.extension = IF src.version = Legacy THEN None ELSE ExecPluginConfig(k)
    BY EntriesAreGenerated
<1>3. ASSUME NEW j \in DOMAIN src.addresses,
             \/ G(src).contexts[j].name = name
             \/ G(src).clusters[j].name = name
      PROVE  j = i
  <2>1. /\ G(src).clusters[j].name = ContextName(k, src.addresses[j])
        /\ G(src).contexts[j] = NamedContext(k, src.addresses[j])
    BY EntriesAreGenerated
  <2>2. ContextName(k, src.addresses[j]) = name
    BY <1>3, <2>1 DEF NamedContext
  <2>3. src.addresses[j].name = src.addresses[i].name
    BY <2>2 DEF ContextName
  <2>4. QED
    BY <2>3, AddressesDiffer
<1>4. Find(G(src).contexts, name) = context /\ Find(G(src).clusters, name) = cluster
  <2>1. i \in DOMAIN G(src).contexts /\ i \in DOMAIN G(src).clusters
    BY ConfigIsGenerated
  <2>2. /\ \A j \in DOMAIN G(src).contexts :
              G(src).contexts[j].name = G(src).contexts[i].name => j = i
        /\ \A j \in DOMAIN G(src).clusters :
              G(src).clusters[j].name = G(src).clusters[i].name => j = i
    BY <1>1, <1>2, <1>3, ConfigIsGenerated
  <2>3. /\ Find(G(src).contexts, G(src).contexts[i].name) = G(src).contexts[i]
        /\ Find(G(src).clusters, G(src).clusters[i].name) = G(src).clusters[i]
    BY <2>1, <2>2, UniqueIsFound
  <2>4. QED
    BY <1>1, <1>2, <2>3
<1>5. Find(G(src).users, AuthName(k)) = user
  <2>1. DOMAIN G(src).users = {1} /\ user.name = AuthName(k)
    BY ConfigIsGenerated
  <2>2. QED
    BY <2>1, UniqueIsFound
<1>6. user.args = IF src.version = Legacy THEN ExecPluginConfig(k) ELSE None
    BY ConfigIsGenerated
<1>7. ExecPluginConfig(k) = [shootRef |-> src.shoot, gardenClusterIdentity |-> src.identity]
    BY PluginIsTold
<1> HIDE DEF k, name, context, cluster, user
<1>8. Connection(G(src), name) = Expected(src, src.addresses[i])
    BY <1>1, <1>2, <1>4, <1>5, <1>6, <1>7 DEF Connection, Expected
<1>9. QED
    BY <1>1, <1>4, <1>8 DEF name, k

(* Two kubeconfigs are equal exactly if all their user depends on is. *)
LEMMA OnlyRelevantCounts ==
    ASSUME NEW old \in Sources, Renderable(old), NEW new \in Sources, Renderable(new)
    PROVE  G(new) = G(old) <=> Relevant(new) = Relevant(old)
<1> DEFINE Same == /\ new.shoot = old.shoot /\ new.addresses = old.addresses
                   /\ clusterCaCert(new.ca) = clusterCaCert(old.ca)
                   /\ new.version = old.version /\ new.identity = old.identity
<1>1. Relevant(new) = Relevant(old) <=> Same
  <2>1. \A src \in Sources :
            Relevant(src) = [shoot |-> src.shoot, addresses |-> src.addresses,
                             ca |-> clusterCaCert(src.ca), version |-> src.version,
                             identity |-> src.identity]
    <3>1. TAKE src \in Sources
    <3>2. PICK sh, ad, ca, ve, id :
            src = [shoot |-> sh, addresses |-> ad, ca |-> ca, version |-> ve, identity |-> id]
      BY DEF Sources
    <3>3. QED
      BY <3>2 DEF Relevant
  <2>2. QED
    BY <2>1
<1>2. ASSUME Same PROVE G(new) = G(old)
  <2>1. kubeconfigRequest(new) = kubeconfigRequest(old)
    BY <1>2 DEF kubeconfigRequest
  <2>2. QED
    BY <1>2, <2>1 DEF G
<1>3. ASSUME G(new) = G(old) PROVE Same
  <2> DEFINE k == kubeconfigRequest(old)
             l == kubeconfigRequest(new)
  <2>1. /\ l.namespace = new.shoot.namespace /\ l.shootName = new.shoot.name
        /\ k.namespace = old.shoot.namespace /\ k.shootName = old.shoot.name
    BY RequestIsMade
  <2>2. 1 \in DOMAIN new.addresses /\ 1 \in DOMAIN old.addresses
    BY AddressesAreListed
  <2>3. /\ ExecPluginConfig(l) = [shootRef |-> new.shoot, gardenClusterIdentity |-> new.identity]
        /\ ExecPluginConfig(k) = [shootRef |-> old.shoot, gardenClusterIdentity |-> old.identity]
        /\ ExecPluginConfig(l) # None /\ ExecPluginConfig(k) # None
    BY PluginIsTold
  <2>4. /\ G(new).users[1].args = IF new.version = Legacy THEN ExecPluginConfig(l) ELSE None
        /\ G(old).users[1].args = IF old.version = Legacy THEN ExecPluginConfig(k) ELSE None
    BY ConfigIsGenerated
  <2>5. /\ G(new).clusters[1].extension
                = IF new.version = Legacy THEN None ELSE ExecPluginConfig(l)
        /\ G(old).clusters[1].extension
                = IF old.version = Legacy THEN None ELSE ExecPluginConfig(k)
    BY <2>2, EntriesAreGenerated
  <2> HIDE DEF k, l
  <2>6. /\ new.version = Legacy <=> old.version = Legacy
        /\ ExecPluginConfig(l) = ExecPluginConfig(k)
    BY <1>3, <2>3, <2>4, <2>5
  <2>7. new.version = old.version
    <3>1. new.version \in {Legacy, Current} /\ old.version \in {Legacy, Current}
      BY AddressesAreListed
    <3>2. QED
      BY <2>6, <3>1
  <2>8. new.shoot = old.shoot /\ new.identity = old.identity
    BY <2>3, <2>6
  <2>9. DOMAIN new.addresses = DOMAIN old.addresses
    BY <1>3, ConfigIsGenerated
  <2>10. ASSUME NEW i \in DOMAIN new.addresses
         PROVE  /\ new.addresses[i] = old.addresses[i]
                /\ clusterCaCert(new.ca) = clusterCaCert(old.ca)
    <3>1. /\ G(new).clusters[i].name = ContextName(l, new.addresses[i])
          /\ G(new).clusters[i].server = new.addresses[i].host
          /\ G(new).clusters[i].caCert = clusterCaCert(new.ca)
      BY EntriesAreGenerated DEF l
    <3>2. /\ G(old).clusters[i].name = ContextName(k, old.addresses[i])
          /\ G(old).clusters[i].server = old.addresses[i].host
          /\ G(old).clusters[i].caCert = clusterCaCert(old.ca)
      BY <2>9, EntriesAreGenerated DEF k
    <3>3. /\ new.addresses[i].name = old.addresses[i].name
          /\ new.addresses[i].host = old.addresses[i].host
      BY <1>3, <3>1, <3>2 DEF ContextName
    <3>4. /\ new.addresses[i] = [name |-> new.addresses[i].name, host |-> new.addresses[i].host]
          /\ old.addresses[i] = [name |-> old.addresses[i].name, host |-> old.addresses[i].host]
      BY <2>9, AddressesAreListed, ListAssumption
    <3>5. QED
      BY <1>3, <3>1, <3>2, <3>3, <3>4
  <2>11. new.addresses = old.addresses
    <3>1. Len(new.addresses) = Len(old.addresses)
      BY <2>9, AddressesAreListed
    <3>2. QED
      BY <2>10, <3>1, AddressesAreListed
  <2>12. clusterCaCert(new.ca) = clusterCaCert(old.ca)
    BY <2>2, <2>10
  <2>13. QED
    BY <2>7, <2>8, <2>11, <2>12
<1>4. QED
    BY <1>1, <1>2, <1>3

(***************************************************************************)
(* The kubeconfig that is there is always that of the source it was        *)
(* rendered from.                                                          *)
(***************************************************************************)
THEOREM KubeconfigIsRendered == Spec => []Kept
<1>1. Init => Kept
    BY DEF Init, Kept
<1>2. Kept /\ [Next]_vars => Kept'
  <2> SUFFICES ASSUME Kept, [Next]_vars PROVE Kept'
    OBVIOUS
  <2>1. CASE Change
    <3>1. source' \in Sources
      BY <2>1 DEF Change, Kept, Sources
    <3>2. QED
      BY <2>1, <3>1 DEF Change, Kept
  <2>2. CASE Render
    BY <2>2 DEF Render, Kept, G
  <2>3. CASE UNCHANGED vars
    BY <2>3 DEF vars, Kept
  <2>4. QED
    BY <2>1, <2>2, <2>3 DEF Next
<1>3. QED
    BY <1>1, <1>2, PTL DEF Spec

(***************************************************************************)
(* In every context of every kubeconfig kubectl reaches the address of     *)
(* that name, trusts the shoot's CA and tells the plugin which shoot and   *)
(* garden it is about, for any list of addresses.                          *)
(***************************************************************************)
THEOREM EveryAddressConnects == Spec => []Connects
<1>1. Kept => Connects
  <2> SUFFICES ASSUME Kept, kubeconfig # None PROVE Connects
    BY DEF Connects
  <2>1. rendered \in Sources /\ Renderable(rendered) /\ kubeconfig = G(rendered)
    BY DEF Kept
  <2>2. \A i \in DOMAIN rendered.addresses :
          LET name == ContextName(kubeconfigRequest(rendered), rendered.addresses[i])
          IN  /\ Find(kubeconfig.contexts, name) # None
              /\ Connection(kubeconfig, name) = Expected(rendered, rendered.addresses[i])
    BY <2>1, EveryContextConnects
  <2>3. kubeconfig.currentContext
          = ContextName(kubeconfigRequest(rendered), rendered.addresses[1])
    <3>1. 1 \in DOMAIN rendered.addresses
      BY <2>1, AddressesAreListed
    <3>2. /\ kubeconfig.currentContext
                = ContextName(kubeconfigRequest(rendered), kubeconfigRequest(rendered).clusters[1])
          /\ kubeconfigRequest(rendered).clusters[1].name = rendered.addresses[1].name
      BY <2>1, <3>1, ConfigIsGenerated, RequestIsMade
    <3>3. QED
      BY <3>2 DEF ContextName
  <2>4. QED
    BY <2>2, <2>3 DEF Connects, Range
<1>2. QED
    BY <1>1, KubeconfigIsRendered, PTL

(***************************************************************************)
(* Rendering again gives the same kubeconfig exactly if nothing changed    *)
(* that its user depends on, so that CreateOrUpdate neither writes without *)
(* need nor leaves a change out.                                           *)
(***************************************************************************)
THEOREM OnlyChangesAreWritten == Spec => RenderedAnew
<1>1. Kept /\ Kept' /\ [Next]_vars =>
        [rendered # None /\ rendered' # rendered =>
            (kubeconfig' = kubeconfig <=> Relevant(rendered') = Relevant(rendered))]_vars
  <2> SUFFICES ASSUME Kept, Kept', [Next]_vars, rendered # None, rendered' # rendered
               PROVE  kubeconfig' = kubeconfig <=> Relevant(rendered') = Relevant(rendered)
    OBVIOUS
  <2>1. Render
    BY DEF Next, Change, vars
  <2>2. /\ rendered \in Sources /\ Renderable(rendered) /\ kubeconfig = G(rendered)
        /\ rendered' \in Sources /\ Renderable(rendered') /\ kubeconfig' = G(rendered')
    BY <2>1 DEF Kept, Render, G
  <2>3. QED
    BY <2>2, OnlyRelevantCounts
<1>2. QED
    BY <1>1, KubeconfigIsRendered, PTL DEF Spec, RenderedAnew
=============================================================================
