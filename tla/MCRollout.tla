----------------------------- MODULE MCRollout ------------------------------
(***************************************************************************)
(* An instance of Rollout with two clusters and one namespace of the       *)
(* operator's.  The configurations are left out, empty, in part and out of *)
(* order: two workers alone are fewer than the default of three for a      *)
(* namespace.                                                              *)
(***************************************************************************)
EXTENDS Rollout

Workers(n) == [f \in {"maxConcurrentReconciles"} |-> n]
PerNamespace(n) == [f \in {"maxConcurrentReconcilesPerNamespace"} |-> n]
Both(n, p) ==
    [f \in {"maxConcurrentReconciles", "maxConcurrentReconcilesPerNamespace"} |->
        IF f = "maxConcurrentReconciles" THEN n ELSE p]

MCDocuments ==
    {Unset, [f \in {} |-> 0], Workers(0), Workers(2), Workers(60),
     PerNamespace(0), PerNamespace(51), Both(2, 2)}

Resource(name, image) == [name |-> name, image |-> image]
Controller(image) == Resource("gardenlogin-controller-manager", image)
Proxy(image) == Resource("kube-rbac-proxy", image)

(* The first one names the image of the sidecar that the blueprint ships. *)
Complete == << << Proxy("shipped"), Controller("first") >> >>
Updated == << << Controller("second"), Proxy("proxy") >> >>

MCDescriptors ==
    {Broken, << >>, Updated, Complete \o Updated,
     << Complete[1] \o Updated[1] >>, << << Proxy("proxy") >> >>,
     << << Controller("first") >> >>, << << Proxy(Broken), Controller("first") >> >>}

NoTarget == [type |-> Unset, configuration |-> Unset]

Offer(multi, single, runtime, application) ==
    [operation |-> Unset, paths |-> Paths, descriptor |-> Complete,
     directories |-> Directories,
     imports |->
        [multi |-> multi,
         targets |-> [r \in Roles |-> CASE r = "single" -> single
                                        [] r = "runtime" -> runtime
                                        [] r = "application" -> application],
         namespace |-> "gardenlogin-system", namePrefix |-> "gardenlogin-",
         endpoint |-> IF multi THEN "endpoint" ELSE Unset,
         managerConfig |-> [f \in {} |-> 0],
         resources |-> [c \in Containers |-> [q \in {} |-> "shipped"]]]]

MCOffers ==
    {Offer(FALSE, KubernetesTarget("c1"), NoTarget, NoTarget),
     Offer(TRUE, NoTarget, KubernetesTarget("c1"), KubernetesTarget("c2"))}
=============================================================================
