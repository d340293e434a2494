------------------------------ MODULE Webhook ------------------------------
(***************************************************************************)
(* The validating webhook on its way between the clients and the storage   *)
(* of one configMap.  Several writes are under way at a time; the API      *)
(* server asks the webhook about those whose old or new object has the     *)
(* label of a kubeconfig configMap, takes no answer for a refusal, and     *)
(* stores a write only on top of the object it was admitted with.          *)
(***************************************************************************)
EXTENDS Integers, FiniteSets

CONSTANTS
    Users,
    Absent,
    Sizes,            \* sizes of the serialised object
    MaxObjectSize,
    MaxWrites,        \* bound: writes and deletions
    MaxChanges,       \* bound: permissions given and taken
    MaxFaults         \* bound: calls that fail

ASSUME WebhookAssumption == MaxObjectSize \in Int /\ Sizes \subseteq Nat

Kubeconfigs == {"", "kubeconfig"}
ConfigMaps == [labelled : BOOLEAN, kubeconfig : Kubeconfigs, size : Sizes, author : Users]

VARIABLES
    configMap,    \* the stored object; author is who wrote it last
    permitted,    \* users who may "manage" configMaps
    everPermitted,
    request,      \* per user the write under way: Absent or
                  \* [old, new, stage "handle", "review" or "store"]
    writes, changes, faults

vars == <<configMap, permitted, everPermitted, request, writes, changes, faults>>

Answered(u) == request' = [request EXCEPT ![u] = Absent]
Proceed(u, stage) == request' = [request EXCEPT ![u].stage = stage]

At(u, stage) == request[u] # Absent /\ request[u].stage = stage

CallFails == faults < MaxFaults /\ faults' = faults + 1

-----------------------------------------------------------------------------
(* The objectSelector of the webhook configuration. *)
Selected(c) == c # Absent /\ c.labelled

(* A create if there is no object, an update otherwise. *)
Submit(u) ==
    /\ request[u] = Absent
    /\ writes < MaxWrites /\ writes' = writes + 1
    /\ \E new \in ConfigMaps :
        /\ new.author = u
        /\ request' = [request EXCEPT ![u] =
             [old |-> configMap, new |-> new,
              stage |-> IF Selected(configMap) \/ Selected(new)
                        THEN "handle" ELSE "store"]]
    /\ UNCHANGED <<configMap, permitted, everPermitted, changes, faults>>

Store(u) ==
    /\ At(u, "store")
    /\ configMap' = IF configMap = request[u].old THEN request[u].new ELSE configMap
    /\ Answered(u)
    /\ UNCHANGED <<permitted, everPermitted, writes, changes, faults>>

(* Deletions are not the webhook's. *)
DeleteConfigMap ==
    /\ configMap # Absent /\ configMap' = Absent
    /\ writes < MaxWrites /\ writes' = writes + 1
    /\ UNCHANGED <<permitted, everPermitted, request, changes, faults>>

ChangePermission(u) ==
    /\ changes < MaxChanges /\ changes' = changes + 1
    /\ permitted' = IF u \in permitted THEN permitted \ {u} ELSE permitted \cup {u}
    /\ everPermitted' = everPermitted \cup permitted'
    /\ UNCHANGED <<configMap, request, writes, faults>>

(* The webhook server, its certificate or the network is out of order. *)
Unavailable(u) ==
    /\ At(u, "handle") \/ At(u, "review")
    /\ CallFails
    /\ Answered(u)
    /\ UNCHANGED <<configMap, permitted, everPermitted, writes, changes>>

-----------------------------------------------------------------------------
(* Mutant: an object without the label is none of the webhook's business. *)
HandleLabelled(u) ==
    /\ At(u, "handle")
    /\ LET c == request[u].new
       IN  IF ~c.labelled THEN Proceed(u, "store")
           ELSE IF c.size > MaxObjectSize \/ c.kubeconfig = "" THEN Answered(u)
           ELSE Proceed(u, "review")
    /\ UNCHANGED <<configMap, permitted, everPermitted, writes, changes, faults>>

(* Handle up to the access review: a new object that is too large, or has  *)
(* no kubeconfig, is refused, whatever its label.                          *)
Handle(u) ==
    /\ At(u, "handle")
    /\ IF request[u].new.size > MaxObjectSize \/ request[u].new.kubeconfig = ""
       THEN Answered(u)
       ELSE Proceed(u, "review")
    /\ UNCHANGED <<configMap, permitted, everPermitted, writes, changes, faults>>

(* Mutant: an error of the review is only logged. *)
canManageConfigmapsAccessReviewLogged(u) ==
    /\ At(u, "review")
    /\ \/ u \in permitted /\ Proceed(u, "store") /\ UNCHANGED faults
       \/ u \notin permitted /\ Answered(u) /\ UNCHANGED faults
       \/ CallFails /\ Proceed(u, "store")
    /\ UNCHANGED <<configMap, permitted, everPermitted, writes, changes>>

(* A review that fails is a refusal, with the error for its reason. *)
canManageConfigmapsAccessReview(u) ==
    /\ At(u, "review")
    /\ \/ u \in permitted /\ Proceed(u, "store") /\ UNCHANGED faults
       \/ u \notin permitted /\ Answered(u) /\ UNCHANGED faults
       \/ CallFails /\ Answered(u)
    /\ UNCHANGED <<configMap, permitted, everPermitted, writes, changes>>

Init ==
    /\ configMap = Absent
    /\ permitted \in SUBSET Users /\ everPermitted = permitted
    /\ request = [u \in Users |-> Absent]
    /\ writes = 0 /\ changes = 0 /\ faults = 0

Next ==
    \/ \E u \in Users :
         \/ Submit(u) \/ Handle(u) \/ canManageConfigmapsAccessReview(u)
         \/ Store(u) \/ Unavailable(u) \/ ChangePermission(u)
    \/ DeleteConfigMap

Spec == Init /\ [][Next]_vars

-----------------------------------------------------------------------------
(***************************************************************************)
(* What users take for the kubeconfig of a shoot was last written by       *)
(* somebody who was permitted to manage configMaps, and is a kubeconfig of *)
(* bounded size: whichever way an object got its label, whatever calls     *)
(* failed and whichever writes and deletions overtook each other.          *)
(***************************************************************************)
KubeconfigsAreManaged ==
    Selected(configMap) =>
        /\ configMap.author \in everPermitted
        /\ configMap.kubeconfig # "" /\ configMap.size <= MaxObjectSize

(***************************************************************************)
(* Nobody else changes a kubeconfig configMap either, not even into one    *)
(* without the label; they could only delete it.                           *)
(***************************************************************************)
KubeconfigsAreKept ==
    [][Selected(configMap) /\ configMap' # configMap =>
          configMap' = Absent \/ configMap'.author \in everPermitted]_vars
=============================================================================
