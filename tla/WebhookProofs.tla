--------------------------- MODULE WebhookProofs ---------------------------
(***************************************************************************)
(* Proofs about Webhook for any users, sizes and limit, and any number of  *)
(* writes, changed permissions and failed calls.                           *)
(***************************************************************************)
EXTENDS Webhook, TLAPS

Writes == [old : ConfigMaps \cup {Absent}, new : ConfigMaps,
           stage : {"handle", "review", "store"}]

WebhookTypeOK ==
    /\ configMap \in ConfigMaps \cup {Absent}
    /\ request \in [Users -> Writes \cup {Absent}]

(* What Handle, and what the review, has established about a write. *)
Checked(u) == request[u].new.size <= MaxObjectSize /\ request[u].new.kubeconfig # ""
Vouched(u) == request[u].new.author \in everPermitted

(***************************************************************************)
(* The inductive invariant.  A write that waits for its review has been    *)
(* checked; one that waits to be stored is of no concern to the webhook,   *)
(* on both sides, or has been checked and vouched for.  A permission that  *)
(* is taken away meanwhile does not undo this: everPermitted only grows.   *)
(***************************************************************************)
WriteInv(u) ==
    request[u] # Absent =>
        /\ request[u].new.author = u
        /\ request[u].stage = "review" => Checked(u)
        /\ request[u].stage = "store" =>
              \/ ~Selected(request[u].old) /\ ~Selected(request[u].new)
              \/ Checked(u) /\ Vouched(u)

WebhookInv ==
    /\ WebhookTypeOK
    /\ permitted \subseteq everPermitted
    /\ \A u \in Users : WriteInv(u)
    /\ KubeconfigsAreManaged

(* A write that is answered leaves no obligation, and the others keep theirs. *)
LEMMA AnsweredKeeps ==
    ASSUME WebhookInv, NEW u \in Users, Answered(u), UNCHANGED everPermitted
    PROVE  request' \in [Users -> Writes \cup {Absent}] /\ \A v \in Users : WriteInv(v)'
BY DEF WebhookInv, WebhookTypeOK, Answered, WriteInv, Checked, Vouched

(* A write that proceeds keeps its objects; its new stage is all it owes. *)
LEMMA ProceedKeeps ==
    ASSUME WebhookInv, NEW u \in Users, request[u] # Absent,
           NEW stage \in {"review", "store"}, Proceed(u, stage), Checked(u),
           stage = "store" => Vouched(u), UNCHANGED everPermitted
    PROVE  request' \in [Users -> Writes \cup {Absent}] /\ \A v \in Users : WriteInv(v)'
<1>1. request[u] \in Writes /\ request \in [Users -> Writes \cup {Absent}]
    BY DEF WebhookInv, WebhookTypeOK
<1>2. /\ request'[u].new = request[u].new /\ request'[u].old = request[u].old
      /\ request'[u].stage = stage /\ request'[u] \in Writes
    BY <1>1 DEF Proceed, Writes
<1>3. \A v \in Users \ {u} : request'[v] = request[v]
    BY <1>1 DEF Proceed
<1>4. request' \in [Users -> Writes \cup {Absent}]
    BY <1>1, <1>2, <1>3 DEF Proceed
<1>5. ASSUME NEW v \in Users PROVE WriteInv(v)'
  <2>1. CASE v = u
    BY <1>2, <2>1 DEF WebhookInv, WriteInv, Checked, Vouched
  <2>2. CASE v # u
    BY <1>3, <2>2 DEF WebhookInv, WriteInv, Checked, Vouched
  <2>3. QED
    BY <2>1, <2>2
<1>6. QED
    BY <1>4, <1>5

(* One step of one write, or of the permissions, keeps the invariant. *)
LEMMA UserStep ==
    ASSUME WebhookInv, NEW u \in Users,
           Submit(u) \/ Handle(u) \/ canManageConfigmapsAccessReview(u)
              \/ Store(u) \/ Unavailable(u) \/ ChangePermission(u)
    PROVE  WebhookInv'
<1> USE WebhookAssumption
<1>1. CASE Submit(u)
  <2>1. PICK new \in ConfigMaps :
          /\ new.author = u
          /\ request' = [request EXCEPT ![u] =
               [old |-> configMap, new |-> new,
                stage |-> IF Selected(configMap) \/ Selected(new)
                          THEN "handle" ELSE "store"]]
    BY <1>1 DEF Submit
  <2>2. WebhookTypeOK'
    BY <1>1, <2>1 DEF WebhookInv, WebhookTypeOK, Writes, Submit
  <2>3. ASSUME NEW v \in Users PROVE WriteInv(v)'
    <3>1. CASE v = u
      BY <1>1, <2>1, <3>1 DEF WebhookInv, WebhookTypeOK, WriteInv, Submit
    <3>2. CASE v # u
      BY <1>1, <2>1, <3>2
         DEF WebhookInv, WebhookTypeOK, WriteInv, Checked, Vouched, Submit
    <3>3. QED
      BY <3>1, <3>2
  <2>4. QED
    BY <1>1, <2>2, <2>3 DEF WebhookInv, KubeconfigsAreManaged, Submit
<1>2. CASE Handle(u)
  <2>1. request[u] # Absent /\ request[u] \in Writes
    BY <1>2 DEF Handle, At, WebhookInv, WebhookTypeOK
  <2>2. Answered(u) \/ (Proceed(u, "review") /\ Checked(u))
    <3>1. request[u].new.size \in Nat
      BY <2>1 DEF Writes, ConfigMaps
    <3>2. request[u].new.size > MaxObjectSize \/ request[u].new.size <= MaxObjectSize
      BY <3>1
    <3>3. QED
      BY <1>2, <3>2 DEF Handle, Checked
  <2>3. request' \in [Users -> Writes \cup {Absent}] /\ \A v \in Users : WriteInv(v)'
    BY <1>2, <2>1, <2>2, AnsweredKeeps, ProceedKeeps DEF Handle
  <2>4. QED
    BY <1>2, <2>3 DEF Handle, WebhookInv, WebhookTypeOK, KubeconfigsAreManaged
<1>3. CASE canManageConfigmapsAccessReview(u)
  <2>1. request[u] # Absent /\ Checked(u) /\ request[u].new.author = u
    BY <1>3 DEF canManageConfigmapsAccessReview, At, WebhookInv, WriteInv
  <2>2. Answered(u) \/ (Proceed(u, "store") /\ Vouched(u))
    BY <1>3, <2>1 DEF canManageConfigmapsAccessReview, WebhookInv, Vouched
  <2>3. request' \in [Users -> Writes \cup {Absent}] /\ \A v \in Users : WriteInv(v)'
    BY <1>3, <2>1, <2>2, AnsweredKeeps, ProceedKeeps
       DEF canManageConfigmapsAccessReview
  <2>4. QED
    BY <1>3, <2>3
       DEF canManageConfigmapsAccessReview, WebhookInv, WebhookTypeOK,
           KubeconfigsAreManaged
<1>4. CASE Store(u)
  <2>1. request' \in [Users -> Writes \cup {Absent}] /\ \A v \in Users : WriteInv(v)'
    BY <1>4, AnsweredKeeps DEF Store
  <2>2. request[u] # Absent /\ request[u] \in Writes
    BY <1>4 DEF Store, At, WebhookInv, WebhookTypeOK
  <2>3. configMap' \in ConfigMaps \cup {Absent}
    BY <1>4, <2>2 DEF Store, Writes, WebhookInv, WebhookTypeOK
  <2>4. KubeconfigsAreManaged'
    BY <1>4, <2>2
       DEF Store, At, WebhookInv, WriteInv, Checked, Vouched, KubeconfigsAreManaged,
           Selected
  <2>5. QED
    BY <1>4, <2>1, <2>3, <2>4 DEF Store, WebhookInv, WebhookTypeOK
<1>5. CASE Unavailable(u)
    BY <1>5, AnsweredKeeps
       DEF Unavailable, WebhookInv, WebhookTypeOK, KubeconfigsAreManaged
<1>6. CASE ChangePermission(u)
  <2>1. everPermitted \subseteq everPermitted' /\ permitted' \subseteq everPermitted'
    BY <1>6 DEF ChangePermission
  <2>2. QED
    BY <1>6, <2>1
       DEF ChangePermission, WebhookInv, WebhookTypeOK, WriteInv, Checked, Vouched,
           KubeconfigsAreManaged
<1>7. QED
    BY <1>1, <1>2, <1>3, <1>4, <1>5, <1>6

(* The invariant holds initially and every step keeps it. *)
THEOREM WebhookInvHolds == Spec => []WebhookInv
<1>1. Init => WebhookInv
    BY DEF Init, WebhookInv, WebhookTypeOK, WriteInv, KubeconfigsAreManaged, Selected
<1>2. WebhookInv /\ [Next]_vars => WebhookInv'
  <2>1. SUFFICES ASSUME WebhookInv, [Next]_vars PROVE WebhookInv'
    OBVIOUS
  <2>2. CASE UNCHANGED vars
    BY <2>1, <2>2 DEF vars, WebhookInv, WebhookTypeOK, WriteInv, Checked, Vouched,
                KubeconfigsAreManaged, Selected
  <2>3. CASE DeleteConfigMap
    BY <2>1, <2>3 DEF DeleteConfigMap, WebhookInv, WebhookTypeOK, WriteInv, Checked,
                Vouched, KubeconfigsAreManaged, Selected
  <2>4. QED
    BY <2>1, <2>2, <2>3, UserStep DEF Next
<1>3. QED
    BY <1>1, <1>2, PTL DEF Spec

(***************************************************************************)
(* Every labelled configMap was last written with the permission to manage *)
(* configMaps, holds a kubeconfig and has a bounded size, however the      *)
(* writes of however many users interleave.                                *)
(***************************************************************************)
THEOREM LabelledAreManaged == Spec => []KubeconfigsAreManaged
<1>1. WebhookInv => KubeconfigsAreManaged
    BY DEF WebhookInv
<1>2. QED
    BY <1>1, WebhookInvHolds, PTL

(***************************************************************************)
(* Every write on top of a labelled configMap is by somebody with that     *)
(* permission: the old object selects the webhook, and Store keeps a write *)
(* away from any other object than the one it was admitted with.           *)
(***************************************************************************)
THEOREM LabelledAreKept == Spec => KubeconfigsAreKept
<1>1. ASSUME WebhookInv, [Next]_vars, Selected(configMap), configMap' # configMap
      PROVE  configMap' = Absent \/ configMap'.author \in everPermitted
  <2>1. CASE DeleteConfigMap
    BY <2>1 DEF DeleteConfigMap
  <2>2. ASSUME NEW u \in Users, Store(u)
        PROVE  configMap'.author \in everPermitted
    BY <1>1, <2>2 DEF Store, At, WebhookInv, WebhookTypeOK, Writes, WriteInv, Vouched
  <2>3. QED
    BY <1>1, <2>1, <2>2
       DEF Next, vars, Submit, Handle, canManageConfigmapsAccessReview,
           Unavailable, ChangePermission
<1>2. QED
    BY <1>1, WebhookInvHolds, PTL DEF Spec, KubeconfigsAreKept
=============================================================================
