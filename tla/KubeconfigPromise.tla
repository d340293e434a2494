------------------------- MODULE KubeconfigPromise -------------------------
(***************************************************************************)
(* What users and gardener may rely on, without caches, queues, calls or   *)
(* failures: whatever the controller writes for a shoot follows from one   *)
(* version of its Shoot and one of its ShootState that really existed, and *)
(* neither is older than at the write before.  ShootHistory.tla shows that *)
(* the controller implements this.                                         *)
(***************************************************************************)
EXTENDS Integers, Sequences

CONSTANTS
    Shoots,
    Absent,
    CanRender(_, _),   \* is there a kubeconfig for these versions?
    Kubeconfig(_, _)   \* the configMap that belongs to them

VARIABLES
    shootHistory, stateHistory,  \* per shoot, the versions so far
    published    \* per shoot, what the controller wrote last: from which
                 \* versions, and the configMap or Absent

ShootVersion(s, i) == shootHistory[s][i]
StateVersion(s, j) == stateHistory[s][j]

-----------------------------------------------------------------------------
(* Shoot s gets one more version and no version of the past changes. *)
Grows(old, new, s) == new = [old EXCEPT ![s] = Append(@, new[s][Len(new[s])])]

Evolve(s) ==
    /\ \/ Grows(shootHistory, shootHistory', s) /\ UNCHANGED stateHistory
       \/ Grows(stateHistory, stateHistory', s) /\ UNCHANGED shootHistory
    /\ UNCHANGED published

Writes(s, i, j, value) ==
    /\ published' = [published EXCEPT ![s] = [shoot |-> i, state |-> j, value |-> value]]
    /\ UNCHANGED <<shootHistory, stateHistory>>

Publish(s, i, j) ==
    /\ CanRender(ShootVersion(s, i), StateVersion(s, j))
    /\ Writes(s, i, j, Kubeconfig(ShootVersion(s, i), StateVersion(s, j)))

Withdraw(s, i, j) ==
    /\ ShootVersion(s, i) = Absent \/ StateVersion(s, j) = Absent
    /\ Writes(s, i, j, Absent)

Init ==
    /\ \A s \in Shoots : Len(shootHistory[s]) = 1 /\ Len(stateHistory[s]) = 1
    /\ published = [s \in Shoots |-> [shoot |-> 1, state |-> 1, value |-> Absent]]

Next ==
    \E s \in Shoots :
        \/ Evolve(s)
        \/ \E i \in published[s].shoot .. Len(shootHistory[s]),
              j \in published[s].state .. Len(stateHistory[s]) :
            Publish(s, i, j) \/ Withdraw(s, i, j)

Spec == Init /\ [][Next]_<<shootHistory, stateHistory, published>>
=============================================================================
