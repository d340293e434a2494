---------------------------- MODULE ShootHistory ----------------------------
(***************************************************************************)
(* ShootController with a memory: auxiliary variables that record every    *)
(* version of a Shoot and ShootState, which of them handleRequest has      *)
(* read, and from which of them the last write of the controller came.     *)
(* They watch the controller and never take part in its steps.             *)
(***************************************************************************)
EXTENDS ShootController

VARIABLES shootHistory, stateHistory, readAt, published

historyVars == <<shootHistory, stateHistory, readAt, published>>

(* A log is the end of the history: its first version has this number. *)
Position(history, log) == Len(history) - Len(log) + 1

Longer(logs, s) == Len(logs'[s]) > Len(logs[s])

Recorded(history, logs) ==
    [s \in Shoots |->
        IF Longer(logs, s) THEN Append(history[s], Stored(logs'[s])) ELSE history[s]]

Leaves(s, call) == pc[s] = call /\ pc'[s] # call

(* A handling that finds no Shoot reads no ShootState. *)
Reads(s) ==
    IF pc'[s] = "none" THEN [shoot |-> 1, state |-> 1]
    ELSE IF Leaves(s, "getShoot")
    THEN [shoot |-> Position(shootHistory[s], shoots[s]), state |-> published[s].state]
    ELSE IF Leaves(s, "getShootState")
    THEN [readAt[s] EXCEPT !.state = Position(stateHistory[s], shootStates[s])]
    ELSE readAt[s]

(* The write of a handling is its last call. *)
Wrote(s) ==
    /\ pc[s] \in {"create", "update", "delete"} /\ pc'[s] = "none"
    /\ Longer(configMaps, s)

Remember ==
    /\ shootHistory' = Recorded(shootHistory, shoots)
    /\ stateHistory' = Recorded(stateHistory, shootStates)
    /\ readAt' = [s \in Shoots |-> Reads(s)]
    /\ published' = [s \in Shoots |->
            IF Wrote(s)
            THEN [shoot |-> readAt[s].shoot, state |-> readAt[s].state,
                  value |-> Stored(configMaps'[s])]
            ELSE published[s]]

HistoryInit ==
    /\ Init
    /\ shootHistory = shoots /\ stateHistory = shootStates
    /\ readAt = [s \in Shoots |-> [shoot |-> 1, state |-> 1]]
    /\ published = [s \in Shoots |-> [shoot |-> 1, state |-> 1, value |-> Absent]]

HistorySpec == HistoryInit /\ [][Next /\ Remember]_<<vars, historyVars>>

Promise == INSTANCE KubeconfigPromise WITH Kubeconfig <- Rendered

(***************************************************************************)
(* Whatever handleRequest writes follows from versions of the Shoot and of *)
(* the ShootState that existed, and never from older ones than the write   *)
(* before it: no kubeconfig mixes a CA with addresses it was not read      *)
(* with, none is withdrawn unless a version of one of the two was gone,    *)
(* and none returns to the past, with caches behind, calls that fail,      *)
(* answers that get lost and a process that restarts at any moment.        *)
(***************************************************************************)
KeepsPromise == Promise!Spec
=============================================================================
