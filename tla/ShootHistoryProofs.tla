------------------------ MODULE ShootHistoryProofs ------------------------
(***************************************************************************)
(* The controller implements KubeconfigPromise: whatever it writes follows *)
(* from versions of the Shoot and of the ShootState that existed, each at  *)
(* least as new as at the write before. The invariant says where the logs  *)
(* are in the histories, and that what a handling remembers is what it     *)
(* read at the positions recorded for it, which lie between the last write *)
(* and the present.                                                        *)
(***************************************************************************)
EXTENDS ShootHistory, ShootControllerProofs

(* A log is the end of its history. *)
EndOf(history, log) ==
    /\ Len(log) <= Len(history)
    /\ \A i \in 1..Len(log) : log[i] = history[Len(history) - Len(log) + i]

(* A log grows by one version, or loses versions at its front. *)
Evolves(S, log, newLog) ==
    /\ newLog \in Log(S)
    /\ EndOf(log, newLog) \/ \E v \in S : newLog = Append(log, v)

(* The types of what is remembered. *)
HistoryTypeOK ==
    /\ shootHistory \in [Shoots -> Log(ShootVersions)]
    /\ stateHistory \in [Shoots -> Log(StateVersions)]
    /\ readAt \in [Shoots -> [shoot : Nat, state : Nat]]
    /\ published \in [Shoots -> [shoot : Nat, state : Nat, value : ConfigMapVersions]]

(* The versions the handling of s has read. *)
ReadShoot(s) == shootHistory[s][readAt[s].shoot]
ReadState(s) == stateHistory[s][readAt[s].state]

(***************************************************************************)
(* What a handling reads is no older than what the last write came from,   *)
(* and no newer than what the caches know.                                 *)
(***************************************************************************)
ReadInOrder(s) ==
    /\ readAt[s].shoot \in published[s].shoot .. Position(shootHistory[s], shoots[s])
    /\ readAt[s].state \in published[s].state .. Position(stateHistory[s], shootStates[s])

(***************************************************************************)
(* The logs are the ends of the histories, and the last write came from    *)
(* versions known by now.                                                  *)
(***************************************************************************)
Followed(s) ==
    /\ EndOf(shootHistory[s], shoots[s]) /\ EndOf(stateHistory[s], shootStates[s])
    /\ published[s].shoot \in 1..Position(shootHistory[s], shoots[s])
    /\ published[s].state \in 1..Position(stateHistory[s], shootStates[s])

(***************************************************************************)
(* What a handling remembers is what it read: a configMap about to be      *)
(* written is that of the versions read, and a kubeconfig about to be      *)
(* deleted is that of a shoot of which one of them was gone.               *)
(***************************************************************************)
Faithful(s) ==
    /\ pc[s] \notin {"none", "getShoot"} => ReadInOrder(s)
    /\ pc[s] \in Reading => local[s].shoot = ReadShoot(s)
    /\ pc[s] \in Rendering =>
            /\ CanRender(ReadShoot(s), ReadState(s))
            /\ local[s].desired = Rendered(ReadShoot(s), ReadState(s))
    /\ pc[s] = "delete" => ReadShoot(s) = Absent \/ ReadState(s) = Absent

(* The invariant behind the promise. *)
HistoryInv == \A s \in Shoots : Followed(s) /\ Faithful(s)

(* A log is an end of itself. *)
LEMMA EndIsReflexive ==
    ASSUME NEW S, NEW log \in Log(S)
    PROVE  EndOf(log, log)
<1>1. Len(log) \in Nat
    BY LogIsNonempty
<1>2. QED
    BY <1>1 DEF EndOf

(* The history of a log that becomes newLog. *)
Extended(history, log, newLog) ==
    IF Len(newLog) > Len(log) THEN Append(history, Stored(newLog)) ELSE history

(***************************************************************************)
(* A history continues: no version of the past changes and the position of *)
(* the log never goes back.                                                *)
(***************************************************************************)
Continues(S, history, log, newHistory, newLog) ==
    /\ newHistory \in Log(S)
    /\ EndOf(newHistory, newLog)
    /\ Position(newHistory, newLog) >= Position(history, log)
    /\ Position(history, log) \in 1..Len(history)
    /\ Position(newHistory, newLog) \in 1..Len(newHistory)
    /\ history[Position(history, log)] = Known(log)
    /\ \A i \in 1..Len(history) : newHistory[i] = history[i]

(* Whenever a log evolves its history continues. *)
LEMMA HistoryFollows ==
    ASSUME NEW S, NEW history \in Log(S), NEW log \in Log(S), NEW newLog,
           EndOf(history, log), Evolves(S, log, newLog)
    PROVE  Continues(S, history, log, Extended(history, log, newLog), newLog)
<1> DEFINE newHistory == Extended(history, log, newLog)
<1>0. newHistory = IF Len(newLog) > Len(log) THEN Append(history, Stored(newLog))
                                             ELSE history
    BY DEF Extended
<1> SUFFICES Continues(S, history, log, newHistory, newLog)
    OBVIOUS
<1> HIDE DEF newHistory
<1>1. /\ Len(history) \in Nat \ {0} /\ Len(log) \in Nat \ {0} /\ Known(log) = log[1]
      /\ Len(newLog) \in Nat \ {0} /\ newLog \in Log(S)
    BY LogIsNonempty DEF Evolves
<1>2. Position(history, log) \in 1..Len(history) /\ history[Position(history, log)] = Known(log)
  <2>1. Len(log) <= Len(history) /\ log[1] = history[Len(history) - Len(log) + 1]
    BY <1>1 DEF EndOf
  <2>2. QED
    BY <1>1, <2>1 DEF Position
<1>3. CASE EndOf(log, newLog)
  <2>1. Len(newLog) <= Len(log) /\ newHistory = history
    BY <1>0, <1>1, <1>3 DEF EndOf
  <2>2. ASSUME NEW i \in 1..Len(newLog)
        PROVE  newLog[i] = history[Len(history) - Len(newLog) + i]
    <3>1. Len(log) - Len(newLog) + i \in 1..Len(log)
      BY <1>1, <2>1
    <3>2. /\ newLog[i] = log[Len(log) - Len(newLog) + i]
          /\ log[Len(log) - Len(newLog) + i]
                = history[Len(history) - Len(log) + (Len(log) - Len(newLog) + i)]
      BY <1>3, <3>1 DEF EndOf
    <3>3. Len(history) - Len(log) + (Len(log) - Len(newLog) + i) = Len(history) - Len(newLog) + i
      BY <1>1
    <3>4. QED
      BY <3>2, <3>3
  <2>3. EndOf(history, newLog)
    BY <1>1, <2>1, <2>2 DEF EndOf
  <2>4. /\ Position(newHistory, newLog) >= Position(history, log)
        /\ Position(newHistory, newLog) \in 1..Len(newHistory)
    BY <1>1, <1>2, <2>1, <2>3 DEF Position, EndOf
  <2>5. QED
    BY <1>2, <2>1, <2>3, <2>4 DEF Continues
<1>4. CASE \E v \in S : newLog = Append(log, v)
  <2>1. PICK v \in S : newLog = Append(log, v)
    BY <1>4
  <2>2. /\ Len(newLog) = Len(log) + 1 /\ Stored(newLog) = v
        /\ \A i \in 1..Len(log) : newLog[i] = log[i]
        /\ newLog[Len(log) + 1] = v
    BY <2>1, LogGrows DEF Stored
  <2>3. newHistory = Append(history, v)
    BY <1>0, <1>1, <2>2
  <2>4. /\ newHistory \in Log(S) /\ Len(newHistory) = Len(history) + 1
        /\ \A i \in 1..Len(history) : newHistory[i] = history[i]
        /\ newHistory[Len(history) + 1] = v
    BY <2>3, LogGrows DEF Stored
  <2>5. ASSUME NEW i \in 1..Len(newLog)
        PROVE  newLog[i] = newHistory[Len(newHistory) - Len(newLog) + i]
    <3>1. Len(newHistory) - Len(newLog) + i = Len(history) - Len(log) + i
      BY <1>1, <2>2, <2>4
    <3>2. CASE i = Len(log) + 1
      BY <1>1, <2>2, <2>4, <3>1, <3>2
    <3>3. CASE i # Len(log) + 1
      <4>1. i \in 1..Len(log) /\ Len(history) - Len(log) + i \in 1..Len(history)
        BY <1>1, <2>2, <3>3 DEF EndOf
      <4>2. newLog[i] = log[i] /\ log[i] = history[Len(history) - Len(log) + i]
        BY <2>2, <4>1 DEF EndOf
      <4>3. QED
        BY <2>4, <3>1, <4>1, <4>2
    <3>4. QED
      BY <3>2, <3>3
  <2>6. EndOf(newHistory, newLog)
    <3>1. Len(newLog) <= Len(newHistory)
      BY <1>1, <2>2, <2>4 DEF EndOf
    <3>2. QED
      BY <2>5, <3>1 DEF EndOf
  <2>7. Position(newHistory, newLog) = Position(history, log)
    BY <1>1, <2>2, <2>4 DEF Position
  <2>8. /\ Position(history, log) \in Nat
        /\ Position(newHistory, newLog) \in 1..Len(newHistory)
    BY <1>1, <1>2, <2>4, <2>7
  <2>9. QED
    BY <1>2, <2>4, <2>6, <2>7, <2>8 DEF Continues
<1>5. QED
    BY <1>3, <1>4 DEF Evolves

(* A delivery, relist or not, leaves an end of the log, *)
LEMMA DeliveryIsAnEnd ==
    ASSUME NEW S, NEW log \in Log(S), Behind(log), NEW rest, Advance(log, rest)
    PROVE  rest \in Log(S) /\ EndOf(log, rest)
<1>1. Len(log) \in Nat \ {0} /\ Len(log) > 1 /\ Stored(log) \in S /\ Stored(log) = log[Len(log)]
  <2>1. Len(log) \in Nat \ {0} /\ Stored(log) \in Entries(log) /\ Entries(log) \subseteq S
    BY LogIsNonempty
  <2>2. QED
    BY <2>1 DEF Behind, Stored
<1>2. CASE rest = Tail(log)
  <2>1. /\ Tail(log) \in Log(S) /\ Len(Tail(log)) = Len(log) - 1
        /\ \A i \in 1..Len(log) - 1 : Tail(log)[i] = log[i + 1]
    BY LogAdvances
  <2>2. QED
    BY <1>1, <1>2, <2>1 DEF EndOf
<1>3. CASE rest = <<Stored(log)>>
  <2>1. rest \in Log(S) /\ Len(rest) = 1 /\ rest[1] = Stored(log)
    BY <1>1, <1>3, LogStarts
  <2>2. QED
    BY <1>1, <2>1 DEF EndOf
<1>4. QED
    BY <1>2, <1>3 DEF Advance

(* and so does the list of a restarted process. *)
LEMMA LatestIsAnEnd ==
    ASSUME NEW S, NEW log \in Log(S)
    PROVE  <<Stored(log)>> \in Log(S) /\ EndOf(log, <<Stored(log)>>)
<1>1. Len(log) \in Nat \ {0} /\ Stored(log) \in S /\ Stored(log) = log[Len(log)]
  <2>1. Len(log) \in Nat \ {0} /\ Stored(log) \in Entries(log) /\ Entries(log) \subseteq S
    BY LogIsNonempty
  <2>2. QED
    BY <2>1 DEF Stored
<1>2. <<Stored(log)>> \in Log(S) /\ Len(<<Stored(log)>>) = 1 /\ <<Stored(log)>>[1] = Stored(log)
    BY <1>1, LogStarts
<1>3. QED
    BY <1>1, <1>2 DEF EndOf

(* So whatever a step does, the logs of Shoots and ShootStates evolve. *)
LEMMA LogsEvolve ==
    ASSUME TypeOK, [Next]_vars, NEW s \in Shoots
    PROVE  /\ Evolves(ShootVersions, shoots[s], shoots'[s])
           /\ Evolves(StateVersions, shootStates[s], shootStates'[s])
<1>1. /\ shoots \in [Shoots -> Log(ShootVersions)]
      /\ shootStates \in [Shoots -> Log(StateVersions)]
      /\ CacheTypeOK /\ LoopTypeOK /\ HandlerTypeOK
    BY DEF TypeOK, CacheTypeOK, ShootVersions, StateVersions
<1>2. /\ shoots'[s] = shoots[s] => Evolves(ShootVersions, shoots[s], shoots'[s])
      /\ shootStates'[s] = shootStates[s]
            => Evolves(StateVersions, shootStates[s], shootStates'[s])
    BY <1>1, EndIsReflexive DEF Evolves
<1>3. CASE World(Environment) \/ World(Housekeeping)
  <2>1. EnvironmentEffect
    BY <1>1, <1>3, EnvironmentStep
  <2>2. ASSUME NEW t \in Shoots, NEW v \in ShootVersions, ShootChanges(t, v)
        PROVE  /\ Evolves(ShootVersions, shoots[s], shoots'[s])
               /\ shootStates'[s] = shootStates[s]
    <3>1. shoots' = Write(shoots, t, v) /\ UNCHANGED shootStates
      BY <2>2 DEF ShootChanges, WriteShoot
    <3>2. CASE s = t
      <4>1. shoots'[s] = Append(shoots[s], v) /\ shoots[s] \in Log(ShootVersions)
        BY <1>1, <3>1, <3>2, LogsAreWritten
      <4>2. QED
        BY <3>1, <4>1, LogGrows DEF Evolves
    <3>3. CASE s # t
      BY <1>1, <1>2, <3>1, <3>3, LogsAreWritten
    <3>4. QED
      BY <3>2, <3>3
  <2>3. ASSUME NEW t \in Shoots, NEW v \in StateVersions, StateChanges(t, v)
        PROVE  /\ Evolves(StateVersions, shootStates[s], shootStates'[s])
               /\ shoots'[s] = shoots[s]
    <3>1. shootStates' = Write(shootStates, t, v) /\ UNCHANGED shoots
      BY <2>3 DEF StateChanges, WriteShootState
    <3>2. CASE s = t
      <4>1. /\ shootStates'[s] = Append(shootStates[s], v)
            /\ shootStates[s] \in Log(StateVersions)
        BY <1>1, <3>1, <3>2, LogsAreWritten
      <4>2. QED
        BY <3>1, <4>1, LogGrows DEF Evolves
    <3>3. CASE s # t
      BY <1>1, <1>2, <3>1, <3>3, LogsAreWritten
    <3>4. QED
      BY <3>2, <3>3
  <2>4. QED
    BY <1>2, <2>1, <2>2, <2>3 DEF EnvironmentEffect, ConfigMapChanges, QuotaChanges
<1>4. CASE Deliver
  <2>1. ASSUME NEW t \in Shoots, DeliverShoot(t)
        PROVE  /\ Evolves(ShootVersions, shoots[s], shoots'[s])
               /\ shootStates'[s] = shootStates[s]
    <3>1. PICK rest : Advance(shoots[t], rest) /\ shoots' = [shoots EXCEPT ![t] = rest]
      BY <2>1 DEF DeliverShoot
    <3>2. rest \in Log(ShootVersions) /\ EndOf(shoots[t], rest)
      BY <1>1, <2>1, <3>1, DeliveryIsAnEnd DEF DeliverShoot
    <3>3. QED
      BY <1>1, <1>2, <2>1, <3>1, <3>2 DEF Evolves, DeliverShoot
  <2>2. ASSUME NEW t \in Shoots, DeliverShootState(t)
        PROVE  /\ Evolves(StateVersions, shootStates[s], shootStates'[s])
               /\ shoots'[s] = shoots[s]
    <3>1. PICK rest : /\ Advance(shootStates[t], rest)
                      /\ shootStates' = [shootStates EXCEPT ![t] = rest]
      BY <2>2 DEF DeliverShootState
    <3>2. rest \in Log(StateVersions) /\ EndOf(shootStates[t], rest)
      BY <1>1, <2>2, <3>1, DeliveryIsAnEnd DEF DeliverShootState
    <3>3. QED
      BY <1>1, <1>2, <2>2, <3>1, <3>2 DEF Evolves, DeliverShootState
  <2>3. QED
    BY <1>2, <1>4, <2>1, <2>2 DEF Deliver, DeliverConfigMap, DeliverQuota, LoseQuotaEvent,
                                  DeliverMetadata, clusterVars, objects
<1>5. CASE ProcessRestarts
    BY <1>1, <1>5, LatestIsAnEnd DEF ProcessRestarts, Evolves, shoot, shootState
<1>6. ASSUME NEW t \in Shoots, handleRequest(t) \/ CallFails(t)
      PROVE  UNCHANGED <<shoots, shootStates>>
    BY <1>1, <1>6, HandlerWrites
<1>7. ASSUME NEW t \in Shoots,
             Start(t) \/ Finish(t) \/ Outside(Take(t)) \/ Outside(TimerFires(t))
      PROVE  UNCHANGED <<shoots, shootStates>>
    BY <1>7 DEF Start, Finish, Outside, clusterVars, objects
<1>8. CASE UNCHANGED vars
    BY <1>2, <1>8 DEF vars, clusterVars, objects
<1>9. QED
    BY <1>2, <1>3, <1>4, <1>5, <1>6, <1>7, <1>8 DEF Next

(***************************************************************************)
(* A step leaves a handling alone, starts it, ends it without a write or   *)
(* is one of its calls.                                                    *)
(***************************************************************************)
LEMMA HandlingMoves ==
    ASSUME TypeOK, [Next]_vars, NEW s \in Shoots
    PROVE  \/ pc'[s] = pc[s] /\ local'[s] = local[s]
           \/ pc'[s] = "getShoot"
           \/ pc'[s] = "none" /\ configMaps'[s] = configMaps[s]
           \/ pc'[s] = "none" /\ Len(configMaps'[s]) = 1
           \/ handleRequest(s) /\ UNCHANGED <<shoots, shootStates>>
<1>1. CacheTypeOK /\ LoopTypeOK /\ HandlerTypeOK
    BY DEF TypeOK
<1>2. CASE World(Environment) \/ World(Housekeeping)
    BY <1>2 DEF World, handler
<1>3. CASE Deliver
    BY <1>3, NotifyKeepsHandler DEF handler
<1>4. CASE ProcessRestarts
    BY <1>4 DEF ProcessRestarts
<1>5. ASSUME NEW t \in Shoots, handleRequest(t) \/ CallFails(t), t # s
      PROVE  pc'[s] = pc[s] /\ local'[s] = local[s]
    BY <1>1, <1>5, HandlerMoves
<1>6. CASE handleRequest(s)
    BY <1>1, <1>6, HandlerWrites
<1>7. CASE CallFails(s)
    BY <1>1, <1>7 DEF CallFails, Return, HandlerTypeOK
<1>8. ASSUME NEW t \in Shoots,
             Start(t) \/ Finish(t) \/ Outside(Take(t)) \/ Outside(TimerFires(t))
      PROVE  (pc'[s] = pc[s] \/ pc'[s] = "getShoot") /\ local'[s] = local[s]
    BY <1>1, <1>8, LoopMoves
<1>9. CASE UNCHANGED vars
    BY <1>9 DEF vars, handler
<1>10. QED
    BY <1>2, <1>3, <1>4, <1>5, <1>6, <1>7, <1>8, <1>9 DEF Next

(* Every step keeps the types of the histories. *)
LEMMA HistoryTypeStep ==
    ASSUME TypeOK, HistoryTypeOK, HistoryInv, [Next]_vars, TypeOK',
           Remember \/ UNCHANGED <<vars, historyVars>>
    PROVE  HistoryTypeOK'
<1>1. CASE UNCHANGED <<vars, historyVars>>
    BY <1>1 DEF HistoryTypeOK, historyVars
<1>2. CASE Remember
  <2>1. ASSUME NEW s \in Shoots
        PROVE  /\ shootHistory'[s] \in Log(ShootVersions)
               /\ stateHistory'[s] \in Log(StateVersions)
               /\ Position(shootHistory[s], shoots[s]) \in Nat
               /\ Position(stateHistory[s], shootStates[s]) \in Nat
    <3>1. /\ Evolves(ShootVersions, shoots[s], shoots'[s])
          /\ Evolves(StateVersions, shootStates[s], shootStates'[s])
      BY LogsEvolve
    <3>2. /\ shoots[s] \in Log(ShootVersions) /\ shootStates[s] \in Log(StateVersions)
          /\ shootHistory[s] \in Log(ShootVersions) /\ stateHistory[s] \in Log(StateVersions)
          /\ EndOf(shootHistory[s], shoots[s]) /\ EndOf(stateHistory[s], shootStates[s])
      BY DEF TypeOK, CacheTypeOK, ShootVersions, StateVersions, HistoryTypeOK, HistoryInv,
             Followed
    <3>3. /\ shootHistory'[s] = Extended(shootHistory[s], shoots[s], shoots'[s])
          /\ stateHistory'[s] = Extended(stateHistory[s], shootStates[s], shootStates'[s])
      BY <1>2 DEF Remember, Recorded, Longer, Extended
    <3>4. /\ Continues(ShootVersions, shootHistory[s], shoots[s], shootHistory'[s], shoots'[s])
          /\ Continues(StateVersions, stateHistory[s], shootStates[s], stateHistory'[s],
                       shootStates'[s])
      BY <3>1, <3>2, <3>3, HistoryFollows
    <3>5. QED
      BY <3>4 DEF Continues
  <2>2. /\ shootHistory' \in [Shoots -> Log(ShootVersions)]
        /\ stateHistory' \in [Shoots -> Log(StateVersions)]
    BY <1>2, <2>1 DEF Remember, Recorded
  <2>3. readAt' \in [Shoots -> [shoot : Nat, state : Nat]]
    <3>1. ASSUME NEW s \in Shoots PROVE Reads(s) \in [shoot : Nat, state : Nat]
      BY <2>1 DEF Reads, HistoryTypeOK
    <3>2. QED
      BY <1>2, <3>1 DEF Remember
  <2>4. published' \in [Shoots -> [shoot : Nat, state : Nat, value : ConfigMapVersions]]
    <3>1. ASSUME NEW s \in Shoots PROVE Stored(configMaps'[s]) \in ConfigMapVersions
      BY CurrentVersions, LogIsNonempty DEF TypeOK, CacheTypeOK, ConfigMapVersions
    <3>2. QED
      BY <1>2, <3>1 DEF Remember, HistoryTypeOK
  <2>5. QED
    BY <2>2, <2>3, <2>4 DEF HistoryTypeOK
<1>3. QED
    BY <1>1, <1>2

(* Every step keeps the invariant. *)
LEMMA HistoryStep ==
    ASSUME TypeOK, HistoryTypeOK, HistoryInv, Next, Remember, TypeOK', HistoryTypeOK'
    PROVE  HistoryInv'
<1> SUFFICES ASSUME NEW s \in Shoots PROVE (Followed(s) /\ Faithful(s))'
    BY DEF HistoryInv
<1> DEFINE at == Position(shootHistory[s], shoots[s])
           stateAt == Position(stateHistory[s], shootStates[s])
<1>0. /\ Continues(ShootVersions, shootHistory[s], shoots[s], shootHistory'[s], shoots'[s])
      /\ Continues(StateVersions, stateHistory[s], shootStates[s], stateHistory'[s],
                   shootStates'[s])
  <2>1. /\ Evolves(ShootVersions, shoots[s], shoots'[s])
        /\ Evolves(StateVersions, shootStates[s], shootStates'[s])
    BY LogsEvolve
  <2>2. /\ shoots[s] \in Log(ShootVersions) /\ shootStates[s] \in Log(StateVersions)
        /\ shootHistory[s] \in Log(ShootVersions) /\ stateHistory[s] \in Log(StateVersions)
        /\ EndOf(shootHistory[s], shoots[s]) /\ EndOf(stateHistory[s], shootStates[s])
    BY DEF TypeOK, CacheTypeOK, ShootVersions, StateVersions, HistoryTypeOK, HistoryInv,
           Followed
  <2>3. /\ shootHistory'[s] = Extended(shootHistory[s], shoots[s], shoots'[s])
        /\ stateHistory'[s] = Extended(stateHistory[s], shootStates[s], shootStates'[s])
    BY DEF Remember, Recorded, Longer, Extended
  <2>4. QED
    BY <2>1, <2>2, <2>3, HistoryFollows
<1>1. /\ shootHistory'[s] \in Log(ShootVersions) /\ EndOf(shootHistory'[s], shoots'[s])
      /\ at' >= at /\ at \in 1..Len(shootHistory[s]) /\ at' \in 1..Len(shootHistory'[s])
      /\ shootHistory[s][at] = cShoot(s)
      /\ \A i \in 1..Len(shootHistory[s]) : shootHistory'[s][i] = shootHistory[s][i]
    BY <1>0 DEF Continues, cShoot
<1>2. /\ stateHistory'[s] \in Log(StateVersions) /\ EndOf(stateHistory'[s], shootStates'[s])
      /\ stateAt' >= stateAt /\ stateAt \in 1..Len(stateHistory[s])
      /\ stateAt' \in 1..Len(stateHistory'[s])
      /\ stateHistory[s][stateAt] = cShootState(s)
      /\ \A i \in 1..Len(stateHistory[s]) : stateHistory'[s][i] = stateHistory[s][i]
    BY <1>0 DEF Continues, cShootState
<1>3. /\ Len(shootHistory[s]) \in Nat /\ Len(stateHistory[s]) \in Nat
      /\ Len(shootHistory'[s]) \in Nat /\ Len(stateHistory'[s]) \in Nat
      /\ at \in Nat /\ at' \in Nat /\ stateAt \in Nat /\ stateAt' \in Nat
  <2>1. Len(shootHistory[s]) \in Nat /\ Len(stateHistory[s]) \in Nat
    BY LogIsNonempty DEF HistoryTypeOK
  <2>2. Len(shootHistory'[s]) \in Nat /\ Len(stateHistory'[s]) \in Nat
    BY <1>1, <1>2, LogIsNonempty
  <2>3. QED
    BY <1>1, <1>2, <2>1, <2>2
<1>4. /\ readAt[s] \in [shoot : Nat, state : Nat]
      /\ published[s] \in [shoot : Nat, state : Nat, value : ConfigMapVersions]
      /\ published[s].shoot \in 1..at /\ published[s].state \in 1..stateAt
      /\ Faithful(s) /\ readAt'[s] = Reads(s)
      /\ pc[s] \in Calls
    BY DEF HistoryTypeOK, HistoryInv, Followed, Remember, TypeOK, HandlerTypeOK
<1>5. \/ published'[s] = published[s]
      \/ /\ Wrote(s) /\ published'[s].shoot = readAt[s].shoot
         /\ published'[s].state = readAt[s].state
    BY DEF Remember
<1> HIDE DEF at, stateAt
<1>6. Followed(s)'
  <2>1. published'[s].shoot \in 1..at' /\ published'[s].state \in 1..stateAt'
    <3>1. CASE published'[s] = published[s]
      BY <1>1, <1>2, <1>3, <1>4, <3>1
    <3>2. CASE /\ Wrote(s) /\ published'[s].shoot = readAt[s].shoot
               /\ published'[s].state = readAt[s].state
      <4>1. ReadInOrder(s)
        BY <1>4, <3>2 DEF Wrote, Faithful
      <4>2. /\ readAt[s].shoot \in published[s].shoot..at
            /\ readAt[s].state \in published[s].state..stateAt
        BY <4>1 DEF ReadInOrder, at, stateAt
      <4>3. QED
        BY <1>1, <1>2, <1>3, <1>4, <3>2, <4>2
    <3>3. QED
      BY <1>5, <3>1, <3>2
  <2>2. QED
    BY <1>1, <1>2, <2>1 DEF Followed, at, stateAt
<1>7. CASE pc'[s] \in {"none", "getShoot"}
    BY <1>6, <1>7 DEF Faithful, Reading, Rendering
<1>8. ASSUME pc'[s] \notin {"none", "getShoot"}
      PROVE  published'[s] = published[s]
    BY <1>5, <1>8 DEF Wrote
<1>9. ASSUME ReadInOrder(s)
      PROVE  /\ readAt[s].shoot \in published[s].shoot..at
             /\ readAt[s].state \in published[s].state..stateAt
             /\ shootHistory'[s][readAt[s].shoot] = ReadShoot(s)
             /\ stateHistory'[s][readAt[s].state] = ReadState(s)
  <2>1. /\ readAt[s].shoot \in published[s].shoot..at
        /\ readAt[s].state \in published[s].state..stateAt
    BY <1>9 DEF ReadInOrder, at, stateAt
  <2>2. readAt[s].shoot \in 1..Len(shootHistory[s]) /\ readAt[s].state \in 1..Len(stateHistory[s])
    BY <1>1, <1>2, <1>3, <1>4, <2>1
  <2>3. QED
    BY <1>1, <1>2, <2>1, <2>2 DEF ReadShoot, ReadState
<1>10. ASSUME published'[s] = published[s], ReadInOrder(s), readAt'[s] = readAt[s]
       PROVE  ReadInOrder(s)' /\ ReadShoot(s)' = ReadShoot(s) /\ ReadState(s)' = ReadState(s)
  <2>1. /\ readAt'[s].shoot \in published'[s].shoot..at'
        /\ readAt'[s].state \in published'[s].state..stateAt'
    BY <1>1, <1>2, <1>3, <1>4, <1>9, <1>10
  <2>2. QED
    BY <1>9, <1>10, <2>1 DEF ReadInOrder, ReadShoot, ReadState, at, stateAt
<1>11. CASE pc'[s] = pc[s] /\ local'[s] = local[s] /\ pc'[s] \notin {"none", "getShoot"}
  <2>1. readAt'[s] = readAt[s]
    BY <1>4, <1>11 DEF Reads, Leaves
  <2>2. ReadInOrder(s)
    BY <1>4, <1>11 DEF Faithful
  <2>3. QED
    BY <1>4, <1>6, <1>8, <1>10, <1>11, <2>1, <2>2 DEF Faithful
<1>12. CASE /\ handleRequest(s) /\ UNCHANGED <<shoots, shootStates>>
            /\ pc'[s] \notin {"none", "getShoot"}
  <2>1. published'[s] = published[s]
    BY <1>8, <1>12
  <2>2. /\ \/ local'[s].shoot = Absent /\ local'[s].desired = Absent
           \/ /\ pc[s] = "getShoot" /\ local'[s].shoot = cShoot(s)
           \/ /\ pc[s] \notin {"none", "getShoot", "getShootState"}
              /\ local'[s].shoot = local[s].shoot /\ local'[s].desired = local[s].desired
           \/ /\ pc[s] = "getShootState" /\ CanRender(local[s].shoot, cShootState(s))
              /\ local'[s].desired = Rendered(local[s].shoot, cShootState(s))
    BY <1>12, HandlerReads DEF TypeOK
  <2>3. /\ pc'[s] \in Reading => local'[s].shoot # Absent
        /\ pc'[s] \in Rendering => local'[s].desired # Absent
    BY DEF TypeOK, HandlerTypeOK, Reading, Rendering
  <2>4. \/ pc[s] = "getShoot" /\ cShoot(s) = Absent /\ pc'[s] = "delete"
        \/ pc[s] = "getShoot" /\ cShoot(s) # Absent /\ pc'[s] = "getConfigMap"
        \/ pc[s] \in {"getConfigMap", "listQuotas"} /\ pc'[s] \in {"listQuotas", "getShootState"}
        \/ pc[s] = "getShootState" /\ cShootState(s) = Absent /\ pc'[s] = "delete"
        \/ /\ pc[s] = "getShootState" /\ pc'[s] = "createOrUpdate"
        \/ pc[s] = "createOrUpdate" /\ pc'[s] \in {"create", "update"}
    BY <1>12, HandlerFlow DEF TypeOK
  <2>5. CASE pc[s] = "getShoot" /\ pc'[s] \in {"delete", "getConfigMap"}
    <3>1. readAt'[s] = [shoot |-> at, state |-> published[s].state]
      BY <1>4, <2>5 DEF Reads, Leaves, at
    <3>2. ReadInOrder(s)' /\ ReadShoot(s)' = cShoot(s)
      <4>1. readAt'[s].shoot = at /\ readAt'[s].state = published[s].state
        BY <3>1
      <4>2. /\ readAt'[s].shoot \in published'[s].shoot..at'
            /\ readAt'[s].state \in published'[s].state..stateAt'
        BY <1>1, <1>2, <1>3, <1>4, <2>1, <4>1
      <4>3. shootHistory'[s][at] = cShoot(s)
        BY <1>1 DEF at
      <4>4. QED
        BY <4>1, <4>2, <4>3 DEF ReadInOrder, ReadShoot, at, stateAt
    <3>3. CASE pc'[s] = "delete"
      BY <1>6, <2>4, <3>2, <3>3, <2>5 DEF Faithful, Reading, Rendering
    <3>4. CASE pc'[s] = "getConfigMap"
      <4>1. local'[s].shoot = cShoot(s)
        BY <2>2, <2>3, <2>5, <3>4 DEF Reading
      <4>2. QED
        BY <1>6, <3>2, <3>4, <4>1 DEF Faithful, Reading, Rendering
    <3>5. QED
      BY <2>5, <3>3, <3>4
  <2>6. CASE pc[s] \in {"getConfigMap", "listQuotas"} /\ pc'[s] \in {"listQuotas", "getShootState"}
    <3>1. readAt'[s] = readAt[s] /\ ReadInOrder(s) /\ local[s].shoot = ReadShoot(s)
      BY <1>4, <2>6 DEF Reads, Leaves, Faithful, Reading
    <3>2. local'[s].shoot = local[s].shoot
      BY <2>2, <2>3, <2>6 DEF Reading
    <3>3. QED
      BY <1>6, <1>10, <2>1, <2>6, <3>1, <3>2 DEF Faithful, Reading, Rendering
  <2>7. CASE pc[s] = "getShootState" /\ pc'[s] \in {"delete", "createOrUpdate"}
    <3>1. readAt'[s] = [readAt[s] EXCEPT !.state = stateAt] /\ ReadInOrder(s)
          /\ local[s].shoot = ReadShoot(s)
      BY <1>4, <2>7 DEF Reads, Leaves, Faithful, Reading, stateAt
    <3>2. readAt'[s].shoot = readAt[s].shoot /\ readAt'[s].state = stateAt
      BY <1>4, <3>1
    <3>3. ReadInOrder(s)' /\ ReadShoot(s)' = ReadShoot(s) /\ ReadState(s)' = cShootState(s)
      <4>1. /\ readAt'[s].shoot \in published'[s].shoot..at'
            /\ readAt'[s].state \in published'[s].state..stateAt'
        BY <1>1, <1>2, <1>3, <1>4, <1>9, <2>1, <3>1, <3>2
      <4>2. stateHistory'[s][stateAt] = cShootState(s)
        BY <1>2 DEF stateAt
      <4>3. QED
        BY <1>9, <3>1, <3>2, <4>1, <4>2 DEF ReadInOrder, ReadShoot, ReadState, at, stateAt
    <3>4. CASE pc'[s] = "delete"
      BY <1>6, <2>4, <2>7, <3>3, <3>4 DEF Faithful, Reading, Rendering
    <3>5. CASE pc'[s] = "createOrUpdate"
      <4>1. /\ CanRender(local[s].shoot, cShootState(s))
            /\ local'[s].desired = Rendered(local[s].shoot, cShootState(s))
        BY <2>2, <2>3, <2>7, <3>5 DEF Rendering
      <4>2. QED
        BY <1>6, <3>1, <3>3, <3>5, <4>1 DEF Faithful, Reading, Rendering
    <3>6. QED
      BY <2>7, <3>4, <3>5
  <2>8. CASE pc[s] = "createOrUpdate" /\ pc'[s] \in {"create", "update"}
    <3>1. /\ readAt'[s] = readAt[s] /\ ReadInOrder(s)
          /\ CanRender(ReadShoot(s), ReadState(s))
          /\ local[s].desired = Rendered(ReadShoot(s), ReadState(s))
      BY <1>4, <2>8 DEF Reads, Leaves, Faithful, Rendering
    <3>2. local'[s].desired = local[s].desired
      BY <2>2, <2>3, <2>8 DEF Rendering
    <3>3. QED
      BY <1>6, <1>10, <2>1, <2>8, <3>1, <3>2 DEF Faithful, Reading, Rendering
  <2>9. QED
    BY <2>4, <2>5, <2>6, <2>7, <2>8
<1>13. QED
    BY <1>6, <1>7, <1>11, <1>12, HandlingMoves

(* The invariant holds at first, and the promise begins. *)
LEMMA HistoryStarts ==
    ASSUME HistoryInit, TypeOK
    PROVE  HistoryTypeOK /\ HistoryInv /\ Promise!Init
<1>1. /\ shoots \in [Shoots -> Log(ShootVersions)]
      /\ shootStates \in [Shoots -> Log(StateVersions)]
    BY DEF TypeOK, CacheTypeOK, ShootVersions, StateVersions
<1>2. ASSUME NEW s \in Shoots
      PROVE  Len(shoots[s]) = 1 /\ Len(shootStates[s]) = 1 /\ pc[s] = "none"
    BY DEF HistoryInit, Init, ClusterInit
<1>3. HistoryTypeOK
    BY <1>1 DEF HistoryInit, HistoryTypeOK, ConfigMapVersions
<1>4. ASSUME NEW s \in Shoots
      PROVE  Followed(s) /\ Faithful(s)
  <2>1. EndOf(shootHistory[s], shoots[s]) /\ EndOf(stateHistory[s], shootStates[s])
    BY <1>1, EndIsReflexive DEF HistoryInit
  <2>2. /\ Position(shootHistory[s], shoots[s]) = 1
        /\ Position(stateHistory[s], shootStates[s]) = 1
    BY <1>2 DEF Position, HistoryInit
  <2>3. published[s].shoot = 1 /\ published[s].state = 1
    BY DEF HistoryInit
  <2>4. Followed(s)
    BY <2>1, <2>2, <2>3 DEF Followed
  <2>5. Faithful(s)
    BY <1>2 DEF Faithful, Reading, Rendering
  <2>6. QED
    BY <2>4, <2>5
<1>5. Promise!Init
    BY <1>2 DEF Promise!Init, HistoryInit
<1>6. QED
    BY <1>3, <1>4, <1>5 DEF HistoryInv

(***************************************************************************)
(* Where no log grows, no history does, and without a write nothing is     *)
(* published.                                                              *)
(***************************************************************************)
LEMMA NothingIsRecorded ==
    ASSUME HistoryTypeOK, Remember
    PROVE  /\ (\A s \in Shoots : ~Longer(shoots, s)) => UNCHANGED shootHistory
           /\ (\A s \in Shoots : ~Longer(shootStates, s)) => UNCHANGED stateHistory
           /\ (\A s \in Shoots : ~Wrote(s)) => UNCHANGED published
BY DEF HistoryTypeOK, Remember, Recorded

(* A log that is unchanged is no longer than it was. *)
LEMMA UnchangedIsNotLonger ==
    ASSUME TypeOK, NEW s \in Shoots
    PROVE  /\ shoots'[s] = shoots[s] => ~Longer(shoots, s)
           /\ shootStates'[s] = shootStates[s] => ~Longer(shootStates, s)
           /\ configMaps'[s] = configMaps[s] => ~Longer(configMaps, s)
<1>1. /\ Len(shoots[s]) \in Nat /\ Len(shootStates[s]) \in Nat /\ Len(configMaps[s]) \in Nat
    BY LogIsNonempty DEF TypeOK, CacheTypeOK
<1>2. QED
    BY <1>1 DEF Longer

(***************************************************************************)
(* Every step is a step of the promise or none: a version more, a          *)
(* kubeconfig published or withdrawn.                                      *)
(***************************************************************************)
LEMMA PromiseStep ==
    ASSUME TypeOK, HistoryTypeOK, HistoryInv, Next, Remember
    PROVE  Promise!Next \/ UNCHANGED <<shootHistory, stateHistory, published>>
<1>0. CacheTypeOK /\ LoopTypeOK /\ HandlerTypeOK
    BY DEF TypeOK
<1>1. ASSUME \A s \in Shoots : UNCHANGED <<shoots[s], shootStates[s]>>,
             \A s \in Shoots : ~Wrote(s)
      PROVE  UNCHANGED <<shootHistory, stateHistory, published>>
    BY <1>1, NothingIsRecorded, UnchangedIsNotLonger
<1>2. CASE World(Environment) \/ World(Housekeeping)
  <2>1. EnvironmentEffect
    BY <1>0, <1>2, EnvironmentStep
  <2>2. \A s \in Shoots : ~Wrote(s)
    BY <1>2 DEF World, handler, Wrote
  <2>3. ASSUME NEW s \in Shoots, NEW v \in ShootVersions, ShootChanges(s, v)
        PROVE  Promise!Next
    <3>1. shoots' = Write(shoots, s, v) /\ UNCHANGED shootStates
      BY <2>3 DEF ShootChanges, WriteShoot
    <3>2. shoots \in [Shoots -> Log(ShootVersions)]
      BY <1>0 DEF CacheTypeOK, ShootVersions
    <3>3. UNCHANGED <<stateHistory, published>>
      BY <2>2, <3>1, NothingIsRecorded, UnchangedIsNotLonger
    <3>4. /\ shootHistory'[s] = Append(shootHistory[s], v)
          /\ \A t \in Shoots \ {s} : shootHistory'[t] = shootHistory[t]
      <4>1. \A t \in Shoots \ {s} : ~Longer(shoots, t)
        BY <3>1, <3>2, LogsAreWritten, UnchangedIsNotLonger
      <4>2. Longer(shoots, s) /\ Stored(shoots'[s]) = v
        <5>1. shoots'[s] = Append(shoots[s], v) /\ shoots[s] \in Log(ShootVersions)
          BY <3>1, <3>2, LogsAreWritten
        <5>2. Len(shoots[s]) \in Nat
          BY <5>1, LogIsNonempty
        <5>3. Len(shoots'[s]) = Len(shoots[s]) + 1 /\ Stored(shoots'[s]) = v
          BY <5>1, LogGrows
        <5>4. QED
          BY <5>2, <5>3 DEF Longer
      <4>3. QED
        BY <4>1, <4>2 DEF Remember, Recorded
    <3>5. /\ shootHistory \in [Shoots -> Log(ShootVersions)]
          /\ shootHistory' = [t \in Shoots |-> shootHistory'[t]]
          /\ Append(shootHistory[s], v)[Len(Append(shootHistory[s], v))] = v
      BY LogGrows DEF HistoryTypeOK, Remember, Recorded, Stored
    <3>6. Promise!Grows(shootHistory, shootHistory', s)
      BY <3>4, <3>5 DEF Promise!Grows
    <3>7. QED
      BY <3>3, <3>6 DEF Promise!Next, Promise!Evolve
  <2>4. ASSUME NEW s \in Shoots, NEW v \in StateVersions, StateChanges(s, v)
        PROVE  Promise!Next
    <3>1. shootStates' = Write(shootStates, s, v) /\ UNCHANGED shoots
      BY <2>4 DEF StateChanges, WriteShootState
    <3>2. shootStates \in [Shoots -> Log(StateVersions)]
      BY <1>0 DEF CacheTypeOK, StateVersions
    <3>3. UNCHANGED <<shootHistory, published>>
      BY <2>2, <3>1, NothingIsRecorded, UnchangedIsNotLonger
    <3>4. /\ stateHistory'[s] = Append(stateHistory[s], v)
          /\ \A t \in Shoots \ {s} : stateHistory'[t] = stateHistory[t]
      <4>1. \A t \in Shoots \ {s} : ~Longer(shootStates, t)
        BY <3>1, <3>2, LogsAreWritten, UnchangedIsNotLonger
      <4>2. Longer(shootStates, s) /\ Stored(shootStates'[s]) = v
        <5>1. shootStates'[s] = Append(shootStates[s], v) /\ shootStates[s] \in Log(StateVersions)
          BY <3>1, <3>2, LogsAreWritten
        <5>2. Len(shootStates[s]) \in Nat
          BY <5>1, LogIsNonempty
        <5>3. Len(shootStates'[s]) = Len(shootStates[s]) + 1 /\ Stored(shootStates'[s]) = v
          BY <5>1, LogGrows
        <5>4. QED
          BY <5>2, <5>3 DEF Longer
      <4>3. QED
        BY <4>1, <4>2 DEF Remember, Recorded
    <3>5. /\ stateHistory \in [Shoots -> Log(StateVersions)]
          /\ stateHistory' = [t \in Shoots |-> stateHistory'[t]]
          /\ Append(stateHistory[s], v)[Len(Append(stateHistory[s], v))] = v
      BY LogGrows DEF HistoryTypeOK, Remember, Recorded, Stored
    <3>6. Promise!Grows(stateHistory, stateHistory', s)
      BY <3>4, <3>5 DEF Promise!Grows
    <3>7. QED
      BY <3>3, <3>6 DEF Promise!Next, Promise!Evolve
  <2>5. QED
    BY <1>1, <2>1, <2>2, <2>3, <2>4 DEF EnvironmentEffect, ConfigMapChanges, QuotaChanges
<1>3. ASSUME NEW s \in Shoots, handleRequest(s) \/ CallFails(s)
      PROVE  Promise!Next \/ UNCHANGED <<shootHistory, stateHistory, published>>
  <2>1. /\ UNCHANGED <<shoots, shootStates>>
        /\ \/ configMaps' = configMaps
           \/ /\ pc[s] \in {"create", "update"}
              /\ configMaps' = Write(configMaps, s, local[s].desired)
           \/ pc[s] = "delete" /\ configMaps' = Write(configMaps, s, Absent)
    BY <1>0, <1>3, HandlerWrites
  <2>2. UNCHANGED <<shootHistory, stateHistory>>
    BY <2>1, NothingIsRecorded, UnchangedIsNotLonger
  <2>3. ASSUME NEW v \in ConfigMapVersions, configMaps' = Write(configMaps, s, v), Wrote(s)
        PROVE  /\ Stored(configMaps'[s]) = v
               /\ published' = [published EXCEPT ![s] =
                        [shoot |-> readAt[s].shoot, state |-> readAt[s].state, value |-> v]]
    <3>1. configMaps \in [Shoots -> Log(ConfigMapVersions)]
      BY <1>0 DEF CacheTypeOK, ConfigMapVersions
    <3>2. Stored(configMaps'[s]) = v
      <4>1. configMaps[s] \in Log(ConfigMapVersions) /\ configMaps'[s] = Append(configMaps[s], v)
        BY <2>3, <3>1, LogsAreWritten
      <4>2. QED
        BY <4>1, LogGrows
    <3>3. \A t \in Shoots \ {s} : ~Wrote(t)
      BY <2>3, <3>1, LogsAreWritten, UnchangedIsNotLonger DEF Wrote
    <3>4. QED
      BY <2>3, <3>2, <3>3 DEF Remember, HistoryTypeOK
  <2>4. /\ Followed(s) /\ Faithful(s)
        /\ readAt[s].shoot \in Nat /\ readAt[s].state \in Nat
        /\ published[s].shoot \in Nat /\ published[s].state \in Nat
    BY DEF HistoryInv, HistoryTypeOK
  <2>5. ASSUME Wrote(s)
        PROVE  /\ readAt[s].shoot \in published[s].shoot .. Len(shootHistory[s])
               /\ readAt[s].state \in published[s].state .. Len(stateHistory[s])
    <3>1. ReadInOrder(s)
      BY <2>4, <2>5 DEF Wrote, Faithful
    <3>2. /\ Position(shootHistory[s], shoots[s]) \in Nat
          /\ Position(shootHistory[s], shoots[s]) <= Len(shootHistory[s])
          /\ Len(shootHistory[s]) \in Nat
      <4>1. Len(shoots[s]) \in Nat \ {0} /\ Len(shootHistory[s]) \in Nat
        BY <1>0, LogIsNonempty DEF CacheTypeOK, HistoryTypeOK
      <4>2. QED
        BY <2>4, <4>1 DEF Position, Followed, EndOf
    <3>3. /\ Position(stateHistory[s], shootStates[s]) \in Nat
          /\ Position(stateHistory[s], shootStates[s]) <= Len(stateHistory[s])
          /\ Len(stateHistory[s]) \in Nat
      <4>1. Len(shootStates[s]) \in Nat \ {0} /\ Len(stateHistory[s]) \in Nat
        BY <1>0, LogIsNonempty DEF CacheTypeOK, HistoryTypeOK
      <4>2. QED
        BY <2>4, <4>1 DEF Position, Followed, EndOf
    <3>4. QED
      BY <2>4, <3>1, <3>2, <3>3 DEF ReadInOrder
  <2>6. \A t \in Shoots \ {s} : ~Wrote(t)
    <3>1. configMaps \in [Shoots -> Log(ConfigMapVersions)]
      BY <1>0 DEF CacheTypeOK, ConfigMapVersions
    <3>2. local[s].desired \in ConfigMapVersions /\ Absent \in ConfigMapVersions
      BY <1>0 DEF HandlerTypeOK, ConfigMapVersions
    <3>3. QED
      BY <2>1, <3>1, <3>2, LogsAreWritten, UnchangedIsNotLonger DEF Wrote
  <2>7. CASE Wrote(s) /\ pc[s] \in {"create", "update"}
                     /\ configMaps' = Write(configMaps, s, local[s].desired)
    <3>1. local[s].desired \in ConfigMapVersions
      BY <1>0 DEF HandlerTypeOK, ConfigMapVersions
    <3>2. published' = [published EXCEPT ![s] =
                 [shoot |-> readAt[s].shoot, state |-> readAt[s].state,
                  value |-> local[s].desired]]
      BY <2>3, <2>7, <3>1
    <3>3. /\ CanRender(ReadShoot(s), ReadState(s))
          /\ local[s].desired = Rendered(ReadShoot(s), ReadState(s))
      BY <2>4, <2>7 DEF Faithful, Rendering
    <3>4. Promise!Publish(s, readAt[s].shoot, readAt[s].state)
      BY <2>2, <3>2, <3>3 DEF Promise!Publish, Promise!Writes, Promise!ShootVersion,
                              Promise!StateVersion, ReadShoot, ReadState
    <3>5. QED
      BY <2>5, <2>7, <3>4 DEF Promise!Next
  <2>8. CASE Wrote(s) /\ pc[s] = "delete" /\ configMaps' = Write(configMaps, s, Absent)
    <3>1. published' = [published EXCEPT ![s] =
                 [shoot |-> readAt[s].shoot, state |-> readAt[s].state, value |-> Absent]]
      BY <2>3, <2>8 DEF ConfigMapVersions
    <3>2. ReadShoot(s) = Absent \/ ReadState(s) = Absent
      BY <2>4, <2>8 DEF Faithful
    <3>3. Promise!Withdraw(s, readAt[s].shoot, readAt[s].state)
      BY <2>2, <3>1, <3>2 DEF Promise!Withdraw, Promise!Writes, Promise!ShootVersion,
                              Promise!StateVersion, ReadShoot, ReadState
    <3>4. QED
      BY <2>5, <2>8, <3>3 DEF Promise!Next
  <2>9. CASE ~Wrote(s)
    BY <2>2, <2>6, <2>9, NothingIsRecorded
  <2>10. QED
    BY <2>1, <2>7, <2>8, <2>9, UnchangedIsNotLonger DEF Wrote
<1>4. CASE Deliver \/ ProcessRestarts
  <2>1. ASSUME NEW s \in Shoots
        PROVE  ~Longer(shoots, s) /\ ~Longer(shootStates, s) /\ ~Wrote(s)
    <3>1. /\ Len(shoots[s]) \in Nat \ {0} /\ Len(shootStates[s]) \in Nat \ {0}
          /\ Len(configMaps[s]) \in Nat \ {0}
      BY <1>0, LogIsNonempty DEF CacheTypeOK
    <3>2. CASE ProcessRestarts
      BY <3>1, <3>2 DEF ProcessRestarts, Longer, Wrote
    <3>3. CASE Deliver
      <4>1. ~Wrote(s)
        BY <3>3, NotifyKeepsHandler DEF handler, Wrote
      <4>2. ASSUME NEW t \in Shoots, NEW S, NEW logs \in [Shoots -> Log(S)],
                   Behind(logs[t]), NEW rest, Advance(logs[t], rest), s = t
            PROVE  ~(Len(rest) > Len(logs[s]))
        <5>1. EndOf(logs[t], rest) /\ rest \in Log(S) /\ logs[t] \in Log(S)
          BY <4>2, DeliveryIsAnEnd
        <5>2. Len(rest) \in Nat /\ Len(logs[t]) \in Nat
          BY <5>1, LogIsNonempty
        <5>3. QED
          BY <4>2, <5>1, <5>2 DEF EndOf
      <4>3. ASSUME NEW t \in Shoots, DeliverShoot(t)
            PROVE  ~Longer(shoots, s)
        <5>1. PICK rest : Advance(shoots[t], rest) /\ shoots' = [shoots EXCEPT ![t] = rest]
          BY <4>3 DEF DeliverShoot
        <5>2. shoots \in [Shoots -> Log(ShootVersions)] /\ Behind(shoots[t])
          BY <1>0, <4>3 DEF CacheTypeOK, ShootVersions, DeliverShoot
        <5>3. CASE s = t
          <6>1. ~(Len(rest) > Len(shoots[s]))
            BY <4>2, <5>1, <5>2, <5>3
          <6>2. QED
            BY <5>1, <5>2, <5>3, <6>1 DEF Longer
        <5>4. CASE s # t
          BY <5>1, <5>2, <5>4, UnchangedIsNotLonger
        <5>5. QED
          BY <5>3, <5>4
      <4>4. ASSUME NEW t \in Shoots, DeliverShootState(t)
            PROVE  ~Longer(shootStates, s)
        <5>1. PICK rest : /\ Advance(shootStates[t], rest)
                          /\ shootStates' = [shootStates EXCEPT ![t] = rest]
          BY <4>4 DEF DeliverShootState
        <5>2. shootStates \in [Shoots -> Log(StateVersions)] /\ Behind(shootStates[t])
          BY <1>0, <4>4 DEF CacheTypeOK, StateVersions, DeliverShootState
        <5>3. CASE s = t
          <6>1. ~(Len(rest) > Len(shootStates[s]))
            BY <4>2, <5>1, <5>2, <5>3
          <6>2. QED
            BY <5>1, <5>2, <5>3, <6>1 DEF Longer
        <5>4. CASE s # t
          BY <5>1, <5>2, <5>4, UnchangedIsNotLonger
        <5>5. QED
          BY <5>3, <5>4
      <4>5. /\ shoots' = shoots \/ \E t \in Shoots : DeliverShoot(t)
            /\ shootStates' = shootStates \/ \E t \in Shoots : DeliverShootState(t)
        BY <3>3 DEF Deliver, DeliverShoot, DeliverShootState, DeliverConfigMap, DeliverQuota,
                    LoseQuotaEvent, DeliverMetadata, clusterVars, objects
      <4>6. QED
        BY <4>1, <4>3, <4>4, <4>5, UnchangedIsNotLonger
    <3>4. QED
      BY <1>4, <3>2, <3>3
  <2>2. QED
    BY <2>1, NothingIsRecorded
<1>5. ASSUME NEW s \in Shoots,
             Start(s) \/ Finish(s) \/ Outside(Take(s)) \/ Outside(TimerFires(s))
      PROVE  UNCHANGED <<shootHistory, stateHistory, published>>
  <2>1. UNCHANGED <<shoots, shootStates, configMaps>>
    BY <1>5 DEF Start, Finish, Outside, clusterVars, objects
  <2>2. QED
    BY <2>1, NothingIsRecorded, UnchangedIsNotLonger DEF Wrote
<1>6. QED
    BY <1>2, <1>3, <1>4, <1>5 DEF Next

(***************************************************************************)
(* The memory takes no part in the controller's steps, and its invariant   *)
(* holds: every kubeconfig on its way to the API server is that of         *)
(* versions read after those of the write before.                          *)
(***************************************************************************)
THEOREM HistoryIsKept == HistorySpec => Spec /\ [](HistoryTypeOK /\ HistoryInv)
<1>1. HistorySpec => Spec
  <2>1. HistoryInit => Init
    BY DEF HistoryInit
  <2>2. [Next /\ Remember]_<<vars, historyVars>> => [Next]_vars
    OBVIOUS
  <2>3. QED
    BY <2>1, <2>2, PTL DEF HistorySpec, Spec
<1>2. HistoryInit /\ TypeOK => HistoryTypeOK /\ HistoryInv
    BY HistoryStarts
<1>3. /\ TypeOK /\ TypeOK' /\ [Next /\ Remember]_<<vars, historyVars>>
      /\ HistoryTypeOK /\ HistoryInv
      => HistoryTypeOK' /\ HistoryInv'
  <2>1. SUFFICES ASSUME TypeOK, TypeOK', [Next /\ Remember]_<<vars, historyVars>>,
                        HistoryTypeOK, HistoryInv
                 PROVE  HistoryTypeOK' /\ HistoryInv'
    OBVIOUS
  <2>2. CASE Next /\ Remember
    BY <2>1, <2>2, HistoryTypeStep, HistoryStep
  <2>3. CASE UNCHANGED <<vars, historyVars>>
    BY <2>1, <2>3 DEF vars, clusterVars, objects, handler, historyVars, HistoryTypeOK,
       HistoryInv, Followed, Faithful, ReadInOrder, ReadShoot, ReadState
  <2>4. QED
    BY <2>1, <2>2, <2>3
<1>4. QED
    BY <1>1, <1>2, <1>3, ControllerIsTyped, PTL DEF HistorySpec

(***************************************************************************)
(* The controller keeps the promise to users and gardener, for any shoots  *)
(* and any scenario, with caches behind, calls that fail, answers that get *)
(* lost and restarts at any moment.                                        *)
(***************************************************************************)
THEOREM PromiseIsKept == HistorySpec => KeepsPromise
<1>1. HistoryInit /\ TypeOK => Promise!Init
    BY HistoryStarts
<1>2. /\ TypeOK /\ HistoryTypeOK /\ HistoryInv
      /\ [Next /\ Remember]_<<vars, historyVars>>
      => [Promise!Next]_<<shootHistory, stateHistory, published>>
    BY PromiseStep DEF historyVars
<1>3. QED
    BY <1>1, <1>2, HistoryIsKept, ControllerIsTyped, PTL
       DEF HistorySpec, KeepsPromise, Promise!Spec
=============================================================================
