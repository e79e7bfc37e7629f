------------------------- MODULE SensorNotifyProofs -------------------------
(***************************************************************************)
(* Proofs about SensorNotify, for every set of sensors and every value of  *)
(* the backoff and hysteresis constants; that it implements the contract   *)
(* with the operator; and what the contract itself is worth.               *)
(***************************************************************************)
EXTENDS SensorNotify, TLAPS

LEMMA ConstantTypes ==
  ExitPolls \in Nat /\ NotifyBackoffAfter \in Nat /\ NotifyRetryEvery \in Nat \ {0}
BY ConstantsOK

(* One more, but no more than the cap.                                     *)
LEMMA AtMostNext ==
  ASSUME NEW m \in Nat, NEW n \in 0..m
  PROVE  AtMost(n + 1, m) \in 0..m
BY DEF AtMost

(* What the engine may return, and when it may return "healthy".           *)
LEMMA EvaluateType ==
  ASSUME TypeOK, NEW s \in Sensors
  PROVE  Evaluate(s) \in [prev : States, streak : 0..ExitPolls]
<1>1. ASSUME NEW p \in States \cup {Unset}, NEW k \in 0..ExitPolls, NEW v \in Verdicts
      PROVE  Decide(p, k, v) \in [prev : States, streak : 0..ExitPolls]
  <2>1. AtMost(k + 1, ExitPolls) \in 0..ExitPolls
    BY AtMostNext, ConstantTypes
  <2>2. p \in States \/ p = Unset
    OBVIOUS
  <2>3. CASE v = "crit"
    BY <2>3, ConstantTypes DEF Decide, States
  <2>4. CASE v = "warn"
    BY <2>4, ConstantTypes DEF Decide, States
  <2>5. CASE v = "clear"
    BY <2>1, <2>2, <2>5 DEF Decide, States
  <2> QED
    BY <2>3, <2>4, <2>5 DEF Verdicts
<1>2. CASE s \in CapacitySensors
  BY <1>1, <1>2 DEF Evaluate, TypeOK
<1>3. CASE s \notin CapacitySensors
  <2>1. 0 \in 0..ExitPolls /\ level[s] \in Verdicts
    BY ConstantTypes DEF TypeOK
  <2>2. Decide(Unset, 0, level[s]) \in [prev : States, streak : 0..ExitPolls]
    BY <1>1, <2>1
  <2> QED
    BY <1>3, <2>2 DEF Evaluate
<1> QED
  BY <1>2, <1>3

LEMMA RetryType ==
  ASSUME TypeOK, NEW s \in Sensors
  PROVE  LET R == [Sensors -> [fails : 0..NotifyBackoffAfter,
                               sinceFail : 0..(NotifyRetryEvery - 1)]]
         IN  AfterAllow(s) \in R /\ MarkSuccess(s) \in R /\ MarkFailure(s) \in R
<1> USE ConstantTypes
<1> DEFINE R == [fails : 0..NotifyBackoffAfter, sinceFail : 0..(NotifyRetryEvery - 1)]
<1>1. retry \in [Sensors -> R] /\ retry[s] \in R
  BY DEF TypeOK
<1>2. AfterAllow(s) \in [Sensors -> R]
  BY <1>1 DEF AfterAllow, InBackoff, RetryRound
<1>3. MarkSuccess(s) \in [Sensors -> R]
  BY <1>1 DEF MarkSuccess, NoRetry
<1>4. AtMost(retry[s].fails + 1, NotifyBackoffAfter) \in 0..NotifyBackoffAfter
  BY <1>1, AtMostNext, ConstantTypes
<1>5. MarkFailure(s) \in [Sensors -> R]
  BY <1>1, <1>4 DEF MarkFailure
<1> QED
  BY <1>2, <1>3, <1>5

-----------------------------------------------------------------------------
LEMMA InitialRecords ==
  /\ Fresh \in [prev : States, streak : 0..ExitPolls]
  /\ NoRetry \in [fails : 0..NotifyBackoffAfter, sinceFail : 0..(NotifyRetryEvery - 1)]
<1>1. 0 \in 0..ExitPolls /\ 0 \in 0..NotifyBackoffAfter /\ 0 \in 0..(NotifyRetryEvery - 1)
  BY ConstantTypes
<1> QED
  BY <1>1 DEF Fresh, NoRetry, States

LEMMA InitTypeOK == Init => TypeOK
<1> SUFFICES ASSUME Init PROVE TypeOK
  OBVIOUS
<1>1. "healthy" \in States /\ "wait" \in Labels /\ 0 \in 0..ExitPolls
  BY ConstantTypes DEF States, Labels
<1>2. Unset \in States \cup {Unset}
  OBVIOUS
<1> QED
  BY <1>1, <1>2, InitialRecords DEF Init, TypeOK

LEMMA NextTypeOK == TypeOK /\ [Next]_vars => TypeOK'
<1> SUFFICES ASSUME TypeOK, [Next]_vars PROVE TypeOK'
  OBVIOUS
<1> USE ConstantTypes
<1> USE DEF TypeOK, world, engine, local, gate, channel
<1>1. CASE StartRound
  BY <1>1 DEF StartRound, Labels
<1>2. CASE EndRound
  BY <1>2 DEF EndRound, Labels
<1>3. ASSUME NEW s \in Sensors, PollOK(s) PROVE TypeOK'
  <2>1. Evaluate(s) \in [prev : States, streak : 0..ExitPolls]
    BY EvaluateType
  <2>2. AtMost(clear[s] + 1, ExitPolls) \in 0..ExitPolls
    BY AtMostNext, ConstantTypes
  <2> QED
    BY <1>3, <2>1, <2>2 DEF PollOK, Labels
<1>4. ASSUME NEW s \in Sensors, PollFailed(s) PROVE TypeOK'
  BY <1>4 DEF PollFailed
<1>5. ASSUME NEW firing \in BOOLEAN, Coordinate(firing) PROVE TypeOK'
  <2>1. /\ retry' \in [Sensors -> [fails : 0..NotifyBackoffAfter,
                                   sinceFail : 0..(NotifyRetryEvery - 1)]]
    BY <1>5, RetryType DEF Coordinate
  <2>2. pc' \in Labels
    BY <1>5 DEF Coordinate, Labels
  <2> QED
    BY <1>5, <2>1, <2>2 DEF Coordinate
<1>6. CASE PublishOK
  BY <1>6 DEF PublishOK, GateReceives, Labels
<1>7. ASSUME NEW delivered \in BOOLEAN, PublishError(delivered) PROVE TypeOK'
  BY <1>7 DEF PublishError, GateReceives, Labels
<1>8. CASE NoteThenCommit
  BY <1>8 DEF NoteThenCommit, Commit, Labels
<1>9. CASE SendOK
  BY <1>9, RetryType DEF SendOK, Commit, Labels
<1>10. ASSUME NEW delivered \in BOOLEAN, SendError(delivered) PROVE TypeOK'
  BY <1>10, RetryType DEF SendError, Labels
<1>11. CASE SaveOK
  BY <1>11 DEF SaveOK, Labels
<1>12. CASE SaveError
  BY <1>12 DEF SaveError, Labels
<1>13. CASE Reload
  BY <1>13, InitialRecords DEF Reload
<1>14. CASE Restart
  BY <1>14, InitialRecords DEF Restart, States, Labels
<1>15. ASSUME NEW s \in Sensors, MetricMoves(s) PROVE TypeOK'
  BY <1>15 DEF MetricMoves
<1>16. ASSUME NEW s \in Sensors, AlertManagerMoves(s) PROVE TypeOK'
  BY <1>16 DEF AlertManagerMoves
<1>17. CASE UNCHANGED vars
  BY <1>17 DEF vars
<1> QED
  BY <1>1, <1>2, <1>3, <1>4, <1>5, <1>6, <1>7, <1>8, <1>9, <1>10, <1>11, <1>12,
     <1>13, <1>14, <1>15, <1>16, <1>17 DEF Next, Round, Around

(* Every variable stays in its range: in particular a backoff counter      *)
(* never reaches notifyRetryEvery.                                         *)
THEOREM TypeCorrect == Spec => []TypeOK
BY InitTypeOK, NextTypeOK, PTL DEF Spec

-----------------------------------------------------------------------------
(* The inductive step, one lemma for each part of IInv.                    *)

LEMMA NextStepInv ==
  ASSUME TypeOK, StepInv, [Next]_vars
  PROVE  StepInv'
<1> USE DEF StepInv, Peek, Known, GateApplies, world, engine, local, gate, channel
<1>1. CASE StartRound
  BY <1>1 DEF StartRound
<1>2. CASE EndRound
  BY <1>2 DEF EndRound
<1>3. ASSUME NEW s \in Sensors, PollOK(s) PROVE StepInv'
  BY <1>3 DEF PollOK
<1>4. ASSUME NEW s \in Sensors, PollFailed(s) PROVE StepInv'
  BY <1>4 DEF PollFailed
<1>5. ASSUME NEW firing \in BOOLEAN, Coordinate(firing) PROVE StepInv'
  BY <1>5 DEF Coordinate
<1>6. CASE PublishOK
  BY <1>6 DEF PublishOK, GateReceives, TypeOK
<1>7. ASSUME NEW delivered \in BOOLEAN, PublishError(delivered) PROVE StepInv'
  BY <1>7 DEF PublishError, GateReceives
<1>8. CASE NoteThenCommit
  BY <1>8 DEF NoteThenCommit
<1>9. CASE SendOK
  BY <1>9 DEF SendOK
<1>10. ASSUME NEW delivered \in BOOLEAN, SendError(delivered) PROVE StepInv'
  BY <1>10 DEF SendError
<1>11. CASE SaveOK \/ SaveError
  BY <1>11 DEF SaveOK, SaveError
<1>12. CASE Reload
  BY <1>12 DEF Reload
<1>13. CASE Restart
  BY <1>13 DEF Restart
<1>14. ASSUME NEW s \in Sensors, MetricMoves(s) \/ AlertManagerMoves(s) PROVE StepInv'
  BY <1>14 DEF MetricMoves, AlertManagerMoves
<1>15. CASE UNCHANGED vars
  BY <1>15 DEF vars
<1> QED
  BY <1>1, <1>2, <1>3, <1>4, <1>5, <1>6, <1>7, <1>8, <1>9, <1>10, <1>11, <1>12,
     <1>13, <1>14, <1>15 DEF Next, Round, Around

LEMMA NextInSync ==
  ASSUME TypeOK, StepInv, InSync, [Next]_vars
  PROVE  InSync'
<1> USE DEF InSync, Known, world, engine, local, gate, channel
<1>1. CASE UNCHANGED <<told, inDoubt, lastState>>
  BY <1>1
<1>2. CASE PublishOK
  BY <1>2 DEF PublishOK, GateReceives, TypeOK
<1>3. ASSUME NEW delivered \in BOOLEAN, PublishError(delivered) PROVE InSync'
  BY <1>3 DEF PublishError, GateReceives, TypeOK
<1>4. CASE NoteThenCommit
  BY <1>4 DEF NoteThenCommit, Commit, StepInv, TypeOK, States, Unset
<1>5. CASE SendOK
  BY <1>5 DEF SendOK, Commit, TypeOK, States, Unset
<1>6. ASSUME NEW delivered \in BOOLEAN, SendError(delivered) PROVE InSync'
  BY <1>6 DEF SendError, TypeOK
<1>7. CASE Restart
  BY <1>7 DEF Restart
<1>8. CASE StartRound \/ EndRound \/ SaveOK \/ SaveError \/ Reload
  BY <1>8, <1>1 DEF StartRound, EndRound, SaveOK, SaveError, Reload
<1>9. ASSUME NEW s \in Sensors,
             \/ PollOK(s) \/ PollFailed(s) \/ MetricMoves(s) \/ AlertManagerMoves(s)
      PROVE InSync'
  BY <1>9, <1>1 DEF PollOK, PollFailed, MetricMoves, AlertManagerMoves
<1>10. ASSUME NEW firing \in BOOLEAN, Coordinate(firing) PROVE InSync'
  BY <1>10, <1>1 DEF Coordinate
<1>11. CASE UNCHANGED vars
  BY <1>11, <1>1 DEF vars
<1> QED
  BY <1>2, <1>3, <1>4, <1>5, <1>6, <1>7, <1>8, <1>9, <1>10, <1>11
     DEF Next, Round, Around

LEMMA NextGateInSync ==
  ASSUME TypeOK, GateInSync, [Next]_vars
  PROVE  GateInSync'
<1> USE DEF GateInSync, world, engine, local, gate, channel
<1>1. CASE UNCHANGED <<incident, publishedFiring, gateDoubt>>
  BY <1>1
<1>2. CASE PublishOK
  BY <1>2 DEF PublishOK, GateReceives
<1>3. ASSUME NEW delivered \in BOOLEAN, PublishError(delivered) PROVE GateInSync'
  BY <1>3 DEF PublishError, GateReceives
<1>4. CASE Restart
  BY <1>4 DEF Restart
<1>5. CASE \/ StartRound \/ EndRound \/ NoteThenCommit \/ SendOK \/ SaveOK
           \/ SaveError \/ Reload
  BY <1>5, <1>1 DEF StartRound, EndRound, NoteThenCommit, SendOK, SaveOK, SaveError,
                    Reload
<1>6. ASSUME NEW s \in Sensors,
             \/ PollOK(s) \/ PollFailed(s) \/ MetricMoves(s) \/ AlertManagerMoves(s)
      PROVE GateInSync'
  BY <1>6, <1>1 DEF PollOK, PollFailed, MetricMoves, AlertManagerMoves
<1>7. ASSUME NEW b \in BOOLEAN, Coordinate(b) \/ SendError(b) PROVE GateInSync'
  BY <1>7, <1>1 DEF Coordinate, SendError
<1>8. CASE UNCHANGED vars
  BY <1>8, <1>1 DEF vars
<1> QED
  BY <1>2, <1>3, <1>4, <1>5, <1>6, <1>7, <1>8 DEF Next, Round, Around

(* The engine keeps its own count no higher than the true one, so leaving  *)
(* a breach is always confirmed; the two counts are saturated alike.       *)
LEMMA DecideConfirms ==
  ASSUME NEW p \in States, NEW k \in 0..ExitPolls, NEW v \in Verdicts,
         NEW n \in 0..ExitPolls, k <= n
  PROVE  LET out == Decide(p, k, v)
             m   == IF v = "clear" THEN AtMost(n + 1, ExitPolls) ELSE 0
         IN  /\ out.streak <= m
             /\ out.prev = "healthy" =>
                  v = "clear" /\ (m >= ExitPolls \/ p = "healthy")
<1> USE ConstantTypes
<1>1. CASE v = "crit"
  BY <1>1 DEF Decide
<1>2. CASE v = "warn"
  BY <1>2 DEF Decide
<1>3. CASE v = "clear"
  <2>1. Unset \notin States
    BY DEF States, Unset
  <2>2. AtMost(k + 1, ExitPolls) <= AtMost(n + 1, ExitPolls)
    BY DEF AtMost
  <2>3. AtMost(k + 1, ExitPolls) \in Nat /\ AtMost(n + 1, ExitPolls) \in Nat
    BY AtMostNext
  <2> QED
    BY <1>3, <2>1, <2>2, <2>3 DEF Decide
<1> QED
  BY <1>1, <1>2, <1>3 DEF Verdicts

LEMMA NextEngineInv ==
  ASSUME TypeOK, EngineInv, [Next]_vars
  PROVE  EngineInv'
<1> USE ConstantTypes DEF world, engine, local, gate, channel
<1>1. CASE UNCHANGED <<engine, pc, cur, fstate>>
  BY <1>1 DEF EngineInv, Confirmed
<1>2. CASE StartRound
  BY <1>2 DEF StartRound, EngineInv, Confirmed
<1>3. CASE EndRound
  BY <1>3 DEF EndRound, EngineInv, Confirmed
<1>4. ASSUME NEW s \in Sensors, PollOK(s) PROVE EngineInv'
  <2> DEFINE m == IF level[s] = "clear" THEN AtMost(clear[s] + 1, ExitPolls) ELSE 0
             out == Evaluate(s)
  <2>1. clear' = [clear EXCEPT ![s] = m] /\ clear'[s] = m
    BY <1>4 DEF PollOK, TypeOK
  <2>2. stale' = stale /\ pc' = "coord" /\ cur' = s /\ fstate' = out.prev
    BY <1>4 DEF PollOK
  <2>3. CASE stale
    <3>1. objs' = objs /\ rebuilt' = Sensors /\ stale'
      BY <1>4, <2>3 DEF PollOK, EngineInv
    <3>2. \A c \in CapacitySensors : objs[c] = Fresh /\ c \in Sensors
      BY <2>3, ConstantsOK DEF EngineInv
    <3>3. \A c \in Sensors : clear'[c] \in 0..ExitPolls
      BY NextTypeOK DEF TypeOK
    <3> QED
      BY <2>2, <2>3, <3>1, <3>2, <3>3 DEF EngineInv, Confirmed, Fresh
  <2>4. CASE ~stale
    <3>1. ranged = objs /\ ranged' = objs' /\ ~stale'
      BY <1>4, <2>4 DEF PollOK, EngineInv
    <3>2. CASE s \in CapacitySensors
      <4>1. /\ out.streak <= m
            /\ out.prev = "healthy" => level[s] = "clear"
                                       /\ (m >= ExitPolls \/ objs[s].prev = "healthy")
        <5>1. /\ objs[s].prev \in States /\ objs[s].streak \in 0..ExitPolls
              /\ level[s] \in Verdicts /\ clear[s] \in 0..ExitPolls
          BY DEF TypeOK
        <5>2. objs[s].streak <= clear[s]
          BY <3>2 DEF EngineInv
        <5>3. out = Decide(objs[s].prev, objs[s].streak, level[s])
          BY <3>1, <3>2 DEF Evaluate
        <5> HIDE DEF m, out
        <5> QED
          BY <5>1, <5>2, <5>3, DecideConfirms DEF m
      <4>2. objs' = [objs EXCEPT ![s] = out] /\ objs'[s] = out
        BY <1>4, <2>4, <3>1, <3>2 DEF PollOK, TypeOK
      <4>3. level[s] = "clear" => rebuilt' = rebuilt
        BY <1>4 DEF PollOK
      <4>4. objs[s].prev = "healthy" => clear[s] >= ExitPolls \/ s \in rebuilt
        BY <3>2 DEF EngineInv, Confirmed
      <4>5. level[s] = "clear" /\ clear[s] >= ExitPolls => m >= ExitPolls
        BY DEF AtMost, TypeOK
      <4>6. out.prev = "healthy" => m >= ExitPolls \/ s \in rebuilt'
        BY <4>1, <4>3, <4>4, <4>5
      <4>7. \A c \in CapacitySensors \ {s} :
              objs'[c] = objs[c] /\ clear'[c] = clear[c]
              /\ (c \in rebuilt => c \in rebuilt')
        BY <1>4, <2>1, <4>2 DEF PollOK, TypeOK
      <4>8. \A c \in CapacitySensors :
              /\ objs'[c].streak <= clear'[c]
              /\ objs'[c].prev = "healthy" => clear'[c] >= ExitPolls \/ c \in rebuilt'
        BY <2>1, <4>1, <4>2, <4>6, <4>7 DEF EngineInv, Confirmed
      <4> QED
        BY <2>1, <2>2, <2>4, <3>1, <4>6, <4>8 DEF EngineInv, Confirmed
    <3>3. CASE s \notin CapacitySensors
      <4>1. objs' = objs
        BY <1>4, <2>4, <3>1, <3>3 DEF PollOK, TypeOK
      <4>2. \A c \in CapacitySensors :
              clear'[c] = clear[c] /\ (c \in rebuilt => c \in rebuilt')
        BY <1>4, <2>1, <3>3, ConstantsOK DEF PollOK, TypeOK
      <4> QED
        BY <2>2, <2>4, <3>1, <3>3, <4>1, <4>2 DEF EngineInv, Confirmed
    <3> QED
      BY <3>2, <3>3
  <2> QED
    BY <2>3, <2>4
<1>5. ASSUME NEW s \in Sensors, \/ PollFailed(s) \/ MetricMoves(s) \/ AlertManagerMoves(s)
      PROVE EngineInv'
  BY <1>5, <1>1 DEF PollFailed, MetricMoves, AlertManagerMoves
<1>6. ASSUME NEW b \in BOOLEAN, Coordinate(b) \/ PublishError(b) \/ SendError(b)
      PROVE EngineInv'
  BY <1>6 DEF Coordinate, PublishError, SendError, EngineInv, Confirmed
<1>7. CASE PublishOK \/ NoteThenCommit \/ SendOK \/ SaveOK \/ SaveError
  BY <1>7 DEF PublishOK, NoteThenCommit, SendOK, SaveOK, SaveError, EngineInv, Confirmed
<1>8. CASE Reload
  <2>1. /\ \A c \in CapacitySensors :
             c \in rebuilt' /\ objs'[c].streak = 0 /\ clear'[c] \in 0..ExitPolls
        /\ objs' = [s \in Sensors |-> Fresh] /\ rebuilt' = Sensors
    BY <1>8, ConstantsOK DEF Reload, Fresh, TypeOK
  <2>2. pc' = pc /\ cur' = cur /\ fstate' = fstate /\ stale' = (pc # "wait")
    BY <1>8 DEF Reload
  <2>3. \A c \in CapacitySensors : objs'[c].streak <= clear'[c] /\ Confirmed(c)'
    BY <2>1 DEF Confirmed
  <2> QED
    BY <2>1, <2>2, <2>3, ConstantsOK DEF EngineInv, Confirmed
<1>9. CASE Restart
  BY <1>9, ConstantsOK DEF Restart, EngineInv, Confirmed, Fresh, TypeOK
<1>10. CASE UNCHANGED vars
  BY <1>10, <1>1 DEF vars
<1> QED
  BY <1>2, <1>3, <1>4, <1>5, <1>6, <1>7, <1>8, <1>9, <1>10 DEF Next, Round, Around

LEMMA InitIInv == Init => IInv
<1> SUFFICES ASSUME Init PROVE IInv
  OBVIOUS
<1>1. StepInv
  BY DEF Init, StepInv
<1>2. InSync /\ GateInSync
  BY DEF Init, InSync, GateInSync, Known
<1>3. EngineInv
  BY ConstantsOK DEF Init, EngineInv, Confirmed, Fresh
<1> QED
  BY <1>1, <1>2, <1>3, InitTypeOK DEF IInv

LEMMA NextIInv == IInv /\ [Next]_vars => IInv'
BY NextTypeOK, NextStepInv, NextInSync, NextGateInSync, NextEngineInv DEF IInv

THEOREM Invariance == Spec => []IInv
BY InitIInv, NextIInv, PTL DEF Spec

-----------------------------------------------------------------------------
(* The properties of the runs.                                             *)

(* A message the daemon sets out to deliver is news to the operator: with  *)
(* told and lastState in step, Peek on lastState decides about told.       *)
THEOREM MessagesAreNews == Spec => []AttemptIsNews
<1>1. IInv => AttemptIsNews
  BY DEF IInv, TypeOK, StepInv, InSync, AttemptIsNews, Peek, Rank, States
<1> QED
  BY <1>1, Invariance, PTL

(* publishedFiring mirrors the incidents open at the gate.                 *)
THEOREM GateMirrored == Spec => []GateInSync
<1>1. IInv => GateInSync
  BY DEF IInv
<1> QED
  BY <1>1, Invariance, PTL

(* A published recovery closes an incident that is open.                   *)
THEOREM ResolvedIsMeaningful == Spec => []ResolvedClosesAnIncident
<1>1. IInv => ResolvedClosesAnIncident
  BY DEF IInv, TypeOK, StepInv, GateInSync, ResolvedClosesAnIncident, GateApplies
<1> QED
  BY <1>1, Invariance, PTL

(* No recovery of a capacity sensor is announced without ExitPolls clear   *)
(* polls in a row, unless its engine was rebuilt.                          *)
THEOREM RecoveriesConfirmed == Spec => RecoveryConfirmed
<1>1. ASSUME IInv, [Next]_vars
      PROVE  [\A s \in CapacitySensors : RecoveryTold(s) => Confirmed(s)]_vars
  <2> SUFFICES ASSUME NEW s \in CapacitySensors, RecoveryTold(s)
               PROVE  Confirmed(s)
    OBVIOUS
  <2>1. s = cur /\ fstate = "healthy" /\ pc \in {"gate", "send"}
    <3>1. told' # told
      BY DEF RecoveryTold
    <3>2. ASSUME told' = [told EXCEPT ![cur] = fstate] PROVE s = cur /\ fstate = "healthy"
      BY <3>2 DEF RecoveryTold, IInv, TypeOK
    <3>3. CASE PublishOK
      BY <3>2, <3>3 DEF PublishOK, GateReceives
    <3>4. ASSUME NEW b \in BOOLEAN, PublishError(b)
          PROVE  s = cur /\ fstate = "healthy" /\ pc = "gate"
      BY <3>1, <3>2, <3>4 DEF PublishError, GateReceives, channel
    <3>5. CASE SendOK
      BY <3>2, <3>5 DEF SendOK
    <3>6. ASSUME NEW b \in BOOLEAN, SendError(b)
          PROVE  s = cur /\ fstate = "healthy" /\ pc = "send"
      BY <3>1, <3>2, <3>6 DEF SendError, channel
    <3>7. CASE \/ StartRound \/ EndRound \/ NoteThenCommit \/ SaveOK \/ SaveError
               \/ Reload \/ Restart
      BY <3>1, <3>7 DEF StartRound, EndRound, NoteThenCommit, SaveOK, SaveError,
                        Reload, Restart, channel
    <3>8. ASSUME NEW c \in Sensors,
                 PollOK(c) \/ PollFailed(c) \/ MetricMoves(c) \/ AlertManagerMoves(c)
          PROVE FALSE
      BY <3>1, <3>8 DEF PollOK, PollFailed, MetricMoves, AlertManagerMoves, channel
    <3>9. ASSUME NEW b \in BOOLEAN, Coordinate(b) PROVE FALSE
      BY <3>1, <3>9 DEF Coordinate, channel
    <3>10. CASE UNCHANGED vars
      BY <3>1, <3>10 DEF vars, channel
    <3> QED
      BY <1>1, <3>3, <3>4, <3>5, <3>6, <3>7, <3>8, <3>9, <3>10 DEF Next, Round, Around
  <2> QED
    BY <1>1, <2>1 DEF IInv, EngineInv
<1> QED
  BY <1>1, Invariance, PTL DEF Spec, RecoveryConfirmed

-----------------------------------------------------------------------------
(* SensorNotify implements NotifyContract.                                 *)

LEMMA PeekIsNews ==
  ASSUME TypeOK, NEW s \in Sensors, NEW st \in States, Peek(s, st)
  PROVE  Contract!IsNews(Known(s), st)
<1>1. Known(s) \in States
  BY DEF TypeOK, Known, States, Unset
<1> QED
  BY <1>1 DEF Peek, Rank, States, Contract!IsNews, Contract!Severity, Contract!States

LEMMA InitContract == Init => Contract!Init
BY DEF Init, Known, Contract!Init

(* Each step of the detailed specification is a step of the contract or    *)
(* leaves its variables alone.                                             *)
LEMMA NextContract ==
  ASSUME IInv, [Next]_vars
  PROVE  [Contract!Next]_(Contract!vars)
<1> DEFINE known == [s \in Sensors |-> Known(s)]
<1>0. TypeOK /\ StepInv /\ cur \in Sensors /\ fstate \in States
      /\ Contract!States = States
  BY DEF IInv, TypeOK, States, Contract!States
<1>1. CASE UNCHANGED <<told, inDoubt, lastState>>
  BY <1>1 DEF Contract!vars, Known
<1>2. ASSUME pc \in {"gate", "send"}, GateReceives, UNCHANGED lastState
      PROVE  Contract!Next
  <2>1. Contract!IsNews(Known(cur), fstate)
    BY <1>0, <1>2, PeekIsNews DEF StepInv
  <2>2. Contract!Deliver(cur, fstate)
    BY <1>0, <1>2, <2>1 DEF GateReceives, Contract!Deliver, Known
  <2> QED
    BY <1>0, <2>2 DEF Contract!Next
<1>3. CASE PublishOK
  BY <1>2, <1>3 DEF PublishOK
<1>4. ASSUME NEW delivered \in BOOLEAN, PublishError(delivered)
      PROVE  [Contract!Next]_(Contract!vars)
  BY <1>1, <1>2, <1>4 DEF PublishError, channel
<1>5. ASSUME NEW delivered \in BOOLEAN, SendError(delivered)
      PROVE  [Contract!Next]_(Contract!vars)
  <2>1. CASE delivered
    <3>1. Contract!IsNews(Known(cur), fstate)
      BY <1>0, <1>5, PeekIsNews DEF StepInv, SendError
    <3>2. Contract!Deliver(cur, fstate)
      <4>1. told' = [told EXCEPT ![cur] = fstate] /\ inDoubt' = inDoubt \cup {cur}
            /\ lastState' = lastState
        BY <1>5, <2>1 DEF SendError
      <4> QED
        BY <1>0, <3>1, <4>1 DEF Contract!Deliver, Known
    <3> QED
      BY <1>0, <3>2 DEF Contract!Next
  <2>2. CASE ~delivered
    BY <1>1, <1>5, <2>2 DEF SendError, channel
  <2> QED
    BY <2>1, <2>2
<1>6. ASSUME lastState' = Commit(cur, fstate)
      PROVE  known' = [known EXCEPT ![cur] = fstate]
  <2>1. lastState' = [lastState EXCEPT ![cur] = fstate] /\ lastState \in [Sensors -> States \cup {Unset}]
    BY <1>0, <1>6 DEF Commit, TypeOK
  <2>2. fstate # Unset
    BY <1>0 DEF States, Unset
  <2> QED
    BY <1>0, <2>1, <2>2 DEF Known
<1>7. CASE NoteThenCommit
  <2>1. told[cur] = fstate /\ cur \in inDoubt /\ Contract!IsNews(Known(cur), fstate)
    BY <1>0, <1>7, PeekIsNews DEF NoteThenCommit, StepInv
  <2>2. Contract!Confirm(cur)
    BY <1>0, <1>6, <1>7, <2>1 DEF NoteThenCommit, Contract!Confirm
  <2> QED
    BY <1>0, <2>2 DEF Contract!Next
<1>8. CASE SendOK
  <2>1. Contract!IsNews(Known(cur), fstate)
    BY <1>0, <1>8, PeekIsNews DEF SendOK, StepInv
  <2>2. Contract!DeliverConfirmed(cur, fstate)
    BY <1>0, <1>6, <1>8, <2>1 DEF SendOK, Contract!DeliverConfirmed
  <2> QED
    BY <1>0, <2>2 DEF Contract!Next
<1>9. CASE Restart
  <2>1. Contract!Forget
    BY <1>9 DEF Restart, Known, Contract!Forget
  <2> QED
    BY <2>1 DEF Contract!Next
<1>10. CASE StartRound \/ EndRound \/ SaveOK \/ SaveError \/ Reload
  BY <1>1, <1>10 DEF StartRound, EndRound, SaveOK, SaveError, Reload, channel
<1>11. ASSUME NEW s \in Sensors,
              PollOK(s) \/ PollFailed(s) \/ MetricMoves(s) \/ AlertManagerMoves(s)
       PROVE  [Contract!Next]_(Contract!vars)
  BY <1>1, <1>11 DEF PollOK, PollFailed, MetricMoves, AlertManagerMoves, channel
<1>12. ASSUME NEW firing \in BOOLEAN, Coordinate(firing)
       PROVE  [Contract!Next]_(Contract!vars)
  BY <1>1, <1>12 DEF Coordinate, channel
<1>13. CASE UNCHANGED vars
  BY <1>1, <1>13 DEF vars, channel
<1> QED
  BY <1>3, <1>4, <1>5, <1>7, <1>8, <1>9, <1>10, <1>11, <1>12, <1>13
     DEF Next, Round, Around

(* The whole notification path, with its retries, its gate and its         *)
(* restarts, keeps the promise made to the operator.                       *)
THEOREM Implementation == Spec => ImplementsContract
<1>1. IInv /\ [Next]_vars => [Contract!Next]_(Contract!vars)
  BY NextContract
<1> QED
  BY InitContract, <1>1, Invariance, PTL DEF Spec, ImplementsContract, Contract!Spec

-----------------------------------------------------------------------------
(* What an operator may rely on, proved of the contract alone, with a      *)
(* belief that is a variable and not computed from the daemon's memory.    *)

VARIABLE believed

Promise == INSTANCE NotifyContract

(* No step but Deliver and Forget puts a sensor in doubt, and a step that  *)
(* takes one out of it makes the daemon's picture the operator's           *)
(* (Peek, Send and Commit in runOnePoll, daemon.go).                       *)
LEMMA PromiseStep ==
  Promise!TypeOK /\ Promise!InSync /\ [Promise!Next]_(Promise!vars)
    => Promise!TypeOK' /\ Promise!InSync'
<1> SUFFICES ASSUME Promise!TypeOK, Promise!InSync, [Promise!Next]_(Promise!vars)
             PROVE  Promise!TypeOK' /\ Promise!InSync'
  OBVIOUS
<1> USE DEF Promise!TypeOK, Promise!InSync
<1>1. ASSUME NEW s \in Sensors, NEW st \in Promise!States, Promise!Deliver(s, st)
      PROVE  Promise!TypeOK' /\ Promise!InSync'
  BY <1>1 DEF Promise!Deliver
<1>2. ASSUME NEW s \in Sensors, Promise!Confirm(s) PROVE Promise!TypeOK' /\ Promise!InSync'
  BY <1>2 DEF Promise!Confirm
<1>3. ASSUME NEW s \in Sensors, NEW st \in Promise!States, Promise!DeliverConfirmed(s, st)
      PROVE  Promise!TypeOK' /\ Promise!InSync'
  BY <1>3 DEF Promise!DeliverConfirmed
<1>4. CASE Promise!Forget
  BY <1>4 DEF Promise!Forget, Promise!States
<1>5. CASE UNCHANGED Promise!vars
  BY <1>5 DEF Promise!vars
<1> QED
  BY <1>1, <1>2, <1>3, <1>4, <1>5 DEF Promise!Next

LEMMA PromiseInit == Promise!Init => Promise!TypeOK /\ Promise!InSync
BY DEF Promise!Init, Promise!TypeOK, Promise!InSync, Promise!States

(* Outside doubt, what the daemon believes the operator knows is what they *)
(* know: the dedupe memory (alert/dedupe.go) is right.                     *)
THEOREM Synchrony == Promise!Spec => []Promise!InSync
BY PromiseInit, PromiseStep, PTL DEF Promise!Spec

(* Outside doubt, an operator hears of a first incident, an escalation or  *)
(* a recovery, and of nothing else (Peek, alert/dedupe.go).                *)
THEOREM NothingButNews == Promise!Spec => Promise!OnlyNews
<1>1. Promise!TypeOK /\ Promise!InSync /\ [Promise!Next]_(Promise!vars) =>
        [\A s \in Sensors \ inDoubt :
            told'[s] # told[s] => Promise!IsNews(told[s], told'[s])]_(Promise!vars)
  <2> SUFFICES ASSUME Promise!TypeOK, Promise!InSync, Promise!Next,
                      NEW t \in Sensors, t \notin inDoubt, told'[t] # told[t]
               PROVE  Promise!IsNews(told[t], told'[t])
    BY DEF Promise!vars
  <2>0. told[t] = believed[t]
    BY DEF Promise!InSync
  <2>1. ASSUME NEW s \in Sensors, NEW st \in Promise!States,
               Promise!Deliver(s, st) \/ Promise!DeliverConfirmed(s, st)
        PROVE  s = t /\ told'[t] = st /\ Promise!IsNews(believed[s], st)
    BY <2>1 DEF Promise!Deliver, Promise!DeliverConfirmed, Promise!TypeOK
  <2>2. ~Promise!Forget /\ ~(\E s \in Sensors : Promise!Confirm(s))
    BY DEF Promise!Forget, Promise!Confirm
  <2> QED
    BY <2>0, <2>1, <2>2 DEF Promise!Next
<1> QED
  BY <1>1, PromiseInit, PromiseStep, PTL DEF Promise!Spec, Promise!OnlyNews

(* So the operator of the whole daemon, with its retries, its gate and its *)
(* restarts, hears nothing but news.                                       *)
THEOREM OperatorHearsNews == Spec => Contract!OnlyNews
<1> DEFINE Heard == \A s \in Sensors \ inDoubt :
                      told'[s] # told[s] => Contract!IsNews(told[s], told'[s])
<1>1. ASSUME IInv, [Next]_vars PROVE [Heard]_(Contract!vars)
  <2> SUFFICES ASSUME Contract!Next, NEW t \in Sensors, t \notin inDoubt, told'[t] # told[t]
               PROVE  Contract!IsNews(told[t], told'[t])
    BY <1>1, NextContract
  <2>0. told[t] = Known(t) /\ told \in [Sensors -> States] /\ t \in Sensors
    BY <1>1 DEF IInv, TypeOK, InSync
  <2>1. ASSUME NEW s \in Sensors, NEW st \in Contract!States,
               Contract!Deliver(s, st) \/ Contract!DeliverConfirmed(s, st)
        PROVE  s = t /\ told'[t] = st /\ Contract!IsNews(Known(s), st)
    BY <2>0, <2>1 DEF Contract!Deliver, Contract!DeliverConfirmed
  <2>2. ~Contract!Forget /\ ~(\E s \in Sensors : Contract!Confirm(s))
    BY DEF Contract!Forget, Contract!Confirm
  <2> QED
    BY <2>0, <2>1, <2>2 DEF Contract!Next
<1> HIDE DEF Heard
<1>2. IInv /\ [Next]_vars => [Heard]_(Contract!vars)
  BY <1>1
<1>3. Spec => [][Heard]_(Contract!vars)
  BY <1>2, Invariance, PTL DEF Spec
<1> QED
  BY <1>3 DEF Contract!OnlyNews, Heard

=============================================================================
