---------------------------- MODULE SensorNotify ----------------------------
(***************************************************************************)
(* The scheduler goroutine of the daemon: runOnePoll (cmd/sentinel/        *)
(* daemon.go) over the sensors, with everything a transition of a sensor's *)
(* state goes through before and after the operator hears of it: the exit  *)
(* hysteresis of the engine, AlertManager silence, the dedupe memory, the  *)
(* backoff after failed sends, the hand-over to the triage gate with its   *)
(* local fallback, and the row in sensor_state.                            *)
(*                                                                         *)
(* The metric is abstracted to the verdict its thresholds give (decide,    *)
(* internal/budget/evaluate.go); a call to Telegram, to the gate or to     *)
(* AlertManager has every outcome the caller can see or not see, including *)
(* "delivered, but the caller got an error" (a timeout after the peer      *)
(* accepted the request).                                                  *)
(***************************************************************************)
EXTENDS Naturals, FiniteSets

CONSTANTS
  Sensors,             \* ids of the sensors of d.sensors
  CapacitySensors,     \* those of kind "capacity"; the others are SLO budgets
  GateEnabled,         \* ONCALL_GATE_URL is set: d.publisher # nil
  NotifyBackoffAfter,  \* failed sends before a sensor backs off
  NotifyRetryEvery,    \* in backoff, one attempt every that many rounds
  ExitPolls            \* budget.DefaultExitPolls

ASSUME ConstantsOK == /\ CapacitySensors \subseteq Sensors
                      /\ GateEnabled \in BOOLEAN
                      /\ NotifyBackoffAfter \in Nat \ {0}
                      /\ NotifyRetryEvery \in Nat \ {0}
                      /\ ExitPolls \in Nat \ {0}

VARIABLES
  level,            \* world: what the thresholds say of each sensor's metric
  amFiring,         \* world: sensors AlertManager has a firing alert for
  told,             \* world: what the operator last heard about a sensor
  incident,         \* world: sensors with an open incident at the gate
  objs,             \* sensor objects of d.sensors: previous state and streak
  ranged,           \* sensor objects the running round iterates over
  stale,            \* d.sensors was replaced since this round began
  todo,             \* sensors the running round has still to poll
  pc,               \* where the goroutine is
  cur,              \* the sensor it is handling
  fstate,           \* f.State of the forecast in hand
  lastState,        \* Dedupe.lastState (Unset = no entry)
  retry,            \* d.notifyRetry (fails saturates, see MarkFailure)
  publishedFiring,  \* d.publishedFiring
  store,            \* state in the rows of table sensor_state (Unset = no row)
  inDoubt,          \* history: told may differ from what the daemon believes
  gateDoubt,        \* history: incident may differ from publishedFiring
  clear,            \* history: polls in a row outside the thresholds
  rebuilt           \* history: engine objects rebuilt since the last breach

world   == <<level, amFiring>>
engine  == <<objs, ranged, stale, clear, rebuilt>>
local   == <<todo, pc, cur, fstate>>
gate    == <<incident, publishedFiring, gateDoubt>>
channel == <<told, inDoubt>>
vars    == <<world, engine, local, gate, channel, lastState, retry, store>>

States   == {"healthy", "warning", "critical"}
Verdicts == {"clear", "warn", "crit"}
Labels   == {"wait", "poll", "coord", "gate", "note", "send", "save"}
Unset    == "unset"                   \* the empty string of the code
Fresh    == [prev |-> "healthy", streak |-> 0]
NoRetry  == [fails |-> 0, sinceFail |-> 0]

AtMost(n, max) == IF n > max THEN max ELSE n

TypeOK ==
  /\ level \in [Sensors -> Verdicts]
  /\ amFiring \subseteq Sensors
  /\ told \in [Sensors -> States]
  /\ incident \subseteq Sensors
  /\ objs \in [Sensors -> [prev : States, streak : 0..ExitPolls]]
  /\ ranged \in [Sensors -> [prev : States, streak : 0..ExitPolls]]
  /\ stale \in BOOLEAN
  /\ todo \subseteq Sensors
  /\ pc \in Labels
  /\ cur \in Sensors
  /\ fstate \in States
  /\ lastState \in [Sensors -> States \cup {Unset}]
  /\ retry \in [Sensors -> [fails : 0..NotifyBackoffAfter,
                            sinceFail : 0..(NotifyRetryEvery - 1)]]
  /\ publishedFiring \subseteq Sensors
  /\ store \in [Sensors -> States \cup {Unset}]
  /\ inDoubt \subseteq Sensors
  /\ gateDoubt \subseteq Sensors
  /\ clear \in [Sensors -> 0..ExitPolls]
  /\ rebuilt \subseteq Sensors

Init ==
  /\ level \in [Sensors -> Verdicts]
  /\ amFiring \in SUBSET Sensors
  /\ told = [s \in Sensors |-> "healthy"]
  /\ incident = {}
  /\ objs = [s \in Sensors |-> Fresh]
  /\ ranged = [s \in Sensors |-> Fresh]
  /\ stale = FALSE
  /\ todo = {}
  /\ pc = "wait"
  /\ cur \in Sensors
  /\ fstate = "healthy"
  /\ lastState = [s \in Sensors |-> Unset]
  /\ retry = [s \in Sensors |-> NoRetry]
  /\ publishedFiring = {}
  /\ store = [s \in Sensors |-> Unset]
  /\ inDoubt = {}
  /\ gateDoubt = {}
  /\ clear = [s \in Sensors |-> 0]
  /\ rebuilt = Sensors

-----------------------------------------------------------------------------
(* The engine: decide with the exit hysteresis.                            *)

(* Mutant: no hysteresis, the first clear poll recovers.                   *)
DecideAtOnce(prev, streak, verdict) ==
  CASE verdict = "crit"  -> [prev |-> "critical", streak |-> 0]
    [] verdict = "warn"  -> [prev |-> "warning", streak |-> 0]
    [] verdict = "clear" -> [prev |-> "healthy", streak |-> AtMost(streak + 1, ExitPolls)]

(* A breach takes effect at once; leaving it needs ExitPolls polls in a    *)
(* row, unless the previous state is healthy or unset.  The streak is only *)
(* compared with ExitPolls, so it saturates there.                         *)
Decide(prev, streak, verdict) ==
  LET longer == AtMost(streak + 1, ExitPolls) IN
  CASE verdict = "crit"  -> [prev |-> "critical", streak |-> 0]
    [] verdict = "warn"  -> [prev |-> "warning", streak |-> 0]
    [] verdict = "clear" ->
         [prev   |-> IF longer >= ExitPolls \/ prev \in {"healthy", Unset}
                     THEN "healthy" ELSE prev,
          streak |-> longer]

(* A capacity sensor remembers its last forecast, the SLO poll closure     *)
(* passes no previous state and no streak.                                 *)
Evaluate(s) == IF s \in CapacitySensors
               THEN Decide(ranged[s].prev, ranged[s].streak, level[s])
               ELSE Decide(Unset, 0, level[s])

-----------------------------------------------------------------------------
(* Dedupe and backoff.                                                     *)

Rank(st) == CASE st = "critical" -> 2 [] st = "warning" -> 1 [] OTHER -> 0

Known(s) == IF lastState[s] = Unset THEN "healthy" ELSE lastState[s]

(* Mutant: recoveries are not news.                                        *)
PeekNoRecovery(s, st) == st # "healthy" /\ Rank(st) > Rank(Known(s))

Peek(s, st) ==
  /\ Known(s) # st
  /\ ~ (st # "healthy" /\ Known(s) # "healthy" /\ Rank(st) <= Rank(Known(s)))

InBackoff(s) == retry[s].fails >= NotifyBackoffAfter

RetryRound(s) == retry[s].sinceFail + 1 >= NotifyRetryEvery

AllowNotify(s) == ~InBackoff(s) \/ RetryRound(s)

(* What allowNotify leaves behind: only a sensor in backoff is counted.    *)
AfterAllow(s) ==
  IF ~InBackoff(s) THEN retry
  ELSE [retry EXCEPT ![s].sinceFail = IF RetryRound(s) THEN 0 ELSE @ + 1]

MarkSuccess(s) == [retry EXCEPT ![s] = NoRetry]

(* fails is only compared with NotifyBackoffAfter: it saturates there.     *)
MarkFailure(s) ==
  [retry EXCEPT ![s].fails = AtMost(@ + 1, NotifyBackoffAfter)]

Commit(s, st) == [lastState EXCEPT ![s] = st]

(* Mutant: a recovery is published whether or not an incident was.         *)
GateAppliesAlways(s, st) == GateEnabled /\ s \in CapacitySensors

(* Whether triageHandled publishes at all.                                 *)
GateApplies(s, st) == /\ GateEnabled
                      /\ s \in CapacitySensors
                      /\ st = "healthy" => s \in publishedFiring

-----------------------------------------------------------------------------
(* One poll round.                                                         *)

StartRound ==
  /\ pc = "wait"
  /\ pc' = "poll"
  /\ todo' = Sensors
  /\ ranged' = objs
  /\ stale' = FALSE
  /\ UNCHANGED <<world, objs, clear, rebuilt, cur, fstate, gate, channel,
                 lastState, retry, store>>

EndRound ==
  /\ pc = "poll" /\ todo = {}
  /\ pc' = "wait"
  /\ UNCHANGED <<world, engine, todo, cur, fstate, gate, channel, lastState,
                 retry, store>>

(* The queries and Evaluate succeed: the sensor object keeps the outcome.  *)
PollOK(s) ==
  LET out == Evaluate(s)
      kept == IF s \in CapacitySensors THEN out ELSE ranged[s]
  IN
  /\ pc = "poll" /\ s \in todo
  /\ pc' = "coord"
  /\ todo' = todo \ {s}
  /\ cur' = s
  /\ fstate' = out.prev
  /\ ranged' = [ranged EXCEPT ![s] = kept]
  /\ objs' = IF stale THEN objs ELSE [objs EXCEPT ![s] = kept]
  /\ clear' = [clear EXCEPT ![s] = IF level[s] = "clear"
                                   THEN AtMost(@ + 1, ExitPolls) ELSE 0]
  /\ rebuilt' = IF level[s] # "clear" /\ ~stale THEN rebuilt \ {s} ELSE rebuilt
  /\ UNCHANGED <<world, stale, gate, channel, lastState, retry, store>>

(* A query fails or the closure panics: this sensor is skipped this round. *)
PollFailed(s) ==
  /\ pc = "poll" /\ s \in todo
  /\ todo' = todo \ {s}
  /\ UNCHANGED <<world, engine, pc, cur, fstate, gate, channel, lastState,
                 retry, store>>

(* Mutant: a silenced sensor returns before its state is saved.            *)
CoordinateOrReturn(firing) ==
  /\ pc = "coord"
  /\ firing => cur \in amFiring
  /\ LET due == ~firing /\ Peek(cur, fstate) IN
     /\ retry' = IF due THEN AfterAllow(cur) ELSE retry
     /\ pc' = CASE firing -> "poll"
                [] due /\ AllowNotify(cur) /\ GateApplies(cur, fstate) -> "gate"
                [] due /\ AllowNotify(cur) /\ ~GateApplies(cur, fstate) -> "send"
                [] ~firing /\ ~(due /\ AllowNotify(cur)) -> "save"
  /\ UNCHANGED <<world, engine, todo, cur, fstate, gate, channel, lastState, store>>

(* AlertManager coordination (an error counts as "not firing"), Peek and   *)
(* allowNotify, in the order of the code's short-circuit condition.        *)
Coordinate(firing) ==
  /\ pc = "coord"
  /\ firing => cur \in amFiring
  /\ LET due == ~firing /\ Peek(cur, fstate) IN
     /\ retry' = IF due THEN AfterAllow(cur) ELSE retry
     /\ pc' = CASE due /\ AllowNotify(cur) /\ GateApplies(cur, fstate) -> "gate"
                [] due /\ AllowNotify(cur) /\ ~GateApplies(cur, fstate) -> "send"
                [] ~(due /\ AllowNotify(cur)) -> "save"
  /\ UNCHANGED <<world, engine, todo, cur, fstate, gate, channel, lastState, store>>

(* What the gate and, through it, the operator get from one publication.   *)
GateReceives ==
  /\ incident' = IF fstate = "healthy" THEN incident \ {cur}
                                       ELSE incident \cup {cur}
  /\ told' = [told EXCEPT ![cur] = fstate]
  /\ inDoubt' = inDoubt \cup {cur}

(* Mutant: a published recovery does not clear publishedFiring.            *)
PublishOKKeepsFiring ==
  /\ pc = "gate"
  /\ pc' = "note"
  /\ GateReceives
  /\ publishedFiring' = publishedFiring \cup {cur}
  /\ gateDoubt' = gateDoubt \ {cur}
  /\ UNCHANGED <<world, engine, todo, cur, fstate, lastState, retry, store>>

PublishOK ==
  /\ pc = "gate"
  /\ pc' = "note"
  /\ GateReceives
  /\ publishedFiring' = IF fstate = "healthy" THEN publishedFiring \ {cur}
                                              ELSE publishedFiring \cup {cur}
  /\ gateDoubt' = gateDoubt \ {cur}
  /\ UNCHANGED <<world, engine, todo, cur, fstate, lastState, retry, store>>

(* Publish returns an error, whether or not the gate got the alert: the    *)
(* full card is sent locally instead.                                      *)
PublishError(delivered) ==
  /\ pc = "gate"
  /\ pc' = "send"
  /\ IF delivered
     THEN GateReceives /\ gateDoubt' = gateDoubt \cup {cur}
     ELSE UNCHANGED <<incident, channel, gateDoubt>>
  /\ UNCHANGED <<world, engine, todo, cur, fstate, publishedFiring, lastState,
                 retry, store>>

(* The short local card, whose outcome is only logged, then the commit.    *)
NoteThenCommit ==
  /\ pc = "note"
  /\ pc' = "save"
  /\ lastState' = Commit(cur, fstate)
  /\ inDoubt' = inDoubt \ {cur}
  /\ UNCHANGED <<world, engine, todo, cur, fstate, gate, told, retry, store>>

(* Telegram.Send repeats an attempt that got no answer although it may have *)
(* arrived (internal/alert/telegram.go): the copies of one message, which  *)
(* DaemonLoop counts, are one here, as told is a state.                    *)
SendOK ==
  /\ pc = "send"
  /\ pc' = "save"
  /\ told' = [told EXCEPT ![cur] = fstate]
  /\ inDoubt' = inDoubt \ {cur}
  /\ retry' = MarkSuccess(cur)
  /\ lastState' = Commit(cur, fstate)
  /\ UNCHANGED <<world, engine, todo, cur, fstate, gate, store>>

(* Mutant: the transition is registered although the send failed.          *)
SendErrorCommits(delivered) ==
  /\ pc = "send"
  /\ pc' = "save"
  /\ UNCHANGED channel
  /\ retry' = MarkFailure(cur)
  /\ lastState' = Commit(cur, fstate)
  /\ UNCHANGED <<world, engine, todo, cur, fstate, gate, store>>

SendError(delivered) ==
  /\ pc = "send"
  /\ pc' = "save"
  /\ IF delivered
     THEN /\ told' = [told EXCEPT ![cur] = fstate]
          /\ inDoubt' = inDoubt \cup {cur}
     ELSE UNCHANGED channel
  /\ retry' = MarkFailure(cur)
  /\ UNCHANGED <<world, engine, todo, cur, fstate, gate, lastState, store>>

(* SetState; the LastNotifyAt it writes back is read by nothing.            *)
SaveOK ==
  /\ pc = "save"
  /\ pc' = "poll"
  /\ store' = [store EXCEPT ![cur] = fstate]
  /\ UNCHANGED <<world, engine, todo, cur, fstate, gate, channel, lastState, retry>>

SaveError ==
  /\ pc = "save"
  /\ pc' = "poll"
  /\ UNCHANGED <<world, engine, todo, cur, fstate, gate, channel, lastState,
                 retry, store>>

-----------------------------------------------------------------------------
(* What happens around the round.                                          *)

(* A definition file changes: setupSensors, in the watcher's goroutine,    *)
(* replaces d.sensors by new objects; a running round keeps the old ones.  *)
Reload ==
  /\ objs' = [s \in Sensors |-> Fresh]
  /\ rebuilt' = Sensors
  /\ stale' = (pc # "wait")
  /\ UNCHANGED <<world, ranged, clear, local, gate, channel, lastState, retry, store>>

(* The process stops anywhere and starts again; only the database and the  *)
(* outside world survive.                                                  *)
Restart ==
  /\ objs' = [s \in Sensors |-> Fresh]
  /\ ranged' = [s \in Sensors |-> Fresh]
  /\ stale' = FALSE
  /\ todo' = {}
  /\ pc' = "wait"
  /\ fstate' = "healthy"
  /\ lastState' = [s \in Sensors |-> Unset]
  /\ retry' = [s \in Sensors |-> NoRetry]
  /\ publishedFiring' = {}
  /\ inDoubt' = inDoubt \cup {s \in Sensors : told[s] # "healthy"}
  /\ gateDoubt' = gateDoubt \cup incident
  /\ rebuilt' = Sensors
  /\ UNCHANGED <<world, told, incident, cur, store, clear>>

MetricMoves(s) ==
  /\ \E v \in Verdicts \ {level[s]} : level' = [level EXCEPT ![s] = v]
  /\ UNCHANGED <<amFiring, engine, local, gate, channel, lastState, retry, store>>

AlertManagerMoves(s) ==
  /\ amFiring' = IF s \in amFiring THEN amFiring \ {s} ELSE amFiring \cup {s}
  /\ UNCHANGED <<level, engine, local, gate, channel, lastState, retry, store>>

Round == \/ StartRound
         \/ EndRound
         \/ \E s \in Sensors : PollOK(s) \/ PollFailed(s)
         \/ \E firing \in BOOLEAN : Coordinate(firing)
         \/ PublishOK
         \/ \E delivered \in BOOLEAN : PublishError(delivered)
         \/ NoteThenCommit
         \/ SendOK
         \/ \E delivered \in BOOLEAN : SendError(delivered)
         \/ SaveOK
         \/ SaveError

Around == \/ Reload
          \/ Restart
          \/ \E s \in Sensors : MetricMoves(s) \/ AlertManagerMoves(s)

Next == Round \/ Around

Spec == Init /\ [][Next]_vars

(* The ticker keeps starting rounds and a round always ends: every outside *)
(* call returns.  A query, a send and a write that are tried for ever      *)
(* succeed for ever; nothing is assumed of the gate, of AlertManager, of   *)
(* reloads or of restarts.                                                 *)
Fairness == /\ WF_vars(Round)
            /\ \A s \in Sensors : SF_vars(PollOK(s))
            /\ SF_vars(SendOK)
            /\ SF_vars(SaveOK)

LiveSpec == Spec /\ Fairness

-----------------------------------------------------------------------------
(* Safety.                                                                 *)

(* Every message the daemon sets out to deliver is news to the operator:   *)
(* neither what they already know nor a mere downgrade.  Retries after a   *)
(* failed send, backoff, AlertManager silence and the fallback from the    *)
(* gate must all preserve that (daemon.go, the T026 comment of runOnePoll).*)
AttemptIsNews ==
  pc \in {"gate", "send"} /\ cur \notin inDoubt
    => /\ told[cur] # fstate
       /\ fstate = "healthy" \/ Rank(told[cur]) < Rank(fstate)

(* The whole path keeps the promise of NotifyContract: told advances only  *)
(* by news, and a state is registered as notified only once delivered.     *)
Contract == INSTANCE NotifyContract
            WITH believed <- [s \in Sensors |-> Known(s)]
ImplementsContract == Contract!Spec

(* The map publishedFiring is an exact picture of the incidents the gate   *)
(* holds open, as long as no publication was ambiguous and the daemon did  *)
(* not restart over an open incident (triageHandled, triage.go).           *)
GateInSync ==
  \A s \in Sensors \ gateDoubt : s \in incident <=> s \in publishedFiring

(* A "resolved" is only ever published for an incident the gate has open   *)
(* (triage.go: "otherwise the gate has no incident to close").             *)
ResolvedClosesAnIncident ==
  pc = "gate" /\ fstate = "healthy" /\ cur \notin gateDoubt => cur \in incident

RecoveryTold(s) == told[s] # "healthy" /\ told'[s] = "healthy"
Confirmed(s)    == clear[s] >= ExitPolls \/ s \in rebuilt

(* A recovery is announced only after ExitPolls polls in a row outside the *)
(* thresholds, whatever silence, backoff and failed sends did in between;  *)
(* only a rebuild of the engine (hot reload, restart) waives it.           *)
RecoveryConfirmed ==
  [][\A s \in CapacitySensors : RecoveryTold(s) => Confirmed(s)]_vars

-----------------------------------------------------------------------------
(* The inductive invariant behind the properties above.                    *)

(* Nothing moves lastState or publishedFiring between the decision to      *)
(* notify and the commit, and a published transition waits for its commit. *)
StepInv ==
  /\ pc \in {"gate", "note", "send"} => Peek(cur, fstate)
  /\ pc = "gate" => GateApplies(cur, fstate)
  /\ pc = "note" => told[cur] = fstate /\ cur \in inDoubt

InSync == \A s \in Sensors \ inDoubt : told[s] = Known(s)

(* The engine objects count no more clear polls than there were, a healthy *)
(* object is a confirmed recovery, and the objects a round runs on are     *)
(* those of d.sensors unless a reload replaced them.                       *)
EngineInv ==
  /\ \A s \in CapacitySensors :
       /\ objs[s].streak <= clear[s]
       /\ objs[s].prev = "healthy" => Confirmed(s)
  /\ stale => /\ objs = [s \in Sensors |-> Fresh]
              /\ rebuilt = Sensors
  /\ pc # "wait" /\ ~stale => ranged = objs
  /\ pc \notin {"wait", "poll"} /\ cur \in CapacitySensors /\ fstate = "healthy"
       => Confirmed(cur)

IInv == TypeOK /\ StepInv /\ InSync /\ GateInSync /\ EngineInv

-----------------------------------------------------------------------------
(* Liveness, once the daemon no longer restarts and AlertManager is quiet. *)

Settled(s) == /\ <>[][~Restart]_vars
              /\ <>[](s \notin amFiring)

(* A lasting critical state reaches the operator, through any sequence of  *)
(* failed sends and publications and any backoff they left behind; the     *)
(* operator may miss it only where the daemon lost track of what they know.*)
CriticalReachesOperator ==
  \A s \in Sensors :
    Settled(s) /\ <>[](level[s] = "crit")
      => <>[](Known(s) = "critical" /\ (told[s] = "critical" \/ s \in inDoubt))

(* A lasting recovery reaches the operator under the same conditions.      *)
RecoveryReachesOperator ==
  \A s \in Sensors :
    Settled(s) /\ <>[](level[s] = "clear")
      => <>[](Known(s) = "healthy" /\ (told[s] = "healthy" \/ s \in inDoubt))

LastingStateIsTold == CriticalReachesOperator /\ RecoveryReachesOperator

(* The stored state, which the status command and the read API show,       *)
(* follows the metric even while AlertManager silences the sensor.         *)
StoreFollowsMetric ==
  \A s \in Sensors : <>[][~Restart]_vars /\ <>[](level[s] = "crit")
                       => <>[](store[s] = "critical")

=============================================================================
