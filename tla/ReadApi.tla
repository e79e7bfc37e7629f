------------------------------- MODULE ReadApi -------------------------------
(***************************************************************************)
(* What the daemon tells about its sensors: the poll round writes the      *)
(* prediction, the state row and the gauges of a sensor one after the      *)
(* other (cmd/sentinel/daemon.go runOnePoll, internal/store), and deletes  *)
(* old predictions between two rounds; the handlers of the read-only API   *)
(* and of /metrics read them at any time (api.go); the web pages and the   *)
(* deployment gate show what the API answers (cmd/sentinel-ui,             *)
(* docs/ci-budget-gate.md).                                                *)
(***************************************************************************)
EXTENDS Integers, FiniteSets

CONSTANTS
  N,          \* sensors
  Day,        \* twenty-four hours, in ticks
  Retention,  \* days that predictions are kept, 0 for ever
  Asked,      \* what the parameter days of a request may say (bound)
  Verdicts,   \* what a forecast may say (bound)
  MaxPolls,   \* forecasts (bound)
  Steps,      \* ticks that may pass at once (bound)
  MaxTime,    \* ticks (bound)
  MaxFaults   \* failed writes, panics, and ends of the process (bound)

Sensors  == 1..N
States   == {"healthy", "warning", "critical"}
Horizons == {"aggressive", "conservative"}   \* the two ETAs; there is none without growth
Gauges   == Horizons \cup {"ratio"}

ASSUME ConstantsOK ==
  /\ N \in Nat \ {0} /\ Day \in Nat \ {0} /\ Retention \in Nat /\ Asked \subseteq Int
  /\ Verdicts \subseteq States \X SUBSET Horizons
  /\ Steps \subseteq Nat
  /\ MaxPolls \in Nat /\ MaxTime \in Nat /\ MaxFaults \in Nat

Forecasts == [poll : Nat, at : Nat, state : States, etas : SUBSET Horizons]
None      == [poll |-> 0, at |-> 0, state |-> "healthy", etas |-> {}]   \* no row, or no prediction

Kinds == {"gate", "detail", "accuracy", "index"}

VARIABLES
  now,       \* the time
  polls,     \* forecasts so far: each one has its number
  poller,    \* where the round is, and the forecast in hand
  rows,      \* table sensor_state
  preds,     \* table predictions: a set of forecasts for each sensor
  gauges,    \* d.metrics: the forecasts in the gauges of the ETAs and of the utilization
  scraping,  \* renderText iterates over the map
  request,   \* a request to the API: its handler's step and what it has read
  reply,     \* the last answer, as its reader sees it
  lost,      \* history: forecasts whose prediction could not be written
  cut,       \* history: predictions from before that were deleted
  seen,      \* history: the rows of each sensor since the request for all of them
  faults     \* bound

tables  == <<rows, preds>>
metrics == <<gauges, scraping>>
asking  == <<request, reply>>
history == <<lost, cut, seen>>
vars == <<now, polls, poller, tables, metrics, asking, history, faults>>

At(step)        == poller.step = step
Goto(step)      == poller' = [poller EXCEPT !.step = step]
Up              == ~At("down")
Handling(step)  == Up /\ request.step = step
Collecting      == request.step \in {"list", "tally"}

Asleep   == [step |-> "asleep", sensor |-> 1, f |-> None]
Down     == [step |-> "down", sensor |-> 1, f |-> None]
NoGauges == [s \in Sensors |-> [g \in Gauges |-> None]]
NoReply  == [kind |-> "none"]
Quiet    == [step |-> "idle", kind |-> "index", sensor |-> 1, horizon |-> 0, since |-> 0,
             read |-> [s \in Sensors |-> None], unread |-> {}]

Init ==
  /\ now = 0 /\ polls = 0 /\ poller = Asleep
  /\ rows = [s \in Sensors |-> None] /\ preds = [s \in Sensors |-> {}]
  /\ gauges = NoGauges /\ scraping = FALSE
  /\ request = Quiet /\ reply = NoReply
  /\ lost = {} /\ cut = 0 /\ seen = [s \in Sensors |-> {}]
  /\ faults = 0

Tick(ticks) ==
  /\ now + ticks <= MaxTime
  /\ now' = now + ticks
  /\ UNCHANGED <<polls, poller, tables, metrics, asking, history, faults>>

-----------------------------------------------------------------------------
(* runOnePoll, sensor by sensor.                                           *)

(* Mutant: the row comes first.                                            *)
RowFirst == [poll |-> "state", state |-> "predict", predict |-> "notify", notify |-> "aggressive",
             aggressive |-> "conservative", conservative |-> "ratio"]

After == [poll |-> "predict", predict |-> "notify", notify |-> "state", state |-> "aggressive",
          aggressive |-> "conservative", conservative |-> "ratio"]

NextSensor ==
  poller' = IF poller.sensor = N THEN Asleep
            ELSE [step |-> "poll", sensor |-> poller.sensor + 1, f |-> None]

Wake ==
  /\ At("asleep") /\ Goto("poll")
  /\ UNCHANGED <<now, polls, tables, metrics, asking, history, faults>>

Poll(verdict) ==
  /\ At("poll") /\ polls < MaxPolls
  /\ polls' = polls + 1
  /\ poller' = [step |-> After.poll, sensor |-> poller.sensor,
                f |-> [poll |-> polls + 1, at |-> now, state |-> verdict[1], etas |-> verdict[2]]]
  /\ UNCHANGED <<now, tables, metrics, asking, history, faults>>

(* No forecast without an answer from Prometheus.                          *)
PollFails ==
  /\ At("poll") /\ NextSensor
  /\ UNCHANGED <<now, polls, tables, metrics, asking, history, faults>>

(* AppendPrediction; an error is logged.                                   *)
Predict(ok) ==
  /\ At("predict")
  /\ IF ok
     THEN preds' = [preds EXCEPT ![poller.sensor] = @ \cup {poller.f}] /\ UNCHANGED <<lost, faults>>
     ELSE /\ faults < MaxFaults /\ faults' = faults + 1
          /\ lost' = lost \cup {poller.f.poll} /\ UNCHANGED preds
  /\ Goto(After.predict)
  /\ UNCHANGED <<now, polls, rows, metrics, asking, cut, seen>>

(* AlertManager, triage and Telegram, however long they take.              *)
Notify ==
  /\ At("notify") /\ Goto(After.notify)
  /\ UNCHANGED <<now, polls, tables, metrics, asking, history, faults>>

SetState(ok) ==
  /\ At("state")
  /\ IF ok
     THEN /\ rows' = [rows EXCEPT ![poller.sensor] = poller.f]
          /\ seen' = IF ~Collecting THEN seen ELSE [seen EXCEPT ![poller.sensor] = @ \cup {poller.f}]
          /\ UNCHANGED faults
     ELSE faults < MaxFaults /\ faults' = faults + 1 /\ UNCHANGED <<rows, seen>>
  /\ Goto(After.state)
  /\ UNCHANGED <<now, polls, preds, metrics, asking, lost, cut>>

(* One gauge after the other.  That of an ETA is set when there is one,    *)
(* and stays when there is none.                                           *)
Sets(g) == At(g) /\ (g = "ratio" \/ g \in poller.f.etas)

SetGauge(g) ==
  /\ At(g)
  /\ gauges' = IF Sets(g) THEN [gauges EXCEPT ![poller.sensor][g] = poller.f] ELSE gauges
  /\ IF g = "ratio" THEN NextSensor ELSE Goto(After[g])
  /\ UNCHANGED <<now, polls, tables, scraping, asking, history, faults>>

(* A panic in the middle of a sensor's turn is recovered from, the rest of *)
(* its turn is left out.                                                   *)
Panic ==
  /\ poller.step \in {"predict", "notify", "state"} /\ faults < MaxFaults
  /\ NextSensor
  /\ faults' = faults + 1
  /\ UNCHANGED <<now, polls, tables, metrics, asking, history>>

(* maybePrunePredictions, between two rounds.  That it deletes once a day   *)
(* only is a matter of DaemonLoop; here it may delete at any time.         *)
Prune ==
  /\ At("asleep") /\ Retention > 0
  /\ LET cutoff == now - Retention * Day IN
     /\ cutoff > cut /\ cut' = cutoff
     /\ preds' = [s \in Sensors |-> {p \in preds[s] : p.at >= cutoff}]
  /\ UNCHANGED <<now, polls, poller, rows, metrics, asking, lost, seen, faults>>

-----------------------------------------------------------------------------
(* The process ends when it is killed, or by the runtime, which notices a  *)
(* Set during an iteration over the same map, more often than not.  A      *)
(* request that is being handled gets no answer.                           *)
Die ==
  /\ poller' = Down
  /\ gauges' = NoGauges /\ scraping' = FALSE
  /\ request' = Quiet
  /\ reply' = IF request.step = "idle" THEN reply ELSE [kind |-> request.kind, code |-> 502]
  /\ UNCHANGED <<now, polls, tables, history>>

Kill     == Up /\ faults < MaxFaults /\ faults' = faults + 1 /\ Die
MapFatal ==
  /\ At("notify") \/ \E g \in Gauges : Sets(g)
  /\ scraping /\ faults < MaxFaults /\ faults' = faults + 1 /\ Die

Restart ==
  /\ At("down") /\ poller' = Asleep
  /\ UNCHANGED <<now, polls, tables, metrics, asking, history, faults>>

(* serveMetrics; the iteration takes no lock.                              *)
Scrape ==
  /\ Up /\ scraping' = ~scraping
  /\ UNCHANGED <<now, polls, poller, tables, gauges, asking, history, faults>>

-----------------------------------------------------------------------------
(* The handlers.  Each query may fail.  Those of the index and of the      *)
(* accuracy page go through the sensors one by one, the others read the    *)
(* row of one sensor and then its predictions.                             *)

(* How far back the predictions are asked for; days is what the request    *)
(* for the details of a sensor says.                                       *)
Horizon(kind, days) ==
  CASE kind = "gate"     -> Day
    [] kind = "accuracy" -> 7 * Day
    [] kind = "detail"   -> (IF days \in 1..365 THEN days ELSE 30) * Day
    [] OTHER             -> 0

Ask(kind, s, days) ==
  /\ Handling("idle")
  /\ request' = [Quiet EXCEPT !.step    = CASE kind = "index" -> "list" [] kind = "accuracy" -> "tally"
                                            [] OTHER -> "row",
                              !.kind    = kind,
                              !.sensor  = s,
                              !.horizon = Horizon(kind, days),
                              !.since   = IF kind = "accuracy" THEN now - Horizon(kind, days) ELSE 0]
  /\ reply' = NoReply
  /\ seen' = [t \in Sensors |-> IF kind \in {"index", "accuracy"} THEN {rows[t]} ELSE {}]
  /\ UNCHANGED <<now, polls, poller, tables, metrics, lost, cut, faults>>

Answer(r) == reply' = r /\ request' = Quiet

(* A query about the sensor at hand is answered, or fails.                 *)
Got(ok, f) == [request.read EXCEPT ![request.sensor] = IF ok THEN f ELSE None]
Missed(ok) == IF ok THEN request.unread ELSE request.unread \cup {request.sensor}

(* stateIcon.                                                              *)
Icon(state) == CASE state = "warning" -> "warning" [] state = "critical" -> "critical" [] OTHER -> "fine"

(* Mutant: one case forgotten.                                             *)
PageWithoutCritical(read) ==
  [s \in {t \in Sensors : read[t] # None} |-> IF read[s].state = "warning" THEN "warning" ELSE "fine"]

(* handleIndex: a line for each sensor with a row.                         *)
IndexPage(read) == [s \in {t \in Sensors : read[t] # None} |-> Icon(read[s].state)]

(* statusJSON through eachState: a sensor whose row cannot be read is left *)
(* out.                                                                    *)
List(ok) ==
  /\ Handling("list")
  /\ LET read == Got(ok, rows[request.sensor]) IN
     IF request.sensor = N
     THEN Answer([kind |-> "index", code |-> 200, page |-> IndexPage(read), unread |-> Missed(ok)])
     ELSE /\ request' = [request EXCEPT !.read = read, !.unread = Missed(ok), !.sensor = @ + 1]
          /\ UNCHANGED reply
  /\ UNCHANGED <<now, polls, poller, tables, metrics, history, faults>>

(* ListPredictions: the last of those since then, in the order of time.    *)
Since(s, t)      == {p \in preds[s] : p.at >= t}
IsLast(p, list)  == IF list = {} THEN p = None ELSE p \in list /\ \A q \in list : q.poll <= p.poll

(* accuracyJSON: a sensor whose predictions cannot be read is left out.    *)
Tally(ok, p) ==
  /\ Handling("tally") /\ IsLast(p, Since(request.sensor, request.since))
  /\ LET read == Got(ok, p) IN
     IF request.sensor = N
     THEN Answer([kind |-> "accuracy", code |-> 200, last |-> read, since |-> request.since,
                  unread |-> Missed(ok)])
     ELSE /\ request' = [request EXCEPT !.read = read, !.unread = Missed(ok), !.sensor = @ + 1]
          /\ UNCHANGED reply
  /\ UNCHANGED <<now, polls, poller, tables, metrics, history, faults>>

(* budgetStatusJSON, sloDetail: first the row.                             *)
ReadRow(ok) ==
  /\ Handling("row")
  /\ LET row == rows[request.sensor] IN
     CASE ~ok -> Answer([kind |-> request.kind, code |-> 500])
       [] ok /\ row = None /\ request.kind = "gate" -> Answer([kind |-> "gate", code |-> 404])
       [] OTHER -> request' = [request EXCEPT !.step = "preds", !.read = Got(ok, row)] /\ UNCHANGED reply
  /\ UNCHANGED <<now, polls, poller, tables, metrics, history, faults>>

(* Then the predictions.  The gate's handler answers without an ETA when   *)
(* it cannot read them.                                                    *)
ReadPreds(ok, p) ==
  /\ Handling("preds")
  /\ LET s == request.sensor
         since == now - request.horizon
     IN
     /\ IsLast(p, Since(s, since))
     /\ Answer(IF ~ok /\ request.kind = "detail" THEN [kind |-> "detail", code |-> 500]
               ELSE [kind |-> request.kind, code |-> 200, sensor |-> s, row |-> request.read[s],
                     last |-> IF ok THEN p ELSE None, since |-> since, unread |-> Missed(ok)])
  /\ UNCHANGED <<now, polls, poller, tables, metrics, history, faults>>

(* fetchJSON and the gate's curl wait five seconds.  To their readers every *)
(* failure is the same: a page says 502, the gate lets the deployment go.  *)
TooSlow ==
  /\ Up /\ request.step # "idle"
  /\ Answer([kind |-> request.kind, code |-> 502])
  /\ UNCHANGED <<now, polls, poller, tables, metrics, history, faults>>

Round ==
  \/ Wake \/ PollFails \/ Notify \/ Panic \/ Prune
  \/ \E verdict \in Verdicts : Poll(verdict)
  \/ \E ok \in BOOLEAN : Predict(ok) \/ SetState(ok)
  \/ \E g \in Gauges : SetGauge(g)

Handler ==
  \/ \E kind \in {"index", "accuracy"} : Ask(kind, 1, 0)
  \/ \E s \in Sensors : Ask("gate", s, 0) \/ \E days \in Asked : Ask("detail", s, days)
  \/ \E ok \in BOOLEAN : List(ok) \/ ReadRow(ok)
  \/ \E ok \in BOOLEAN, p \in (UNION {preds[s] : s \in Sensors}) \cup {None} : Tally(ok, p) \/ ReadPreds(ok, p)
  \/ TooSlow

Next == (\E ticks \in Steps : Tick(ticks)) \/ Round \/ Kill \/ MapFatal \/ Restart \/ Scrape \/ Handler
Spec == Init /\ [][Next]_vars

-----------------------------------------------------------------------------
(* Properties.                                                             *)

Replies ==
  {NoReply}
    \cup [kind : Kinds, code : {404, 500, 502}]
    \cup [kind : {"index"}, code : {200}, page : UNION {[S -> States \cup {"fine"}] : S \in SUBSET Sensors},
          unread : SUBSET Sensors]
    \cup [kind : {"accuracy"}, code : {200}, last : [Sensors -> Forecasts], since : Int, unread : SUBSET Sensors]
    \cup [kind : {"gate", "detail"}, code : {200}, sensor : Sensors, row : Forecasts, last : Forecasts,
          since : Int, unread : SUBSET Sensors]

TypeOK ==
  /\ now \in Nat /\ polls \in Nat /\ faults \in Nat
  /\ poller \in [step : {"asleep", "poll", "predict", "notify", "state", "down"} \cup Gauges,
                 sensor : Sensors, f : Forecasts]
  /\ rows \in [Sensors -> Forecasts] /\ preds \in [Sensors -> SUBSET Forecasts]
  /\ gauges \in [Sensors -> [Gauges -> Forecasts]] /\ scraping \in BOOLEAN
  /\ request \in [step : {"idle", "row", "preds", "list", "tally"}, kind : Kinds, sensor : Sensors,
                  horizon : Int, since : Int, read : [Sensors -> Forecasts], unread : SUBSET Sensors]
  /\ reply \in Replies
  /\ lost \in SUBSET Nat /\ cut \in Nat /\ seen \in [Sensors -> SUBSET Forecasts]

(* Nothing is numbered or dated ahead, and what is numbered higher is      *)
(* dated no earlier: the last prediction by time is the last forecast.     *)
InOrder ==
  \A s \in Sensors : \A p \in preds[s] :
    /\ p.poll \in 1..polls /\ p.at <= now
    /\ \A q \in preds[s] : p.poll < q.poll => p.at <= q.at

(* A row, the copy of it that a handler holds, and the forecast on its way *)
(* into one have their prediction in the table, unless it could not be     *)
(* written or was deleted for its age.                                     *)
Predicted(s, f) == f = None \/ f \in preds[s] \/ f.poll \in lost \/ f.at < cut

RowsPredicted ==
  /\ \A s \in Sensors : Predicted(s, rows[s])
  /\ request.step = "preds" => Predicted(request.sensor, request.read[request.sensor])
  /\ poller.step \in {"notify", "state"} \cup Gauges => Predicted(poller.sensor, poller.f)

(* No gauge is ahead of the forecasts there were.  The gauges of the ETAs  *)
(* trail that of the utilization, except between the calls that set them,  *)
(* where one may hold the forecast in hand already.                        *)
GaugesTrail ==
  \A s \in Sensors :
    /\ \A g \in Gauges : gauges[s][g].poll <= polls
    /\ \A h \in Horizons :
         \/ gauges[s][h].poll <= gauges[s].ratio.poll
         \/ /\ poller.sensor = s /\ gauges[s][h] = poller.f
            /\ poller.step = "ratio" \/ (poller.step = "conservative" /\ h = "aggressive")

(* From its poll on, the forecast in hand is the newest there is; until    *)
(* its prediction is written, none in the table is dated later.            *)
InHand ==
  /\ poller.step \in {"predict", "notify", "state"} \cup Gauges =>
       poller.f.poll = polls /\ polls > 0 /\ poller.f.at <= now
  /\ poller.step = "predict" => \A s \in Sensors : \A p \in preds[s] : p.at <= poller.f.at

(* A prediction that was read, f, is not older than asked, and not that of *)
(* an earlier forecast than the row, unless the row's own could not be     *)
(* written, is older than asked, or was deleted.                           *)
NotBehind(f, row, since) ==
  /\ f # None => f.at >= since
  /\ f.poll >= row.poll \/ row.poll \in lost \/ row.at < since \/ row.at < cut

(* While a request for all sensors is under way, what the tables say now   *)
(* is among what they said since then, and so is what the index has copied *)
(* of them so far; what the accuracy page has copied is not behind it.     *)
CopiesSeen ==
  /\ Collecting => \A s \in Sensors : rows[s] \in seen[s]
  /\ request.step = "list" =>
       \A s \in 1..(request.sensor - 1) :
         request.read[s] \in seen[s] \/ (s \in request.unread /\ request.read[s] = None)
  /\ request.step = "tally" =>
       \A s \in 1..(request.sensor - 1) :
         s \in request.unread \/ \E row \in seen[s] : NotBehind(request.read[s], row, request.since)
  /\ request.step \in {"row", "preds"} => request.kind \in {"gate", "detail"}

IInv == TypeOK /\ InOrder /\ RowsPredicted /\ GaugesTrail /\ InHand /\ CopiesSeen

(* The state and the ETA that one answer combines are read one after the   *)
(* other while polls go on, and each is written on its own; all the same   *)
(* the ETA is never that of an earlier forecast than the state, nor older  *)
(* than was asked.  It is missing, or earlier, only if the query for it    *)
(* failed (the gate says null then), or if the prediction of that very     *)
(* forecast could not be written, is older than asked, or was deleted by   *)
(* the retention.  A sensor's ETA on the accuracy page is so with respect  *)
(* to some row the sensor had since the request.                           *)
AnswersAgree ==
  /\ reply.kind \in {"gate", "detail"} /\ reply.code = 200 =>
       reply.sensor \in reply.unread \/ NotBehind(reply.last, reply.row, reply.since)
  /\ reply.kind = "accuracy" /\ reply.code = 200 =>
       \A s \in Sensors \ reply.unread : \E row \in seen[s] : NotBehind(reply.last[s], row, reply.since)

(* A line of the index shows what its sensor's row said at some time       *)
(* between the request and the answer, whatever the poll round wrote in    *)
(* the meantime, and shows it as fine only if it was healthy; a sensor     *)
(* without a line had no row, or its row could not be read.                *)
PageIsTrue ==
  reply.kind = "index" /\ reply.code = 200 =>
    \A s \in Sensors :
      IF s \in DOMAIN reply.page
      THEN \E row \in seen[s] : row # None /\ (reply.page[s] = "fine" <=> row.state = "healthy")
      ELSE None \in seen[s] \/ s \in reply.unread

=============================================================================
