---------------------------- MODULE ReadApiProofs ----------------------------
(***************************************************************************)
(* Proofs about ReadApi, for any number of sensors and polls: an answer    *)
(* never combines a state with the ETA of an earlier forecast.             *)
(***************************************************************************)
EXTENDS ReadApi, TLAPS

LEMMA NoneIsAForecast == None \in Forecasts /\ None.poll = 0
BY DEF None, Forecasts, States

LEMMA SensorsThere == 1 \in Sensors /\ \A s \in Sensors : s # N => s + 1 \in Sensors
BY ConstantsOK DEF Sensors

Requests == [step : {"idle", "row", "preds", "list", "tally"}, kind : Kinds, sensor : Sensors,
             horizon : Int, since : Int, read : [Sensors -> Forecasts], unread : SUBSET Sensors]
Pollers  == [step : {"asleep", "poll", "predict", "notify", "state", "down"} \cup Gauges,
             sensor : Sensors, f : Forecasts]

(* What the process starts with, and what is left when it ends.            *)
LEMMA Defaults ==
  /\ Quiet \in Requests /\ Asleep \in Pollers /\ Down \in Pollers
  /\ NoGauges \in [Sensors -> [Gauges -> Forecasts]]
BY NoneIsAForecast, SensorsThere DEF Quiet, Asleep, Down, NoGauges, Requests, Pollers, Kinds

(* The page of the index is one that the type knows.                       *)
LEMMA PageType ==
  ASSUME NEW read \in [Sensors -> Forecasts], NEW unread \in SUBSET Sensors
  PROVE  [kind |-> "index", code |-> 200, page |-> IndexPage(read), unread |-> unread] \in Replies
<1> DEFINE S == {t \in Sensors : read[t] # None}
<1>1. IndexPage(read) \in [S -> States \cup {"fine"}]
  BY DEF IndexPage, Icon, States
<1>2. S \in SUBSET Sensors
  OBVIOUS
<1> QED
  BY <1>1, <1>2 DEF Replies

-----------------------------------------------------------------------------
LEMMA InitHolds == Init => IInv /\ AnswersAgree /\ PageIsTrue
<1> SUFFICES ASSUME Init PROVE IInv /\ AnswersAgree /\ PageIsTrue
  OBVIOUS
<1>1. TypeOK
  <2>1. NoReply \in Replies
    BY DEF Replies
  <2>2. request \in Requests /\ poller \in Pollers /\ gauges \in [Sensors -> [Gauges -> Forecasts]]
    BY Defaults DEF Init
  <2> QED
    BY <2>1, <2>2, NoneIsAForecast DEF Init, TypeOK, Requests, Pollers
<1>2. InOrder /\ RowsPredicted /\ InHand /\ CopiesSeen
  BY NoneIsAForecast DEF Init, InOrder, RowsPredicted, Predicted, InHand, Asleep, Quiet, CopiesSeen, Collecting,
                         Gauges, Horizons
<1>3. GaugesTrail
  BY NoneIsAForecast DEF Init, GaugesTrail, NoGauges, Gauges, Horizons
<1>4. AnswersAgree /\ PageIsTrue
  BY DEF Init, AnswersAgree, PageIsTrue, NoReply
<1> QED
  BY <1>1, <1>2, <1>3, <1>4 DEF IInv

LEMMA NextSensorType ==
  ASSUME poller.sensor \in Sensors, NextSensor
  PROVE  /\ poller' \in [step : {"asleep", "poll"}, sensor : Sensors, f : {None}]
BY SensorsThere DEF NextSensor, Asleep

(* The last prediction of a list is one of the table.                      *)
LEMMA LastIsAForecast ==
  ASSUME TypeOK, NEW s \in Sensors, NEW t, NEW p, IsLast(p, Since(s, t))
  PROVE  p \in preds[s] \cup {None} /\ p \in Forecasts
BY NoneIsAForecast DEF IsLast, Since, TypeOK

(* What the requests ask for.                                              *)
LEMMA AsksType ==
  /\ {"index", "accuracy", "gate", "detail"} = Kinds /\ 1 \in Sensors /\ 0 \in Int /\ Asked \subseteq Int
BY SensorsThere, ConstantsOK DEF Kinds

LEMMA TypeStep == TypeOK /\ CopiesSeen /\ [Next]_vars => TypeOK'
<1> SUFFICES ASSUME TypeOK, CopiesSeen, [Next]_vars PROVE TypeOK'
  OBVIOUS
<1> USE NoneIsAForecast, SensorsThere
<1>1. ASSUME NEW ticks \in Steps, Tick(ticks) PROVE TypeOK'
  BY <1>1, ConstantsOK DEF Tick, TypeOK, tables, metrics, asking, history
<1>2. CASE Wake \/ Notify
  BY <1>2 DEF Wake, Notify, Goto, After, TypeOK, tables, metrics, asking, history
<1>3. CASE PollFails
  BY <1>3, NextSensorType DEF PollFails, TypeOK, tables, metrics, asking, history
<1>4. ASSUME NEW verdict \in Verdicts, Poll(verdict) PROVE TypeOK'
  <2>1. verdict[1] \in States /\ verdict[2] \in SUBSET Horizons
    BY ConstantsOK
  <2>2. poller'.f \in Forecasts
    BY <1>4, <2>1 DEF Poll, Forecasts, TypeOK
  <2>3. poller' \in [step : {"predict"}, sensor : Sensors, f : Forecasts]
    BY <1>4, <2>2 DEF Poll, After, TypeOK
  <2> QED
    BY <1>4, <2>3 DEF Poll, TypeOK, tables, metrics, asking, history
<1>5. ASSUME NEW ok \in BOOLEAN, Predict(ok) PROVE TypeOK'
  <2>1. poller.f.poll \in Nat
    BY DEF TypeOK, Forecasts
  <2>2. poller.sensor \in Sensors /\ poller.f \in Forecasts
    BY DEF TypeOK
  <2>3. CASE ok
    <3>1. preds' = [preds EXCEPT ![poller.sensor] = @ \cup {poller.f}] /\ lost' = lost /\ faults' = faults
      BY <1>5, <2>3 DEF Predict
    <3> QED
      BY <1>5, <2>2, <3>1 DEF Predict, Goto, After, TypeOK, metrics, asking
  <2>4. CASE ~ok
    <3>1. preds' = preds /\ lost' = lost \cup {poller.f.poll} /\ faults' = faults + 1
      BY <1>5, <2>4 DEF Predict
    <3> QED
      BY <1>5, <2>1, <3>1 DEF Predict, Goto, After, TypeOK, metrics, asking
  <2> QED
    BY <2>3, <2>4
<1>6. ASSUME NEW ok \in BOOLEAN, SetState(ok) PROVE TypeOK'
  <2>1. rows' \in [Sensors -> Forecasts] /\ seen' \in [Sensors -> SUBSET Forecasts] /\ faults' \in Nat
    <3>1. poller.sensor \in Sensors /\ poller.f \in Forecasts
      BY DEF TypeOK
    <3>2. CASE ok
      <4>1. /\ rows' = [rows EXCEPT ![poller.sensor] = poller.f] /\ faults' = faults
            /\ seen' = seen \/ seen' = [seen EXCEPT ![poller.sensor] = @ \cup {poller.f}]
        BY <1>6, <3>2 DEF SetState
      <4> QED
        BY <3>1, <4>1 DEF TypeOK
    <3>3. CASE ~ok
      BY <1>6, <3>3 DEF SetState, TypeOK
    <3> QED
      BY <3>2, <3>3
  <2> QED
    BY <1>6, <2>1 DEF SetState, Goto, After, TypeOK, metrics, asking, Gauges, Horizons
<1>7. ASSUME NEW g \in Gauges, SetGauge(g) PROVE TypeOK'
  <2>1. poller.sensor \in Sensors /\ poller.f \in Forecasts
    BY DEF TypeOK
  <2>2. gauges' \in [Sensors -> [Gauges -> Forecasts]]
    <3>1. gauges' = gauges \/ gauges' = [gauges EXCEPT ![poller.sensor][g] = poller.f]
      BY <1>7 DEF SetGauge
    <3>2. CASE gauges' = gauges
      BY <3>2 DEF TypeOK
    <3>3. CASE gauges' = [gauges EXCEPT ![poller.sensor][g] = poller.f]
      <4>1. gauges[poller.sensor] \in [Gauges -> Forecasts]
        BY <2>1 DEF TypeOK
      <4>2. [gauges[poller.sensor] EXCEPT ![g] = poller.f] \in [Gauges -> Forecasts]
        BY <1>7, <2>1, <4>1
      <4>3. PICK new \in [Gauges -> Forecasts] : new = [gauges[poller.sensor] EXCEPT ![g] = poller.f]
        BY <4>2
      <4>4. gauges' = [gauges EXCEPT ![poller.sensor] = new]
        BY <3>3, <4>3
      <4> QED
        BY <2>1, <4>4 DEF TypeOK
    <3> QED
      BY <3>1, <3>2, <3>3
  <2>3. poller' \in Pollers
    <3>1. CASE g = "ratio"
      BY <1>7, <2>1, <3>1, NextSensorType DEF SetGauge, Pollers
    <3>2. CASE g # "ratio"
      BY <1>7, <2>1, <3>2 DEF SetGauge, Goto, After, Pollers, TypeOK, Gauges, Horizons
    <3> QED
      BY <3>1, <3>2
  <2> QED
    BY <1>7, <2>2, <2>3 DEF SetGauge, Pollers, TypeOK, tables, asking, history
<1>8. CASE Panic
  BY <1>8, NextSensorType DEF Panic, TypeOK, tables, metrics, asking, history
<1>9. ASSUME Die, faults' = faults + 1 PROVE TypeOK'
  <2>1. reply' \in Replies
    BY <1>9 DEF Die, Replies, TypeOK
  <2> QED
    <3>1. poller' \in Pollers /\ request' \in Requests
          /\ gauges' \in [Sensors -> [Gauges -> Forecasts]]
      BY <1>9, Defaults DEF Die
    <3>2. UNCHANGED <<now, polls, rows, preds, lost, cut, seen>> /\ scraping' = FALSE
      BY <1>9 DEF Die, tables, history
    <3>3. faults' \in Nat
      BY <1>9 DEF TypeOK
    <3> QED
      BY <2>1, <3>1, <3>2, <3>3 DEF Requests, Pollers, TypeOK
<1>10. CASE Restart
  BY <1>10 DEF Restart, Asleep, TypeOK, tables, metrics, asking, history
<1>11. CASE Scrape
  BY <1>11 DEF Scrape, TypeOK, tables, asking, history
<1>12. ASSUME NEW kind \in Kinds, NEW s \in Sensors, NEW days \in Int, Ask(kind, s, days) PROVE TypeOK'
  <2>1. Horizon(kind, days) \in Int /\ now \in Int
    BY ConstantsOK DEF Horizon, TypeOK
  <2>2. request' \in Requests
    <3>1. \A h \in Int : (IF kind = "accuracy" THEN now - h ELSE 0) \in Int
      BY <2>1
    <3>2. PICK h \in Int : h = Horizon(kind, days)
      BY <2>1
    <3> QED
      BY <1>12, <3>1, <3>2, Defaults DEF Ask, Requests
  <2>3. seen' \in [Sensors -> SUBSET Forecasts] /\ reply' \in Replies
    BY <1>12 DEF Ask, TypeOK, Replies
  <2> QED
    BY <1>12, <2>2, <2>3 DEF Ask, Requests, TypeOK, tables, metrics
<1>13. ASSUME NEW ok \in BOOLEAN, List(ok) PROVE TypeOK'
  <2> DEFINE read == Got(ok, rows[request.sensor])
  <2>1. read \in [Sensors -> Forecasts] /\ Missed(ok) \in SUBSET Sensors
    BY DEF TypeOK, Got, Missed
  <2>2. CASE request.sensor = N
    <3>1. reply' \in Replies /\ request' = Quiet
      BY <1>13, <2>1, <2>2, PageType DEF List, Answer
    <3> QED
      BY <1>13, <3>1, Defaults DEF List, Requests, TypeOK, tables, metrics, history
  <2>3. CASE request.sensor # N
    <3>1. request' = [request EXCEPT !.read = read, !.unread = Missed(ok), !.sensor = @ + 1] /\ reply' = reply
      BY <1>13, <2>3 DEF List
    <3>2. request' \in Requests
      BY <2>1, <2>3, <3>1 DEF TypeOK, Requests
    <3> QED
      BY <1>13, <3>1, <3>2 DEF List, Requests, TypeOK, tables, metrics, history
  <2> QED
    BY <2>2, <2>3
<1>14. ASSUME NEW ok \in BOOLEAN, ReadRow(ok) PROVE TypeOK'
  <2>0. request \in Requests /\ request.kind \in Kinds /\ request.sensor \in Sensors
    BY DEF TypeOK, Requests
  <2>1. reply' = reply \/ reply' \in [kind : Kinds, code : {404, 500}]
    BY <1>14, <2>0 DEF ReadRow, Answer, Kinds
  <2>2. reply' \in Replies
    BY <2>1 DEF Replies, TypeOK
  <2>3. Got(ok, rows[request.sensor]) \in [Sensors -> Forecasts]
    BY DEF TypeOK, Got
  <2>4. request' \in Requests
    <3>1. request' = Quiet \/ request' = [request EXCEPT !.step = "preds", !.read = Got(ok, rows[request.sensor])]
      BY <1>14 DEF ReadRow, Answer
    <3> QED
      BY <2>0, <2>3, <3>1, Defaults DEF Requests
  <2> QED
    BY <1>14, <2>2, <2>4 DEF ReadRow, Requests, TypeOK, tables, metrics, history
<1>15. ASSUME NEW ok \in BOOLEAN, NEW p, ReadPreds(ok, p), CopiesSeen PROVE TypeOK'
  <2>0. /\ request.kind \in {"gate", "detail"} /\ request.sensor \in Sensors /\ request.horizon \in Int /\ now \in Nat
        /\ request.read[request.sensor] \in Forecasts /\ Missed(ok) \in SUBSET Sensors
    BY <1>15 DEF TypeOK, CopiesSeen, ReadPreds, Handling, Missed
  <2>1. p \in Forecasts
    BY <1>15, <2>0, LastIsAForecast DEF ReadPreds
  <2>2. reply' \in Replies
    <3>1. PICK q \in Forecasts : q = IF ok THEN p ELSE None
      BY <2>1
    <3>2. PICK t \in Int : t = now - request.horizon
      BY <2>0
    <3>3. CASE ~ok /\ request.kind = "detail"
      BY <1>15, <3>3 DEF ReadPreds, Answer, Replies, Kinds
    <3>4. CASE ~(~ok /\ request.kind = "detail")
      <4>1. reply' = [kind |-> request.kind, code |-> 200, sensor |-> request.sensor,
                      row |-> request.read[request.sensor], last |-> q, since |-> t, unread |-> Missed(ok)]
        BY <1>15, <3>1, <3>2, <3>4 DEF ReadPreds, Answer
      <4>2. reply' \in [kind : {"gate", "detail"}, code : {200}, sensor : Sensors, row : Forecasts, last : Forecasts,
                        since : Int, unread : SUBSET Sensors]
        BY <2>0, <4>1
      <4> QED
        BY <4>2 DEF Replies
    <3> QED
      BY <3>3, <3>4
  <2> QED
    BY <1>15, <2>2, Defaults DEF ReadPreds, Answer, Requests, TypeOK, tables, metrics, history
<1>18. ASSUME NEW ok \in BOOLEAN, NEW p, Tally(ok, p) PROVE TypeOK'
  <2>0. request \in Requests /\ request.since \in Int /\ request.sensor \in Sensors
    BY DEF TypeOK, Requests
  <2>1. p \in Forecasts
    BY <1>18, <2>0, LastIsAForecast DEF Tally
  <2>2. Got(ok, p) \in [Sensors -> Forecasts] /\ Missed(ok) \in SUBSET Sensors
    BY <2>1 DEF TypeOK, Got, Missed
  <2>3. CASE request.sensor = N
    <3>1. /\ request' = Quiet
          /\ reply' = [kind |-> "accuracy", code |-> 200, last |-> Got(ok, p), since |-> request.since,
                       unread |-> Missed(ok)]
      BY <1>18, <2>3 DEF Tally, Answer
    <3>2. reply' \in [kind : {"accuracy"}, code : {200}, last : [Sensors -> Forecasts], since : Int,
                      unread : SUBSET Sensors]
      BY <2>0, <2>2, <3>1
    <3>3. reply' \in Replies
      BY <3>2 DEF Replies
    <3> QED
      BY <1>18, <3>1, <3>3, Defaults DEF Tally, Requests, TypeOK, tables, metrics, history
  <2>4. CASE request.sensor # N
    <3>1. request' = [request EXCEPT !.read = Got(ok, p), !.unread = Missed(ok), !.sensor = @ + 1] /\ reply' = reply
      BY <1>18, <2>4 DEF Tally
    <3>2. request' \in Requests
      BY <2>0, <2>2, <2>4, <3>1 DEF Requests
    <3> QED
      BY <1>18, <3>1, <3>2 DEF Tally, Requests, TypeOK, tables, metrics, history
  <2> QED
    BY <2>3, <2>4
<1>19. CASE Prune
  <2>1. now \in Int /\ cut' = now - Retention * Day /\ cut' > cut /\ cut \in Nat
    BY <1>19 DEF Prune, TypeOK
  <2>2. cut' \in Nat
    BY <2>1, ConstantsOK
  <2>3. preds' \in [Sensors -> SUBSET Forecasts]
    BY <1>19 DEF Prune, TypeOK
  <2> QED
    BY <1>19, <2>2, <2>3 DEF Prune, TypeOK, metrics, asking
<1>16. CASE TooSlow
  <2>1. reply' \in Replies
    BY <1>16 DEF TooSlow, Answer, Replies, TypeOK
  <2> QED
    BY <1>16, <2>1, Defaults DEF TooSlow, Answer, Requests, TypeOK, tables, metrics, history
<1>17. CASE UNCHANGED vars
  BY <1>17 DEF vars, TypeOK, tables, metrics, asking, history
<1> QED
  BY <1>1, <1>2, <1>3, <1>4, <1>5, <1>6, <1>7, <1>8, <1>9, <1>10, <1>11, <1>12, <1>13, <1>14,
     <1>15, <1>16, <1>17, <1>18, <1>19, AsksType DEF Next, Round, Handler, Kill, MapFatal

-----------------------------------------------------------------------------
(* The invariant.                                                          *)

(* What was read, or a row, stays what it is while the history grows.      *)
LEMMA NotBehindStays ==
  ASSUME NEW f, NEW row, NEW since, NotBehind(f, row, since), lost \subseteq lost',
         cut \in Nat, cut' \in Nat, cut <= cut', row.at \in Nat
  PROVE  (f # None => f.at >= since) /\ (f.poll >= row.poll \/ row.poll \in lost' \/ row.at < since \/ row.at < cut')
BY DEF NotBehind

(* The prediction that an answer takes is the last one since then, so one  *)
(* that the handler's row has in the table is not later than it, unless it *)
(* is older than that.                                                     *)
LEMMA LastCovers ==
  ASSUME TypeOK, NEW s \in Sensors, NEW t \in Int, NEW p, IsLast(p, Since(s, t)),
         NEW row \in Forecasts, Predicted(s, row)
  PROVE  NotBehind(p, row, t)
<1>0. p \in preds[s] \cup {None} /\ p \in Forecasts
  BY LastIsAForecast
<1>1. row.at \in Nat /\ row.poll \in Nat /\ p.poll \in Nat
  BY <1>0 DEF Forecasts
<1>2. p # None => p.at >= t
  BY DEF IsLast, Since
<1>3. CASE row = None
  BY <1>1, <1>2, <1>3, NoneIsAForecast DEF NotBehind
<1>4. CASE row \in preds[s] /\ row.at >= t
  <2>1. row \in Since(s, t)
    BY <1>4 DEF Since
  <2>2. row.poll <= p.poll
    BY <2>1 DEF IsLast
  <2> QED
    BY <1>1, <1>2, <2>2 DEF NotBehind
<1>5. CASE row \in preds[s] /\ ~(row.at >= t)
  BY <1>1, <1>2, <1>5 DEF NotBehind
<1>6. CASE row.poll \in lost \/ row.at < cut
  BY <1>2, <1>6 DEF NotBehind
<1> QED
  BY <1>3, <1>4, <1>5, <1>6 DEF Predicted

(* The steps that leave the tables and the forecast in hand alone, or let  *)
(* go of it.                                                               *)
LEMMA CalmStep ==
  ASSUME TypeOK, IInv,
         UNCHANGED <<polls, tables, lost, cut>>, now' \in Nat, now <= now',
         poller' = poller \/ poller'.step \in {"asleep", "poll", "down"},
         gauges' = NoGauges \/ (gauges' = gauges /\ (poller' = poller \/ poller.step \notin {"conservative", "ratio"})),
         request'.step = "preds" =>
           request' = request \/ (request'.sensor \in Sensors /\ request'.read[request'.sensor] = rows[request'.sensor])
  PROVE  (InOrder /\ RowsPredicted /\ GaugesTrail /\ InHand)'
<1>1. InOrder'
  <2>1. \A s \in Sensors : \A p \in preds[s] : p.at \in Nat
    BY DEF TypeOK, Forecasts
  <2>2. preds' = preds /\ polls' = polls /\ now \in Nat
    BY DEF tables, TypeOK
  <2> QED
    BY <2>1, <2>2 DEF IInv, InOrder
<1>2. RowsPredicted'
  <2>1. \A s, f : Predicted(s, f)' <=> (f' = None \/ f' \in preds[s'] \/ f'.poll \in lost \/ f'.at < cut)
    BY DEF Predicted, tables
  <2>2. (\A s \in Sensors : Predicted(s, rows[s]))'
    BY DEF IInv, RowsPredicted, Predicted, tables
  <2>3. (request.step = "preds" => Predicted(request.sensor, request.read[request.sensor]))'
    BY DEF IInv, RowsPredicted, Predicted, tables
  <2>4. (poller.step \in {"notify", "state"} \cup Gauges => Predicted(poller.sensor, poller.f))'
    BY DEF IInv, RowsPredicted, Predicted, tables, Gauges, Horizons
  <2> QED
    BY <2>2, <2>3, <2>4 DEF RowsPredicted
<1>3. GaugesTrail'
  <2>1. polls' = polls /\ polls \in Nat /\ gauges \in [Sensors -> [Gauges -> Forecasts]]
    BY DEF TypeOK
  <2>2. CASE gauges' = NoGauges
    BY <2>1, <2>2, NoneIsAForecast DEF GaugesTrail, NoGauges, Gauges, Horizons
  <2>3. CASE gauges' = gauges /\ poller' = poller
    BY <2>1, <2>3 DEF IInv, GaugesTrail
  <2>4. CASE gauges' = gauges /\ poller.step \notin {"conservative", "ratio"}
    BY <2>1, <2>4 DEF IInv, GaugesTrail
  <2> QED
    BY <2>2, <2>3, <2>4
<1>4. InHand'
  <2>1. CASE poller' = poller
    <3>1. poller.f.at \in Nat /\ now \in Nat
      BY DEF TypeOK, Forecasts
    <3> QED
      BY <2>1, <3>1 DEF IInv, InHand, tables
  <2>2. CASE poller'.step \in {"asleep", "poll", "down"}
    BY <2>2 DEF InHand, Gauges, Horizons
  <2> QED
    BY <2>1, <2>2
<1> QED
  BY <1>1, <1>2, <1>3, <1>4

(* A handler that has gone on to the next sensor has copied one more.      *)
LEMMA OneMore ==
  ASSUME request \in Requests, NEW ok \in BOOLEAN, NEW f, request.sensor # N,
         request' = [request EXCEPT !.read = Got(ok, f), !.unread = Missed(ok), !.sensor = @ + 1]
  PROVE  /\ request'.step = request.step /\ request'.since = request.since
         /\ \A s \in 1..(request'.sensor - 1) :
              \/ s \in 1..(request.sensor - 1) /\ request'.read[s] = request.read[s]
                                               /\ (s \in request.unread => s \in request'.unread)
              \/ s = request.sensor /\ ok /\ request'.read[s] = f
              \/ s = request.sensor /\ s \in request'.unread /\ request'.read[s] = None
<1>1. /\ request'.read = Got(ok, f) /\ request'.unread = Missed(ok) /\ request'.sensor = request.sensor + 1
      /\ request'.step = request.step /\ request'.since = request.since
  BY DEF Requests
<1>2. request.sensor \in Nat /\ 1..request.sensor \subseteq Sensors /\ request.sensor \in Sensors
  BY ConstantsOK DEF Requests, Sensors
<1>3. \A s \in Sensors : Got(ok, f)[s] = IF s = request.sensor THEN (IF ok THEN f ELSE None) ELSE request.read[s]
  BY <1>2 DEF Got, Requests
<1>4. \A s \in request.unread : s \in Missed(ok)
  BY DEF Missed
<1>5. ~ok => request.sensor \in Missed(ok)
  BY DEF Missed
<1>6. \A s \in 1..(request'.sensor - 1) : s \in Sensors /\ (s = request.sensor \/ s \in 1..(request.sensor - 1))
  BY <1>1, <1>2
<1>7. \A s \in 1..(request.sensor - 1) : s # request.sensor
  BY <1>2
<1> QED
  BY <1>1, <1>3, <1>4, <1>5, <1>6, <1>7

(* The same for the last sensor, when the answer is made up.               *)
LEMMA GotLast ==
  ASSUME request \in Requests, NEW ok \in BOOLEAN, NEW f, request.sensor = N
  PROVE  \A s \in Sensors :
           \/ s \in 1..(request.sensor - 1) /\ Got(ok, f)[s] = request.read[s]
                                            /\ (s \in request.unread => s \in Missed(ok))
           \/ s = request.sensor /\ ok /\ Got(ok, f)[s] = f
           \/ s = request.sensor /\ s \in Missed(ok) /\ Got(ok, f)[s] = None
<1>1. N \in Nat /\ Sensors = 1..N
  BY ConstantsOK DEF Sensors
<1>2. \A s \in Sensors : Got(ok, f)[s] = IF s = request.sensor THEN (IF ok THEN f ELSE None) ELSE request.read[s]
  BY DEF Got, Requests
<1>3. \A s \in Sensors : s \in 1..(request.sensor - 1) \/ s = request.sensor
  BY <1>1
<1>4. \A s \in 1..(request.sensor - 1) : s # request.sensor
  BY <1>1
<1> QED
  BY <1>2, <1>3, <1>4 DEF Missed

(* The prediction that the accuracy page takes is not behind the row that  *)
(* its sensor has then.                                                    *)
LEMMA TallyCovers ==
  ASSUME TypeOK, CopiesSeen, RowsPredicted, NEW ok, NEW p, Tally(ok, p)
  PROVE  \E row \in seen[request.sensor] : NotBehind(p, row, request.since)
<1> DEFINE s == request.sensor
<1>1. s \in Sensors /\ request.since \in Int /\ rows[s] \in Forecasts
  BY DEF TypeOK
<1>2. IsLast(p, Since(s, request.since)) /\ rows[s] \in seen[s]
  BY <1>1 DEF Tally, Handling, CopiesSeen, Collecting
<1>3. Predicted(s, rows[s])
  BY <1>1 DEF RowsPredicted
<1> HIDE DEF s
<1>4. PICK row \in Forecasts : row = rows[s]
  BY <1>1
<1>5. NotBehind(p, row, request.since)
  BY <1>1, <1>2, <1>3, <1>4, LastCovers
<1> QED
  BY <1>2, <1>4, <1>5 DEF s

(* The handlers that go through the sensors read one after the other while *)
(* rows are written: each write is recorded before any read can meet it.   *)
LEMMA CopiesStep == IInv /\ TypeOK' /\ [Next]_vars => CopiesSeen'
<1> SUFFICES ASSUME IInv, TypeOK', [Next]_vars PROVE CopiesSeen'
  OBVIOUS
<1>0. /\ TypeOK /\ CopiesSeen /\ RowsPredicted /\ cut \in Nat /\ cut' \in Nat
      /\ poller.sensor \in Sensors /\ request.sensor \in Sensors
      /\ request \in Requests /\ rows \in [Sensors -> Forecasts] /\ seen \in [Sensors -> SUBSET Forecasts]
      /\ 1..(request.sensor - 1) \subseteq Sensors
  BY ConstantsOK DEF IInv, TypeOK, Requests, Sensors
<1>1. ASSUME request' = request, lost \subseteq lost', cut <= cut',
             \A s \in Sensors : seen[s] \subseteq seen'[s],
             Collecting => \A s \in Sensors : rows'[s] = rows[s] \/ rows'[s] \in seen'[s]
      PROVE  CopiesSeen'
  <2>1. (Collecting => \A s \in Sensors : rows[s] \in seen[s])'
    BY <1>0, <1>1 DEF CopiesSeen, Collecting
  <2>2. (request.step = "list" => \A s \in 1..(request.sensor - 1) :
           request.read[s] \in seen[s] \/ (s \in request.unread /\ request.read[s] = None))'
    BY <1>0, <1>1 DEF CopiesSeen
  <2>3. (request.step = "tally" => \A s \in 1..(request.sensor - 1) :
           s \in request.unread \/ \E row \in seen[s] : NotBehind(request.read[s], row, request.since))'
    <3> SUFFICES ASSUME request.step = "tally", NEW s \in 1..(request.sensor - 1), s \notin request.unread
                 PROVE  \E row \in seen'[s] : NotBehind(request.read[s], row, request.since)'
      BY <1>1
    <3>1. PICK row \in seen[s] : NotBehind(request.read[s], row, request.since)
      BY <1>0 DEF CopiesSeen
    <3>2. row.at \in Nat /\ row \in seen'[s]
      BY <1>0, <1>1, <3>1 DEF Forecasts
    <3>3. NotBehind(request.read[s], row, request.since)'
      BY <1>0, <1>1, <3>1, <3>2 DEF NotBehind
    <3> QED
      BY <3>2, <3>3
  <2>4. (request.step \in {"row", "preds"} => request.kind \in {"gate", "detail"})'
    BY <1>0, <1>1 DEF CopiesSeen
  <2> QED
    BY <2>1, <2>2, <2>3, <2>4 DEF CopiesSeen
<1>2. CASE request'.step = "idle"
  BY <1>2 DEF CopiesSeen, Collecting
<1>3. CASE Wake \/ PollFails \/ Notify \/ Panic \/ Restart \/ Scrape \/ UNCHANGED vars
  <2>1. UNCHANGED <<request, rows, lost, cut, seen>>
    BY <1>3 DEF Wake, PollFails, Notify, Panic, Restart, Scrape, vars, tables, asking, history
  <2> QED
    BY <1>0, <1>1, <2>1
<1>4. ASSUME NEW ticks \in Steps, Tick(ticks) PROVE CopiesSeen'
  BY <1>0, <1>1, <1>4 DEF Tick, tables, asking, history
<1>5. ASSUME NEW verdict \in Verdicts, Poll(verdict) PROVE CopiesSeen'
  BY <1>0, <1>1, <1>5 DEF Poll, tables, asking, history
<1>6. ASSUME NEW g \in Gauges, SetGauge(g) PROVE CopiesSeen'
  BY <1>0, <1>1, <1>6 DEF SetGauge, tables, asking, history
<1>7. ASSUME NEW ok \in BOOLEAN, Predict(ok) PROVE CopiesSeen'
  <2>1. UNCHANGED <<request, rows, cut, seen>> /\ lost \subseteq lost'
    BY <1>7 DEF Predict, asking
  <2> QED
    BY <1>0, <1>1, <2>1
<1>8. CASE Prune
  <2>1. UNCHANGED <<request, rows, lost, seen>> /\ cut <= cut'
    BY <1>0, <1>8 DEF Prune, asking
  <2> QED
    BY <1>1, <2>1
<1>9. ASSUME NEW ok \in BOOLEAN, SetState(ok) PROVE CopiesSeen'
  <2>1. UNCHANGED <<request, lost, cut>>
    BY <1>9 DEF SetState, asking
  <2>2. CASE ok /\ Collecting
    <3>1. /\ rows' = [rows EXCEPT ![poller.sensor] = poller.f]
          /\ seen' = [seen EXCEPT ![poller.sensor] = @ \cup {poller.f}]
      BY <1>9, <2>2 DEF SetState
    <3>2. \A s \in Sensors : seen[s] \subseteq seen'[s] /\ (rows'[s] = rows[s] \/ rows'[s] \in seen'[s])
      BY <1>0, <3>1
    <3> QED
      BY <1>0, <1>1, <2>1, <3>2
  <2>3. CASE ok /\ ~Collecting
    BY <1>0, <1>1, <1>9, <2>1, <2>3 DEF SetState
  <2>4. CASE ~ok
    BY <1>0, <1>1, <1>9, <2>1, <2>4 DEF SetState
  <2> QED
    BY <2>2, <2>3, <2>4
<1>10. CASE Kill \/ MapFatal
  BY <1>2, <1>10 DEF Kill, MapFatal, Die, Quiet
<1>11. ASSUME NEW kind \in Kinds, NEW s \in Sensors, NEW days, Ask(kind, s, days),
              kind \in {"index", "accuracy"} => s = 1
       PROVE  CopiesSeen'
  <2>1. /\ rows' = rows /\ request'.kind = kind /\ request'.sensor = s
        /\ request'.step = CASE kind = "index" -> "list" [] kind = "accuracy" -> "tally" [] OTHER -> "row"
        /\ seen' = [t \in Sensors |-> IF kind \in {"index", "accuracy"} THEN {rows[t]} ELSE {}]
    BY <1>11 DEF Ask, Quiet, tables
  <2>2. CASE kind \in {"index", "accuracy"}
    <3>1. s = 1 /\ \A t \in Sensors : rows'[t] \in seen'[t]
      BY <1>11, <2>1, <2>2
    <3>2. request'.step \in {"list", "tally"} /\ 1..(request'.sensor - 1) = {}
      BY <2>1, <2>2, <3>1
    <3> QED
      BY <3>1, <3>2 DEF CopiesSeen, Collecting
  <2>3. CASE kind \notin {"index", "accuracy"}
    <3>1. request'.step = "row" /\ request'.kind \in {"gate", "detail"}
      BY <2>1, <2>3 DEF Kinds
    <3> QED
      BY <3>1 DEF CopiesSeen, Collecting
  <2> QED
    BY <2>2, <2>3
<1>12. ASSUME NEW ok \in BOOLEAN, List(ok) PROVE CopiesSeen'
  <2>1. request.step = "list" /\ UNCHANGED <<rows, lost, cut, seen>>
    BY <1>12 DEF List, Handling, tables, history
  <2>2. CASE request.sensor = N
    BY <1>2, <1>12, <2>2 DEF List, Answer, Quiet
  <2>3. CASE request.sensor # N
    <3> DEFINE f == rows[request.sensor]
    <3>1. request' = [request EXCEPT !.read = Got(ok, f), !.unread = Missed(ok), !.sensor = @ + 1]
      BY <1>12, <2>3 DEF List
    <3>2. f \in seen[request.sensor]
      BY <1>0, <2>1 DEF CopiesSeen, Collecting
    <3> HIDE DEF f
    <3>5. /\ request'.step = request.step /\ request'.since = request.since
          /\ \A s \in 1..(request'.sensor - 1) :
               \/ s \in 1..(request.sensor - 1) /\ request'.read[s] = request.read[s]
                                                /\ (s \in request.unread => s \in request'.unread)
               \/ s = request.sensor /\ ok /\ request'.read[s] = f
               \/ s = request.sensor /\ s \in request'.unread /\ request'.read[s] = None
      BY <1>0, <2>3, <3>1, OneMore
    <3>3. /\ request'.step = "list"
          /\ \A s \in 1..(request'.sensor - 1) :
               request'.read[s] \in seen[s] \/ (s \in request'.unread /\ request'.read[s] = None)
      BY <1>0, <2>1, <3>2, <3>5 DEF CopiesSeen
    <3>4. \A s \in Sensors : rows[s] \in seen[s]
      BY <1>0, <2>1 DEF CopiesSeen, Collecting
    <3> QED
      BY <2>1, <3>3, <3>4 DEF CopiesSeen, Collecting
  <2> QED
    BY <2>2, <2>3
<1>13. ASSUME NEW ok \in BOOLEAN, NEW p, Tally(ok, p) PROVE CopiesSeen'
  <2>1. request.step = "tally" /\ UNCHANGED <<rows, lost, cut, seen>>
    BY <1>13 DEF Tally, Handling, tables, history
  <2>2. CASE request.sensor = N
    BY <1>2, <1>13, <2>2 DEF Tally, Answer, Quiet
  <2>3. CASE request.sensor # N
    <3>1. request' = [request EXCEPT !.read = Got(ok, p), !.unread = Missed(ok), !.sensor = @ + 1]
      BY <1>13, <2>3 DEF Tally
    <3>2. \E row \in seen[request.sensor] : NotBehind(p, row, request.since)
      BY <1>0, <1>13, <2>1, TallyCovers
    <3>5. /\ request'.step = request.step /\ request'.since = request.since
          /\ \A s \in 1..(request'.sensor - 1) :
               \/ s \in 1..(request.sensor - 1) /\ request'.read[s] = request.read[s]
                                                /\ (s \in request.unread => s \in request'.unread)
               \/ s = request.sensor /\ ok /\ request'.read[s] = p
               \/ s = request.sensor /\ s \in request'.unread /\ request'.read[s] = None
      BY <1>0, <2>3, <3>1, OneMore
    <3>3. /\ request'.step = "tally" /\ request'.since = request.since
          /\ \A s \in 1..(request'.sensor - 1) :
               s \in request'.unread \/ \E row \in seen[s] : NotBehind(request'.read[s], row, request.since)
      <4> SUFFICES ASSUME NEW s \in 1..(request'.sensor - 1), s \notin request'.unread
                   PROVE  \E row \in seen[s] : NotBehind(request'.read[s], row, request.since)
        BY <2>1, <3>5
      <4>1. CASE s = request.sensor
        BY <3>2, <3>5, <4>1
      <4>2. CASE s \in 1..(request.sensor - 1) /\ request'.read[s] = request.read[s] /\ s \notin request.unread
        BY <1>0, <2>1, <4>2 DEF CopiesSeen
      <4>3. s = request.sensor \/ (s \in 1..(request.sensor - 1) /\ request'.read[s] = request.read[s])
        BY <3>5
      <4>4. s # request.sensor => s \notin request.unread
        BY <3>5
      <4> QED
        BY <4>1, <4>2, <4>3, <4>4
    <3>4. \A s \in Sensors : rows[s] \in seen[s]
      BY <1>0, <2>1 DEF CopiesSeen, Collecting
    <3> QED
      BY <2>1, <3>3, <3>4 DEF CopiesSeen, Collecting, NotBehind
  <2> QED
    BY <2>2, <2>3
<1>14. ASSUME NEW ok \in BOOLEAN, ReadRow(ok) PROVE CopiesSeen'
  <2>1. request.step = "row" /\ UNCHANGED <<rows, seen>>
    BY <1>14 DEF ReadRow, Handling, tables, history
  <2>2. request'.step = "idle" \/ (request'.step = "preds" /\ request'.kind = request.kind)
    <3>1. request' = Quiet \/ request' = [request EXCEPT !.step = "preds", !.read = Got(ok, rows[request.sensor])]
      BY <1>14 DEF ReadRow, Answer
    <3>2. Quiet.step = "idle"
      BY DEF Quiet
    <3> QED
      BY <1>0, <3>1, <3>2 DEF Requests
  <2> QED
    BY <1>0, <2>1, <2>2 DEF CopiesSeen, Collecting
<1>15. CASE TooSlow
  BY <1>2, <1>15 DEF TooSlow, Answer, Quiet
<1>16. ASSUME NEW ok \in BOOLEAN, NEW p, ReadPreds(ok, p) PROVE CopiesSeen'
  BY <1>2, <1>16 DEF ReadPreds, Answer, Quiet
<1> QED
  BY <1>3, <1>4, <1>5, <1>6, <1>7, <1>8, <1>9, <1>10, <1>11, <1>12, <1>13, <1>14, <1>15, <1>16, AsksType
     DEF Next, Round, Handler

LEMMA InvStep == IInv /\ [Next]_vars => IInv'
<1> SUFFICES ASSUME IInv, [Next]_vars PROVE IInv'
  OBVIOUS
<1>0. TypeOK /\ TypeOK' /\ InOrder /\ RowsPredicted /\ GaugesTrail /\ InHand
  BY TypeStep DEF IInv
<1>1. /\ now \in Nat /\ polls \in Nat /\ poller.f \in Forecasts /\ poller.sensor \in Sensors
      /\ poller.f.poll \in Nat /\ poller.f.at \in Nat /\ cut \in Nat /\ request.sensor \in Sensors
      /\ request \in Requests /\ gauges \in [Sensors -> [Gauges -> Forecasts]] /\ poller \in Pollers
  BY <1>0 DEF TypeOK, Forecasts, Requests, Pollers
<1> DEFINE Calm == /\ UNCHANGED <<polls, tables, lost, cut>> /\ now' \in Nat /\ now <= now'
                   /\ poller' = poller \/ poller'.step \in {"asleep", "poll", "down"}
                   /\ gauges' = NoGauges \/ (gauges' = gauges /\ (poller' = poller \/ poller.step \notin {"conservative", "ratio"}))
                   /\ request'.step = "preds" =>
                        request' = request \/ (request'.sensor \in Sensors /\ request'.read[request'.sensor] = rows[request'.sensor])
      Parts == (InOrder /\ RowsPredicted /\ GaugesTrail /\ InHand)'
<1> SUFFICES Parts
  BY <1>0, CopiesStep DEF IInv
<1>2. ASSUME Calm PROVE Parts
  BY <1>0, <1>2, CalmStep
<1> HIDE DEF Calm, Parts
<1>3. ASSUME NEW ticks \in Steps, Tick(ticks) PROVE Parts
  <2>1. UNCHANGED <<polls, poller, tables, lost, cut, gauges, request>> /\ now' \in Nat /\ now <= now'
    BY <1>1, <1>3, ConstantsOK DEF Tick, metrics, asking, history
  <2>2. Calm
    BY <2>1 DEF Calm
  <2> QED
    BY <1>2, <2>2
<1>4. CASE Wake \/ PollFails \/ Panic \/ Restart \/ Scrape \/ UNCHANGED vars
  <2>1. poller' = poller \/ (poller'.step \in {"asleep", "poll", "down"} /\ poller.step \notin {"conservative", "ratio"})
    <3>1. CASE Wake
      BY <1>1, <3>1 DEF Wake, Goto, At, Pollers
    <3>2. CASE PollFails \/ Panic
      BY <3>2 DEF PollFails, Panic, NextSensor, Asleep, At
    <3>3. CASE Restart
      BY <3>3 DEF Restart, Asleep, At
    <3>4. CASE Scrape \/ UNCHANGED vars
      BY <3>4 DEF Scrape, vars
    <3> QED
      BY <1>4, <3>1, <3>2, <3>3, <3>4
  <2>2. UNCHANGED <<polls, tables, lost, cut, gauges, request>> /\ now' = now
    BY <1>4 DEF Wake, PollFails, Panic, Restart, Scrape, vars, metrics, asking, history
  <2>3. Calm
    BY <1>1, <2>1, <2>2 DEF Calm
  <2> QED
    BY <1>2, <2>3
<1>5. CASE Prune
  <2> DEFINE cutoff == now - Retention * Day
  <2>1. /\ UNCHANGED <<now, polls, poller, rows, lost, gauges, request>> /\ cut' = cutoff /\ cut' > cut
        /\ poller.step = "asleep" /\ preds' = [s \in Sensors |-> {p \in preds[s] : p.at >= cutoff}]
    BY <1>5 DEF Prune, At, metrics, asking
  <2>2. \A s \in Sensors : preds'[s] = {p \in preds[s] : p.at >= cut'}
    BY <2>1
  <2>3. cut' \in Nat
    BY <1>0 DEF TypeOK
  <2>4. ASSUME NEW s \in Sensors, NEW f \in Forecasts, Predicted(s, f)
        PROVE  f = None \/ f \in preds'[s] \/ f.poll \in lost \/ f.at < cut'
    <3>1. f.at \in Nat
      BY DEF Forecasts
    <3> QED
      BY <1>1, <2>1, <2>2, <2>3, <2>4, <3>1 DEF Predicted
  <2> HIDE DEF cutoff
  <2>5. RowsPredicted'
    <3>1. \A s \in Sensors : Predicted(s, rows[s])'
      BY <1>0, <2>1, <2>4 DEF RowsPredicted, Predicted, TypeOK
    <3>2. (request.step = "preds" => Predicted(request.sensor, request.read[request.sensor]))'
      BY <1>0, <2>1, <2>4 DEF RowsPredicted, Predicted, TypeOK
    <3>3. poller'.step \notin {"notify", "state"} \cup Gauges
      BY <2>1 DEF Gauges, Horizons
    <3> QED
      BY <3>1, <3>2, <3>3 DEF RowsPredicted
  <2>6. InOrder'
    BY <1>0, <2>1, <2>2 DEF InOrder
  <2>7. GaugesTrail' /\ InHand'
    BY <1>0, <2>1 DEF GaugesTrail, InHand, Gauges, Horizons
  <2> QED
    BY <2>5, <2>6, <2>7 DEF Parts
<1>6. ASSUME NEW verdict \in Verdicts, Poll(verdict) PROVE Parts
  <2>1. /\ polls' = polls + 1 /\ UNCHANGED <<now, rows, preds, lost, cut, gauges, request>>
        /\ poller.step = "poll" /\ poller'.step = "predict" /\ poller'.f.poll = polls + 1 /\ poller'.f.at = now
    BY <1>6 DEF Poll, After, At, tables, metrics, asking, history
  <2>2. InOrder'
    BY <1>0, <1>1, <2>1 DEF InOrder
  <2>3. RowsPredicted'
    BY <1>0, <2>1 DEF RowsPredicted, Predicted, Gauges, Horizons
  <2>4. GaugesTrail'
    <3>1. \A s \in Sensors : \A g \in Gauges : gauges[s][g].poll \in Nat
      BY <1>1 DEF Forecasts
    <3> QED
      BY <1>0, <1>1, <2>1, <3>1 DEF GaugesTrail
  <2>5. InHand'
    BY <1>0, <1>1, <2>1 DEF InHand, InOrder
  <2> QED
    BY <2>2, <2>3, <2>4, <2>5 DEF Parts
<1>7. ASSUME NEW ok \in BOOLEAN, Predict(ok) PROVE Parts
  <2> DEFINE s == poller.sensor
             f == poller.f
  <2>1. /\ poller.step = "predict" /\ poller' = [poller EXCEPT !.step = "notify"]
        /\ UNCHANGED <<now, polls, rows, cut, gauges, request>>
    BY <1>7 DEF Predict, At, Goto, After, metrics, asking
  <2>2. f.poll = polls /\ polls > 0 /\ f.at <= now /\ \A t \in Sensors : \A p \in preds[t] : p.at <= f.at
    BY <1>0, <2>1 DEF InHand
  <2>3. poller'.f = f /\ poller'.sensor = s /\ poller'.step = "notify"
    BY <1>1, <2>1 DEF Pollers
  <2>4. GaugesTrail' /\ InHand'
    BY <1>0, <2>1, <2>2, <2>3 DEF GaugesTrail, InHand
  <2>5. CASE ok
    <3>1. preds' = [preds EXCEPT ![s] = @ \cup {f}] /\ lost' = lost
      BY <1>7, <2>5 DEF Predict
    <3>2. f \in preds'[s] /\ \A t \in Sensors : preds[t] \subseteq preds'[t] /\ preds'[t] \subseteq preds[t] \cup {f}
      BY <1>0, <1>1, <3>1 DEF TypeOK
    <3>3. \A t \in Sensors : \A p \in preds[t] : p.poll \in 1..polls /\ p.at <= now
      BY <1>0 DEF InOrder
    <3>4. InOrder'
      <4> SUFFICES ASSUME NEW t \in Sensors, NEW p \in preds'[t]
                   PROVE  /\ p.poll \in 1..polls /\ p.at <= now
                          /\ \A q \in preds'[t] : p.poll < q.poll => p.at <= q.at
        BY <2>1 DEF InOrder
      <4>1. p \in preds[t] \/ p = f
        BY <3>2
      <4>2. p.poll \in 1..polls /\ p.at <= now
        BY <1>1, <2>2, <3>3, <4>1
      <4>3. ASSUME NEW q \in preds'[t], p.poll < q.poll PROVE p.at <= q.at
        <5>1. q \in preds[t] \/ q = f
          BY <3>2
        <5>2. CASE p = f
          BY <1>1, <2>2, <3>3, <4>3, <5>1, <5>2
        <5>3. CASE p \in preds[t] /\ q = f
          BY <2>2, <5>3
        <5>4. CASE p \in preds[t] /\ q \in preds[t]
          BY <1>0, <4>3, <5>4 DEF InOrder
        <5> QED
          BY <4>1, <5>1, <5>2, <5>3, <5>4
      <4> QED
        BY <4>2, <4>3
    <3>5. RowsPredicted'
      BY <1>0, <1>1, <2>1, <2>3, <3>1, <3>2 DEF RowsPredicted, Predicted
    <3> QED
      BY <2>4, <3>4, <3>5 DEF Parts
  <2>6. CASE ~ok
    <3>1. preds' = preds /\ lost' = lost \cup {f.poll}
      BY <1>7, <2>6 DEF Predict
    <3>2. InOrder'
      BY <1>0, <2>1, <3>1 DEF InOrder
    <3>3. RowsPredicted'
      BY <1>0, <2>1, <2>3, <3>1 DEF RowsPredicted, Predicted
    <3> QED
      BY <2>4, <3>2, <3>3 DEF Parts
  <2> QED
    BY <2>5, <2>6
<1>8. CASE Notify
  <2>1. /\ poller.step = "notify" /\ poller' = [poller EXCEPT !.step = "state"]
        /\ UNCHANGED <<now, polls, rows, preds, lost, cut, gauges, request>>
    BY <1>8 DEF Notify, At, Goto, After, tables, metrics, asking, history
  <2>2. poller'.f = poller.f /\ poller'.sensor = poller.sensor /\ poller'.step = "state"
    BY <1>1, <2>1 DEF Pollers
  <2> QED
    BY <1>0, <2>1, <2>2 DEF Parts, InOrder, RowsPredicted, Predicted, GaugesTrail, InHand
<1>9. ASSUME NEW ok \in BOOLEAN, SetState(ok) PROVE Parts
  <2>1. /\ poller.step = "state" /\ poller' = [poller EXCEPT !.step = "aggressive"]
        /\ UNCHANGED <<now, polls, preds, lost, cut, gauges, request>>
        /\ rows' = rows \/ rows' = [rows EXCEPT ![poller.sensor] = poller.f]
    BY <1>9 DEF SetState, At, Goto, After, metrics, asking
  <2>2. poller'.f = poller.f /\ poller'.sensor = poller.sensor /\ poller'.step = "aggressive"
    BY <1>1, <2>1 DEF Pollers
  <2>3. \A s \in Sensors : rows'[s] = rows[s] \/ (s = poller.sensor /\ rows'[s] = poller.f)
    BY <1>0, <2>1 DEF TypeOK
  <2>4. Predicted(poller.sensor, poller.f)
    BY <1>0, <2>1 DEF RowsPredicted
  <2>5. RowsPredicted'
    BY <1>0, <2>1, <2>2, <2>3, <2>4 DEF RowsPredicted, Predicted
  <2>6. GaugesTrail'
    BY <1>0, <2>1, <2>2 DEF GaugesTrail
  <2>7. InOrder' /\ InHand'
    BY <1>0, <2>1, <2>2 DEF InOrder, InHand, Gauges, Horizons
  <2> QED
    BY <2>5, <2>6, <2>7 DEF Parts
<1>10. ASSUME NEW g \in Gauges, SetGauge(g) PROVE Parts
  <2> DEFINE s == poller.sensor
  <2>1. /\ poller.step = g /\ UNCHANGED <<now, polls, rows, preds, lost, cut, request>>
        /\ gauges' = gauges \/ gauges' = [gauges EXCEPT ![s][g] = poller.f]
        /\ g = "ratio" => gauges' = [gauges EXCEPT ![s][g] = poller.f]
    BY <1>10 DEF SetGauge, Sets, At, tables, asking, history
  <2>2. poller.f.poll = polls /\ polls > 0 /\ poller.f.at <= now /\ Predicted(s, poller.f)
    BY <1>0, <2>1 DEF InHand, RowsPredicted
  <2>3. \/ g = "ratio" /\ poller'.step \in {"asleep", "poll"}
        \/ /\ poller'.f = poller.f /\ poller'.sensor = s
           /\ \/ g = "aggressive" /\ poller'.step = "conservative"
              \/ g = "conservative" /\ poller'.step = "ratio"
    <3>1. CASE g = "ratio"
      BY <1>10, <3>1 DEF SetGauge, NextSensor, Asleep
    <3>2. CASE g # "ratio"
      BY <1>1, <1>10, <3>2 DEF SetGauge, Goto, After, Pollers, Gauges, Horizons
    <3> QED
      BY <3>1, <3>2
  <2>4. /\ \A t \in Sensors, k \in Gauges :
             gauges'[t][k] = gauges[t][k] \/ (t = s /\ k = g /\ gauges'[t][k] = poller.f)
        /\ g = "ratio" => gauges'[s].ratio = poller.f
    <3>1. CASE gauges' = gauges /\ g # "ratio"
      BY <3>1
    <3>2. CASE gauges' = [gauges EXCEPT ![s][g] = poller.f]
      <4>1. \A t \in Sensors : gauges[t] \in [Gauges -> Forecasts]
        BY <1>1
      <4>2. \A t \in Sensors : t # s => gauges'[t] = gauges[t]
        BY <1>1, <3>2
      <4>3. gauges'[s] = [gauges[s] EXCEPT ![g] = poller.f]
        BY <1>1, <3>2
      <4> QED
        BY <1>1, <1>10, <4>1, <4>2, <4>3
    <3> QED
      BY <2>1, <3>1, <3>2
  <2>5. \A t \in Sensors, k \in Gauges : gauges[t][k].poll \in Nat /\ gauges[t][k].poll <= polls
    <3>1. \A t \in Sensors, k \in Gauges : gauges[t][k] \in Forecasts
      BY <1>1
    <3> QED
      BY <1>0, <3>1 DEF GaugesTrail, Forecasts
  <2> HIDE DEF s
  <2>6. GaugesTrail'
    <3>1. \A t \in Sensors, k \in Gauges : gauges'[t][k].poll <= polls
      BY <1>1, <2>2, <2>4, <2>5
    <3>2. ASSUME NEW t \in Sensors, NEW h \in Horizons
          PROVE  \/ gauges'[t][h].poll <= gauges'[t].ratio.poll
                 \/ /\ poller'.sensor = t /\ gauges'[t][h] = poller'.f
                    /\ poller'.step = "ratio" \/ (poller'.step = "conservative" /\ h = "aggressive")
      <4>0. h \in Gauges /\ "ratio" \in Gauges /\ h # "ratio"
        BY DEF Gauges, Horizons
      <4>1. CASE t # s
        <5>1. gauges'[t][h] = gauges[t][h] /\ gauges'[t].ratio = gauges[t].ratio
          BY <2>4, <4>0, <4>1
        <5>2. gauges[t][h].poll <= gauges[t].ratio.poll
          BY <1>0, <4>1 DEF GaugesTrail, s
        <5> QED
          BY <5>1, <5>2
      <4>2. CASE t = s /\ g = "ratio"
        <5>1. gauges'[t].ratio.poll = polls
          BY <2>2, <2>4, <4>2
        <5> QED
          BY <3>1, <4>0, <5>1
      <4>3. CASE t = s /\ g # "ratio"
        <5>1. gauges'[t].ratio = gauges[t].ratio
          BY <2>4, <4>0, <4>3
        <5>2. CASE h = g /\ gauges'[t][h] = poller.f
          BY <2>3, <4>3, <5>2
        <5>3. CASE gauges'[t][h] = gauges[t][h]
          <6>1. \/ gauges[t][h].poll <= gauges[t].ratio.poll
                \/ gauges[t][h] = poller.f /\ g = "conservative" /\ h = "aggressive"
            BY <1>0, <2>1, <4>3 DEF GaugesTrail
          <6> QED
            BY <2>3, <4>3, <5>1, <5>3, <6>1
        <5> QED
          BY <2>4, <4>0, <5>2, <5>3
      <4> QED
        BY <4>1, <4>2, <4>3
    <3> QED
      BY <2>1, <3>1, <3>2 DEF GaugesTrail
  <2>7. RowsPredicted'
    BY <1>0, <2>1, <2>2, <2>3 DEF RowsPredicted, Predicted, Gauges, Horizons, s
  <2>8. InOrder' /\ InHand'
    BY <1>0, <2>1, <2>2, <2>3 DEF InOrder, InHand, Gauges, Horizons
  <2> QED
    BY <2>6, <2>7, <2>8 DEF Parts
<1>11. CASE Kill \/ MapFatal
  <2>1. UNCHANGED <<now, polls, tables, lost, cut>> /\ poller' = Down /\ gauges' = NoGauges /\ request' = Quiet
    BY <1>11 DEF Kill, MapFatal, Die, history
  <2>2. poller'.step = "down" /\ request'.step = "idle"
    BY <2>1 DEF Down, Quiet
  <2>3. Calm
    BY <1>1, <2>1, <2>2 DEF Calm
  <2> QED
    BY <1>2, <2>3
<1>12. CASE Handler
  <2>1. UNCHANGED <<now, polls, poller, tables, gauges, lost, cut>>
    BY <1>12 DEF Handler, Ask, List, Tally, ReadRow, ReadPreds, TooSlow, metrics, history
  <2>2. request'.step = "preds" =>
          request' = request \/ (request'.sensor \in Sensors /\ request'.read[request'.sensor] = rows[request'.sensor])
    <3>1. ASSUME NEW kind, NEW s, NEW days, Ask(kind, s, days) PROVE request'.step # "preds"
      BY <3>1 DEF Ask, Quiet
    <3>2. Quiet.step = "idle"
      BY DEF Quiet
    <3>3. ASSUME NEW ok, List(ok) PROVE request'.step # "preds"
      BY <1>1, <3>2, <3>3 DEF List, Handling, Answer, Requests
    <3>4. ASSUME NEW ok, NEW p, Tally(ok, p) PROVE request'.step # "preds"
      BY <1>1, <3>2, <3>4 DEF Tally, Handling, Answer, Requests
    <3>5. ASSUME NEW ok \in BOOLEAN, ReadRow(ok), request' # Quiet
          PROVE  request'.sensor = request.sensor /\ request'.read[request.sensor] = rows[request.sensor]
      <4>1. ok /\ request' = [request EXCEPT !.step = "preds", !.read = Got(ok, rows[request.sensor])]
        BY <3>5 DEF ReadRow, Answer
      <4>2. request'.sensor = request.sensor /\ request'.read = Got(ok, rows[request.sensor])
        BY <1>1, <4>1 DEF Requests
      <4> QED
        BY <1>1, <4>1, <4>2 DEF Got, Requests
    <3>6. ASSUME NEW ok, NEW p, ReadPreds(ok, p) PROVE request' = Quiet
      BY <3>6 DEF ReadPreds, Answer
    <3>7. TooSlow => request' = Quiet
      BY DEF TooSlow, Answer
    <3> QED
      BY <1>1, <1>12, <3>1, <3>2, <3>3, <3>4, <3>5, <3>6, <3>7 DEF Handler
  <2>3. Calm
    BY <1>1, <2>1, <2>2 DEF Calm
  <2> QED
    BY <1>2, <2>3
<1> QED
  BY <1>3, <1>4, <1>5, <1>6, <1>7, <1>8, <1>9, <1>10, <1>11, <1>12 DEF Next, Round

-----------------------------------------------------------------------------
(* One answer.                                                             *)

(* An answer that was given stays true: what was lost or deleted remains   *)
(* so, and the rows that were seen remain seen.                            *)
LEMMA AnswerStays ==
  ASSUME TypeOK, TypeOK', AnswersAgree, reply' = reply, lost \subseteq lost', cut <= cut',
         \A s \in Sensors : seen[s] \subseteq seen'[s]
  PROVE  AnswersAgree'
<1>0. reply \in Replies /\ cut \in Nat /\ cut' \in Nat
  BY DEF TypeOK
<1>1. CASE reply.kind \in {"gate", "detail"} /\ reply.code = 200
  <2>1. reply.row.at \in Nat
    BY <1>0, <1>1 DEF Replies, Forecasts, NoReply
  <2> QED
    BY <1>0, <1>1, <2>1, NotBehindStays DEF AnswersAgree, NotBehind
<1>2. CASE reply.kind = "accuracy" /\ reply.code = 200
  <2> SUFFICES ASSUME NEW s \in Sensors \ reply.unread
               PROVE  (\E row \in seen[s] : NotBehind(reply.last[s], row, reply.since))'
    BY <1>2 DEF AnswersAgree
  <2>1. PICK row \in seen[s] : NotBehind(reply.last[s], row, reply.since)
    BY <1>2 DEF AnswersAgree
  <2>2. row.at \in Nat /\ row \in seen'[s]
    BY DEF TypeOK, Forecasts
  <2>3. NotBehind(reply.last[s], row, reply.since)'
    BY <1>0, <2>1, <2>2 DEF NotBehind
  <2> QED
    BY <2>2, <2>3
<1> QED
  BY <1>1, <1>2 DEF AnswersAgree

LEMMA AnswerStep == IInv /\ IInv' /\ AnswersAgree /\ [Next]_vars => AnswersAgree'
<1> SUFFICES ASSUME IInv, IInv', AnswersAgree, [Next]_vars PROVE AnswersAgree'
  OBVIOUS
<1>0. /\ TypeOK /\ TypeOK' /\ RowsPredicted /\ CopiesSeen /\ request \in Requests /\ cut \in Nat
      /\ seen \in [Sensors -> SUBSET Forecasts] /\ poller.sensor \in Sensors /\ cut' \in Nat
  BY DEF IInv, TypeOK, Requests
<1>1. CASE reply'.kind \notin {"gate", "detail", "accuracy"} \/ reply'.code # 200
  BY <1>1 DEF AnswersAgree
<1>2. CASE UNCHANGED <<reply, lost, cut, seen>>
  BY <1>0, <1>2, AnswerStays
<1>3. CASE (\E ticks \in Steps : Tick(ticks)) \/ Restart \/ Scrape \/ UNCHANGED vars
  BY <1>2, <1>3 DEF Tick, Restart, Scrape, vars, asking, history
<1>4. CASE Round
  <2>1. reply' = reply
    BY <1>4 DEF Round, Wake, PollFails, Notify, Panic, Prune, Poll, Predict, SetState, SetGauge, asking
  <2>2. lost \subseteq lost'
    BY <1>4 DEF Round, Wake, PollFails, Notify, Panic, Prune, Poll, Predict, SetState, SetGauge, history
  <2>5. cut <= cut'
    <3>1. Prune => cut' > cut
      BY DEF Prune
    <3>2. Prune \/ cut' = cut
      BY <1>4 DEF Round, Wake, PollFails, Notify, Panic, Poll, Predict, SetState, SetGauge, history
    <3> QED
      BY <1>0, <3>1, <3>2
  <2>3. seen' = seen \/ seen' = [seen EXCEPT ![poller.sensor] = @ \cup {poller.f}]
    BY <1>4 DEF Round, Wake, PollFails, Notify, Panic, Prune, Poll, Predict, SetState, SetGauge, history
  <2>4. \A s \in Sensors : seen[s] \subseteq seen'[s]
    BY <1>0, <2>3
  <2> QED
    BY <1>0, <2>1, <2>2, <2>4, <2>5, AnswerStays
<1>5. CASE Kill \/ MapFatal
  <2>1. /\ reply' = reply \/ reply' = [kind |-> request.kind, code |-> 502]
        /\ UNCHANGED <<lost, cut, seen>>
    BY <1>5 DEF Kill, MapFatal, Die, history
  <2> QED
    BY <1>1, <1>2, <2>1
<1>6. ASSUME NEW kind, NEW s, NEW days, Ask(kind, s, days) PROVE AnswersAgree'
  BY <1>1, <1>6 DEF Ask, NoReply
<1>7. ASSUME NEW ok \in BOOLEAN, List(ok) PROVE AnswersAgree'
  BY <1>1, <1>2, <1>7 DEF List, Answer, history
<1>8. ASSUME NEW ok \in BOOLEAN, ReadRow(ok) PROVE AnswersAgree'
  BY <1>1, <1>2, <1>8 DEF ReadRow, Answer, history
<1>9. CASE TooSlow
  BY <1>1, <1>9 DEF TooSlow, Answer
<1>10. ASSUME NEW ok \in BOOLEAN, NEW p, Tally(ok, p) PROVE AnswersAgree'
  <2>1. request.step = "tally" /\ UNCHANGED <<lost, cut, seen>>
    BY <1>10 DEF Tally, Handling, history
  <2>2. CASE request.sensor # N
    BY <1>2, <1>10, <2>1, <2>2 DEF Tally
  <2>3. CASE request.sensor = N
    <3>1. reply' = [kind |-> "accuracy", code |-> 200, last |-> Got(ok, p), since |-> request.since,
                    unread |-> Missed(ok)]
      BY <1>10, <2>3 DEF Tally, Answer
    <3>2. \E row \in seen[request.sensor] : NotBehind(p, row, request.since)
      BY <1>0, <1>10, TallyCovers
    <3>3. \A s \in Sensors :
            \/ s \in 1..(request.sensor - 1) /\ Got(ok, p)[s] = request.read[s]
                                             /\ (s \in request.unread => s \in Missed(ok))
            \/ s = request.sensor /\ ok /\ Got(ok, p)[s] = p
            \/ s = request.sensor /\ s \in Missed(ok) /\ Got(ok, p)[s] = None
      BY <1>0, <2>3, GotLast
    <3>4. ASSUME NEW s \in Sensors, s \notin Missed(ok)
          PROVE  \E row \in seen[s] : NotBehind(Got(ok, p)[s], row, request.since)
      <4>1. CASE s = request.sensor /\ Got(ok, p)[s] = p
        BY <3>2, <4>1
      <4>2. CASE s \in 1..(request.sensor - 1) /\ Got(ok, p)[s] = request.read[s] /\ s \notin request.unread
        BY <1>0, <2>1, <4>2 DEF CopiesSeen
      <4> QED
        BY <3>3, <3>4, <4>1, <4>2
    <3> QED
      BY <2>1, <3>1, <3>4 DEF AnswersAgree, NotBehind
  <2> QED
    BY <2>2, <2>3
<1>11. ASSUME NEW ok \in BOOLEAN, NEW p, ReadPreds(ok, p) PROVE AnswersAgree'
  <2> DEFINE r == request.sensor
             row == request.read[r]
             since == now - request.horizon
  <2>1. /\ IsLast(p, Since(r, since)) /\ UNCHANGED <<lost, cut>> /\ request.step = "preds"
        /\ reply' = IF ~ok /\ request.kind = "detail" THEN [kind |-> "detail", code |-> 500]
                    ELSE [kind |-> request.kind, code |-> 200, sensor |-> r, row |-> row,
                          last |-> IF ok THEN p ELSE None, since |-> since, unread |-> Missed(ok)]
    BY <1>11 DEF ReadPreds, Answer, Handling, history
  <2>2. r \in Sensors /\ row \in Forecasts /\ since \in Int /\ request.kind \in {"gate", "detail"} /\ Predicted(r, row)
    BY <1>0, <2>1 DEF Requests, TypeOK, RowsPredicted, CopiesSeen
  <2>3. ~ok => r \in Missed(ok)
    BY DEF Missed
  <2> HIDE DEF r, row, since
  <2>4. NotBehind(p, row, since)
    BY <1>0, <2>1, <2>2, LastCovers
  <2>5. CASE ~ok /\ request.kind = "detail"
    BY <1>1, <2>1, <2>5
  <2>6. CASE ok
    BY <2>1, <2>2, <2>4, <2>6 DEF AnswersAgree, NotBehind
  <2>7. CASE ~ok /\ request.kind # "detail"
    BY <2>1, <2>2, <2>3, <2>7 DEF AnswersAgree
  <2> QED
    BY <2>5, <2>6, <2>7
<1> QED
  BY <1>3, <1>4, <1>5, <1>6, <1>7, <1>8, <1>9, <1>10, <1>11 DEF Next, Handler

-----------------------------------------------------------------------------
(* The page of the index holds what the handler read, and that was in the  *)
(* tables at some time since the request.                                  *)
LEMMA PageStep == IInv /\ PageIsTrue /\ [Next]_vars => PageIsTrue'
<1> SUFFICES ASSUME IInv, PageIsTrue, [Next]_vars PROVE PageIsTrue'
  OBVIOUS
<1>0. /\ TypeOK /\ CopiesSeen /\ request \in Requests /\ rows \in [Sensors -> Forecasts]
      /\ seen \in [Sensors -> SUBSET Forecasts] /\ N \in Nat /\ Sensors = 1..N
  BY ConstantsOK DEF IInv, TypeOK, Requests, Sensors
<1>1. ASSUME reply' = reply, \A s \in Sensors : seen[s] \subseteq seen'[s] PROVE PageIsTrue'
  BY <1>1 DEF PageIsTrue
<1>2. CASE reply'.kind = "none" \/ reply'.code # 200 \/ reply'.kind \in Kinds \ {"index"}
  BY <1>2 DEF PageIsTrue, Kinds
<1>3. CASE (\E ticks \in Steps : Tick(ticks)) \/ Round \/ Restart \/ Scrape \/ UNCHANGED vars
  <2>1. reply' = reply
    BY <1>3 DEF Tick, Round, Wake, PollFails, Notify, SetGauge, Panic, Prune, Poll, Predict, SetState, Restart,
                Scrape, vars, asking
  <2>2. seen' = seen \/ seen' = [seen EXCEPT ![poller.sensor] = @ \cup {poller.f}]
    BY <1>3 DEF Tick, Round, Wake, PollFails, Notify, SetGauge, Panic, Prune, Poll, Predict, SetState, Restart,
                Scrape, vars, history
  <2>3. \A s \in Sensors : seen[s] \subseteq seen'[s]
    BY <1>0, <2>2
  <2> QED
    BY <1>1, <2>1, <2>3
<1>4. CASE Kill \/ MapFatal
  <2>1. seen' = seen
    BY <1>4 DEF Kill, MapFatal, Die, history
  <2>2. reply' = reply \/ reply' = [kind |-> request.kind, code |-> 502]
    BY <1>4 DEF Kill, MapFatal, Die
  <2> QED
    BY <1>1, <1>2, <2>1, <2>2
<1>5. ASSUME NEW kind, NEW s, NEW days, Ask(kind, s, days) PROVE PageIsTrue'
  BY <1>2, <1>5 DEF Ask, NoReply
<1>6. ASSUME NEW ok \in BOOLEAN, List(ok) PROVE PageIsTrue'
  <2>0. request.step = "list" /\ seen' = seen
    BY <1>6 DEF List, Handling, history
  <2>1. CASE request.sensor = N
    <3> DEFINE f == rows[request.sensor]
               read == Got(ok, f)
    <3>1. reply' = [kind |-> "index", code |-> 200, page |-> IndexPage(read), unread |-> Missed(ok)]
      BY <1>6, <2>1 DEF List, Answer
    <3>2. f \in seen[request.sensor] /\ f \in Forecasts /\ request.sensor \in Sensors
      BY <1>0, <2>0 DEF CopiesSeen, Collecting, Requests
    <3>3. \A s \in Sensors :
            \/ s \in 1..(request.sensor - 1) /\ read[s] = request.read[s]
                                             /\ (s \in request.unread => s \in Missed(ok))
            \/ s = request.sensor /\ ok /\ read[s] = f
            \/ s = request.sensor /\ s \in Missed(ok) /\ read[s] = None
      <4> HIDE DEF f
      <4> QED
        BY <1>0, <2>1, GotLast
    <3>4. \A s \in Sensors : read[s] \in Forecasts
      BY <1>0, <3>2, NoneIsAForecast DEF Got, Requests
    <3> HIDE DEF f, read
    <3>5. \A s \in Sensors : read[s] \in seen[s] \/ (s \in Missed(ok) /\ read[s] = None)
      BY <1>0, <2>0, <3>2, <3>3 DEF CopiesSeen
    <3>6. ASSUME NEW s \in DOMAIN IndexPage(read)
          PROVE  s \in Sensors /\ read[s] # None /\ (IndexPage(read)[s] = "fine" <=> read[s].state = "healthy")
      <4>1. s \in Sensors /\ read[s] # None /\ IndexPage(read)[s] = Icon(read[s].state)
        BY <3>6 DEF IndexPage
      <4>2. read[s].state \in States
        BY <3>4, <4>1 DEF Forecasts
      <4> QED
        BY <4>1, <4>2 DEF Icon, States
    <3>7. ASSUME NEW s \in Sensors, s \notin DOMAIN IndexPage(read) PROVE read[s] = None
      BY <3>7 DEF IndexPage
    <3> QED
      BY <2>0, <3>1, <3>5, <3>6, <3>7 DEF PageIsTrue
  <2>2. CASE request.sensor # N
    BY <1>1, <1>6, <2>0, <2>2 DEF List
  <2> QED
    BY <2>1, <2>2
<1>7. ASSUME NEW ok \in BOOLEAN, ReadRow(ok) PROVE PageIsTrue'
  BY <1>1, <1>2, <1>7 DEF ReadRow, Answer, Kinds, history
<1>8. CASE TooSlow
  BY <1>2, <1>8 DEF TooSlow, Answer
<1>9. ASSUME NEW ok \in BOOLEAN, NEW p, ReadPreds(ok, p) PROVE PageIsTrue'
  <2>1. request.step = "preds" /\ (reply'.kind = request.kind \/ reply'.kind = "detail")
    BY <1>9 DEF ReadPreds, Answer, Handling
  <2>2. request.kind \in Kinds \ {"index"}
    BY <1>0, <2>1 DEF CopiesSeen, Kinds
  <2> QED
    BY <1>2, <2>1, <2>2 DEF Kinds
<1>10. ASSUME NEW ok \in BOOLEAN, NEW p, Tally(ok, p) PROVE PageIsTrue'
  BY <1>1, <1>2, <1>10 DEF Tally, Answer, Kinds, history
<1> QED
  BY <1>3, <1>4, <1>5, <1>6, <1>7, <1>8, <1>9, <1>10 DEF Next, Handler

-----------------------------------------------------------------------------
(* The tables are in order, whatever fails and whenever the process ends:  *)
(* every row, and the copy of one that a handler holds, has its prediction *)
(* unless it could not be written or was deleted for its age, and the      *)
(* gauges of the ETAs trail that of the utilization but for the moments    *)
(* between the calls that set them.                                        *)
THEOREM RowsHavePredictions == Spec => []IInv
<1>1. Init => IInv
  BY InitHolds
<1> QED
  BY <1>1, InvStep, PTL DEF Spec

(* No answer of budget-status or of the detail page combines a state with  *)
(* the ETA of an earlier forecast, however its two queries interleave with *)
(* the poll round and with the deletion of old predictions, and whichever  *)
(* of them fails; nor is an ETA of the accuracy page behind all rows its   *)
(* sensor had since the request.                                           *)
THEOREM AnswersCombineWell == Spec => []AnswersAgree
<1>1. Init => IInv /\ AnswersAgree
  BY InitHolds
<1>2. IInv /\ AnswersAgree /\ [Next]_vars => (IInv /\ AnswersAgree)'
  BY InvStep, AnswerStep
<1> QED
  BY <1>1, <1>2, PTL DEF Spec

(* Every line of the index page shows what its sensor's row said at some   *)
(* time since the request, whatever the poll round writes while the        *)
(* handler goes through the sensors (handleIndex, eachState), and only a   *)
(* sensor that had no row, or whose row could not be read, has no line.    *)
THEOREM IndexIsTrue == Spec => []PageIsTrue
<1>1. Init => IInv /\ PageIsTrue
  BY InitHolds
<1>2. IInv /\ PageIsTrue /\ [Next]_vars => (IInv /\ PageIsTrue)'
  BY InvStep, PageStep
<1> QED
  BY <1>1, <1>2, PTL DEF Spec
=============================================================================
