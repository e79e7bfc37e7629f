---------------------------- MODULE BudgetEngine ----------------------------
(***************************************************************************)
(* The forecast engine (internal/budget/engine.go, evaluate.go) under one  *)
(* sensor that polls it: a capacity sensor (internal/capacity/sensor.go),  *)
(* or the poll closure of an SLO budget (setupSensors, cmd/sentinel/       *)
(* daemon.go).                                                             *)
(*                                                                         *)
(* Time goes in sampling steps.  The metric has one value, or none, at     *)
(* each step; the windows look back a number of steps.  Slopes are exact:  *)
(* a rate is counted in 1/Unit per step and a slope, which may be the mean *)
(* of two rates, in 1/(2*Unit).  Epsilon is 0.                             *)
(***************************************************************************)
EXTENDS Integers, FiniteSets

CONSTANTS
  Values,         \* values of the metric
  Ceilings,       \* values of the ceiling
  Kinds,          \* kinds of sensor: capacity, slo
  Hour,           \* the horizon of 1h, in steps
  Long,           \* the longest horizon
  MaxGap,         \* a longer gap between samples splits the series (5 minutes)
  MaxPoints,      \* a longer run is decimated (100)
  CritEta, WarnEta, CritPercent, SoftPercent,  \* Thresholds
  ExitPolls,      \* DefaultExitPolls
  Unit,           \* a multiple of every distance between samples
  MaxDuration,    \* the longest time.Duration
  OverflowToMin   \* the build converts longer ones to the least int64 (amd64)

ASSUME EngineConstantsOK ==
  /\ Values \subseteq Nat
  /\ Ceilings \subseteq Nat \ {0}
  /\ Kinds \subseteq {"capacity", "slo"}
  /\ OverflowToMin \in BOOLEAN
  /\ Hour \in Nat \ {0} /\ Long \in Nat /\ Hour < Long
  /\ MaxGap \in Nat \ {0} /\ MaxPoints \in Nat /\ MaxPoints >= 5
  /\ CritEta \in Nat /\ WarnEta \in Nat /\ CritEta < WarnEta
  /\ CritPercent \in Nat /\ SoftPercent \in Nat /\ SoftPercent < CritPercent
  /\ ExitPolls \in Nat \ {0}
  /\ Unit \in Nat \ {0} /\ \A d \in 1..Long : Unit % d = 0
  /\ MaxDuration \in Nat /\ WarnEta < MaxDuration

VARIABLES
  kind,         \* the kind of the sensor, which never changes
  series,       \* the metric, by age in steps
  prevCeiling,  \* Sensor.prevCeiling (0 before the first poll)
  prevState,    \* Sensor.prevState
  streak,       \* Sensor.streak
  forecast      \* what the last poll returned

engineVars == <<kind, series, prevCeiling, prevState, streak, forecast>>

Gap     == -1                               \* no sample at that step
Windows == {Hour, Long}
States  == {"healthy", "warning", "critical"}

(* An ETA is the room below the ceiling over a slope; slope 0 is no ETA.   *)
NoForecast == [ok |-> FALSE, valid |-> {}, aggressive |-> 0, conservative |-> 0,
               room |-> 0, jumped |-> FALSE, state |-> "healthy"]

EngineTypeOK ==
  /\ kind \in Kinds
  /\ series \in [0..Long -> Values \cup {Gap}]
  /\ prevCeiling \in Ceilings \cup {0}
  /\ prevState \in States
  /\ streak \in 0..ExitPolls
  /\ forecast.ok \in BOOLEAN
  /\ forecast.valid \subseteq Windows
  /\ forecast.aggressive \in Nat /\ forecast.conservative \in Nat
  /\ forecast.room \in Int
  /\ forecast.jumped \in BOOLEAN
  /\ forecast.state \in States

EngineInit ==
  /\ kind \in Kinds
  /\ series = [a \in 0..Long |-> Gap]
  /\ prevCeiling = 0
  /\ prevState = "healthy"
  /\ streak = 0
  /\ forecast = NoForecast

-----------------------------------------------------------------------------
(* The slope of a run of samples.                                          *)

(* The k-th smallest key of the members of S, from 0.                      *)
Kth(S, key, k) ==
  CHOOSE v \in {key[x] : x \in S} :
    /\ Cardinality({x \in S : key[x] < v}) =< k
    /\ Cardinality({x \in S : key[x] =< v}) > k

(* The change from age b to the younger age a.                             *)
Rate(s, a, b) == ((s[a] - s[b]) * Unit) \div (b - a)

Pairs(run) == {p \in run \X run : p[1] < p[2]}

(* MaxPoints samples at equal distances, the first and the last included.  *)
Decimate(run) ==
  LET last  == Cardinality(run) - 1
      nth(i) == CHOOSE a \in run : Cardinality({b \in run : b > a}) = i
      at(i) == (2 * i * last + (MaxPoints - 1)) \div (2 * (MaxPoints - 1))
  IN  IF last < MaxPoints THEN run ELSE {nth(at(i)) : i \in 0..(MaxPoints - 1)}

(* Mutant: the mean in place of the median: the rate from end to end.      *)
EndToEnd(s, run) ==
  LET first == CHOOSE a \in run : \A b \in run : a >= b
      last  == CHOOSE a \in run : \A b \in run : a =< b
  IN  2 * Rate(s, last, first)

(* The median of the rates between all pairs.                              *)
TheilSenSlope(s, run) ==
  LET pairs == Pairs(Decimate(run))
      n     == Cardinality(pairs)
      rate  == [p \in pairs |-> Rate(s, p[1], p[2])]
  IN  IF n % 2 = 1 THEN 2 * Kth(pairs, rate, n \div 2)
      ELSE Kth(pairs, rate, n \div 2 - 1) + Kth(pairs, rate, n \div 2)

(* Mutant: gaps are ignored.                                               *)
OneRun(samples) == {samples}

(* The series, split where two neighbours are more than MaxGap apart.      *)
SplitByGaps(samples) ==
  LET firsts == {a \in samples : ~ \E b \in samples : a < b /\ b =< a + MaxGap}
  IN  {{b \in samples : b =< a /\ ~ \E f \in firsts : b =< f /\ f < a} : a \in firsts}

-----------------------------------------------------------------------------
(* One window.                                                             *)

IsBudget == kind = "slo"

(* The samples a window is judged by.  The SLO closure asks for one series *)
(* over the whole SLO window and hands it to every horizon.                *)
Span(w) == IF IsBudget THEN Long ELSE w

Samples(s, w) == {a \in 0..Span(w) : s[a] # Gap}

MinSamples(w) == (w * 83) \div 100

(* The runs that have a slope.                                             *)
Runs(s, w) == {run \in SplitByGaps(Samples(s, w)) : Cardinality(run) >= 2}

Valid(s, w, jumped) ==
  /\ Cardinality(Samples(s, w)) >= MinSamples(w)
  /\ ~jumped
  /\ Runs(s, w) # {}

(* The median over the runs; 0 when the metric does not grow.              *)
WindowSlope(s, w) ==
  LET runs  == Runs(s, w)
      slope == [r \in runs |-> TheilSenSlope(s, r)]
      beta  == Kth(runs, slope, Cardinality(runs) \div 2)
  IN  IF beta > 0 THEN beta ELSE 0

CeilingJumped(prev, new) ==
  /\ prev > 0
  /\ 100 * (IF new > prev THEN new - prev ELSE prev - new) > prev

-----------------------------------------------------------------------------
(* The verdict.                                                            *)

(* The time until the ceiling, room / slope, is less than limit.  The code *)
(* converts it to a time.Duration first.                                   *)
EtaBelow(room, slope, limit) ==
  /\ slope > 0
  /\ IF 2 * Unit * room >= MaxDuration * slope
     THEN OverflowToMin
     ELSE 2 * Unit * room < limit * slope

AtLeastPercent(value, ceiling, percent) == 100 * value >= percent * ceiling

(* Mutant: crit_eta is compared with the conservative ETA.                 *)
VerdictConservative(value, room, aggressive, conservative) ==
  IF \/ EtaBelow(room, conservative, CritEta)
     \/ AtLeastPercent(value, value + room, CritPercent)
  THEN "critical"
  ELSE IF EtaBelow(room, conservative, WarnEta) THEN "warning"
  ELSE "healthy"

(* Mutant: either ETA may be below crit_eta.                               *)
VerdictEither(value, room, aggressive, conservative) ==
  IF \/ EtaBelow(room, aggressive, CritEta)
     \/ EtaBelow(room, conservative, CritEta)
     \/ AtLeastPercent(value, value + room, CritPercent)
  THEN "critical"
  ELSE IF \/ /\ EtaBelow(room, aggressive, WarnEta)
             /\ AtLeastPercent(value, value + room, SoftPercent)
          \/ EtaBelow(room, conservative, WarnEta)
  THEN "warning"
  ELSE "healthy"

Verdict(value, room, aggressive, conservative) ==
  IF \/ EtaBelow(room, aggressive, CritEta)
     \/ AtLeastPercent(value, value + room, CritPercent)
  THEN "critical"
  ELSE IF \/ /\ EtaBelow(room, aggressive, WarnEta)
             /\ AtLeastPercent(value, value + room, SoftPercent)
          \/ EtaBelow(room, conservative, WarnEta)
  THEN "warning"
  ELSE "healthy"

(* A clear verdict takes effect after ExitPolls of them, or at once when   *)
(* the sensor was healthy, or is a budget, which has no memory.  The       *)
(* streak is only compared with ExitPolls and saturates there.             *)
Longer == IF streak < ExitPolls THEN streak + 1 ELSE streak

Decide(verdict) ==
  IF verdict # "healthy" THEN [state |-> verdict, streak |-> 0]
  ELSE [state  |-> IF IsBudget \/ Longer >= ExitPolls THEN "healthy" ELSE prevState,
        streak |-> Longer]

-----------------------------------------------------------------------------
(* Polls.                                                                  *)

Shift(v) == [a \in 0..Long |-> IF a = 0 THEN v ELSE series[a - 1]]

(* What is measured at this step.  A capacity sensor needs a sample, an    *)
(* SLO without one counts as 0.                                            *)
Measured(v) == IF v = Gap THEN 0 ELSE v

Jumped(ceiling) == ~IsBudget /\ CeilingJumped(prevCeiling, ceiling)

Evaluate(s, value, ceiling) ==
  LET valid    == {w \in Windows : Valid(s, w, Jumped(ceiling))}
      slope(w) == IF w \in valid THEN WindowSlope(s, w) ELSE 0
  IN  [ok |-> TRUE, valid |-> valid,
       aggressive |-> slope(Hour), conservative |-> slope(Long),
       room |-> ceiling - value, jumped |-> Jumped(ceiling)]

(* Every query is answered: the forecast is made and remembered.           *)
Poll(v, ceiling) ==
  /\ IsBudget \/ v # Gap
  /\ series' = Shift(v)
  /\ \E f \in {Evaluate(Shift(v), Measured(v), ceiling)} :
     LET new == Decide(Verdict(Measured(v), f.room, f.aggressive, f.conservative)) IN
     /\ forecast' = [k \in DOMAIN NoForecast |-> IF k = "state" THEN new.state ELSE f[k]]
     /\ UNCHANGED kind
     /\ IF IsBudget THEN UNCHANGED <<prevCeiling, prevState, streak>>
        ELSE /\ prevCeiling' = ceiling
             /\ prevState' = new.state
             /\ streak' = new.streak

(* A query fails, or a capacity sensor finds no sample: nothing is kept.   *)
PollFails(v) ==
  /\ series' = Shift(v)
  /\ forecast' = NoForecast
  /\ UNCHANGED <<kind, prevCeiling, prevState, streak>>

(* A hot reload or a restart makes a new sensor object.                    *)
Rebuild ==
  /\ prevCeiling' = 0
  /\ prevState' = "healthy"
  /\ streak' = 0
  /\ forecast' = NoForecast
  /\ UNCHANGED <<kind, series>>

EngineNext ==
  \/ \E v \in Values \cup {Gap}, ceiling \in Ceilings : Poll(v, ceiling)
  \/ \E v \in Values \cup {Gap} : PollFails(v)
  \/ Rebuild

EngineSpec == EngineInit /\ [][EngineNext]_engineVars

-----------------------------------------------------------------------------
(* Properties.                                                             *)

SlopeOf(w) == IF w = Hour THEN forecast.aggressive ELSE forecast.conservative

(* The ages of neighbours that no gap separates.                           *)
Neighbours(samples) ==
  {p \in Pairs(samples) :
     /\ p[2] - p[1] =< MaxGap
     /\ ~ \E a \in samples : p[1] < a /\ a < p[2]}

Rates(w) == {Rate(series, p[1], p[2]) : p \in Neighbours(Samples(series, w))}

(* Decimation, the pairs, the two medians and the gaps together never      *)
(* invent a trend: the slope of a window lies between the slowest and the  *)
(* fastest change of neighbouring samples (Theil-Sen, evalWindow).         *)
SlopeWithinRates ==
  \A w \in forecast.valid :
    /\ SlopeOf(w) > 0 => \E r \in Rates(w) : SlopeOf(w) =< 2 * r
    /\ \/ \E r \in Rates(w) : r =< 0
       \/ \E r \in Rates(w) : SlopeOf(w) >= 2 * r

(* What was returned is what the samples say: the windows that are valid,  *)
(* their slopes, and the verdict unless a clear one still waits.  This     *)
(* strengthening makes the invariant inductive.                            *)
FromTheSeries ==
  LET f        == forecast
      slope(w) == IF w \in f.valid THEN WindowSlope(series, w) ELSE 0
      verdict  == Verdict(Measured(series[0]), f.room, f.aggressive, f.conservative)
  IN  /\ ~f.ok => f.valid = {}
      /\ f.ok => /\ f.valid = {w \in Windows : Valid(series, w, f.jumped)}
                 /\ f.aggressive = slope(Hour) /\ f.conservative = slope(Long)
                 /\ f.state # verdict => verdict = "healthy"
                 /\ verdict = "healthy" => IF IsBudget THEN f.state = verdict ELSE streak > 0

EngineInv == EngineTypeOK /\ FromTheSeries /\ SlopeWithinRates

Unbroken(w) == \A a \in 0..w : series[a] # Gap

(* One sample that sticks out of a constant series of five or more leaves  *)
(* no ETA (TheilSenSlope; docs/engine-budget-capacity.md: a single spike   *)
(* cannot move the median).                                                *)
SpikeIgnored ==
  \A w \in forecast.valid :
    (Unbroken(Span(w)) /\ Span(w) >= 4 /\ \E v \in Values : \E a \in 0..Span(w) :
        \A b \in (0..Span(w)) \ {a} : series[b] = v)
      => SlopeOf(w) = 0

(* A metric that rose at every step of the last hour, by at least r, and   *)
(* would reach the ceiling at that pace within crit_eta, is critical, even *)
(* with a fifth of the samples missing at the hour's beginning; an SLO is  *)
(* judged by the whole window and makes no such promise.                   *)
FastGrowthIsCritical ==
  (/\ forecast.ok /\ ~forecast.jumped /\ ~IsBudget
   /\ \A a \in 0..(MinSamples(Hour) - 1) : series[a] # Gap
   /\ \A a \in MinSamples(Hour)..Hour : series[a] = Gap \/ series[a - 1] # Gap
   /\ \E r \in Rates(Hour) : /\ r > 0 /\ \A q \in Rates(Hour) : q >= r
                             /\ Unit * forecast.room < CritEta * r)
    => forecast.state = "critical"

(* Critical is a fast trend of the last hour or a full resource, never a   *)
(* slow trend, a trend of the long window alone, or the memory of an older *)
(* verdict (engine-budget-capacity.md, section 4): except on amd64 a trend *)
(* so slow that its ETA is beyond the range of time.Duration and converts  *)
(* to a negative one.                                                      *)
SlowGrowthIsNotCritical ==
  (forecast.ok /\ forecast.state = "critical" /\ (IsBudget \/ streak = 0))
    => LET value == Measured(series[0]) IN
       \/ AtLeastPercent(value, forecast.room + value, CritPercent)
       \/ 2 * Unit * forecast.room < CritEta * forecast.aggressive
       \/ /\ OverflowToMin /\ forecast.aggressive > 0
          /\ 2 * Unit * forecast.room >= MaxDuration * forecast.aggressive

=============================================================================
