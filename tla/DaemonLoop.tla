----------------------------- MODULE DaemonLoop -----------------------------
(***************************************************************************)
(* The main loop of the daemon (Run, cmd/sentinel/daemon.go) and the jobs  *)
(* it does after a poll round: the weekly cost summary, the daily digest   *)
(* and the pruning of old predictions.  Each of them runs at most once per *)
(* week or day, by a row of sensor_state that names the last period done.  *)
(*                                                                         *)
(* The poll round itself is SensorNotify and the waste scan is             *)
(* WasteLifecycle; here a round only leaves new states and predictions in  *)
(* the store.  A day has two halves: before and after daily_digest_time.   *)
(*                                                                         *)
(* Telegram.Send posts a message up to three times: an attempt that is     *)
(* answered with a 5xx, or not at all, is repeated, whether or not the     *)
(* message has arrived.  One Send can therefore deliver several copies.    *)
(***************************************************************************)
EXTENDS Integers

CONSTANTS
  Sensors,         \* sensors of d.sensors
  States,          \* the states a sensor can have
  MaxDay,          \* the last day of the model, which never ends
  Week,            \* the ISO week of a day
  Configs          \* what the settings may be (Startup has how they come about):
                   \*   billing:   a billing source is configured
                   \*   digest:    daily_digest_time is set
                   \*   scan:      waste_scan_interval_sec > 0
                   \*   retention: predictions_retention_days; 0 keeps them all

Days == 0..MaxDay

ASSUME LoopConstantsOK ==
  /\ MaxDay \in Nat
  /\ Week \in [Days -> Nat]
  /\ \A d, e \in Days : d <= e => Week[d] <= Week[e]
  /\ Configs \subseteq [billing : BOOLEAN, digest : BOOLEAN, scan : BOOLEAN, retention : Nat]

VARIABLES
  cfg,           \* the settings of the daemon
  day, late,     \* the clock: which day, and whether the digest is due on it
  pc,            \* where the goroutine is
  attempt,       \* attempts made by the Send in progress
  text,          \* the digest in progress: states shown, changes listed
  weekKey,       \* the week of the summary begun last
  dayKey,        \* the day of the digest begun last
  pruneKey,      \* the day of the deletion just made
  states,        \* store: the state of each sensor
  weekRow,       \* store: week of the last registered summary
  dayRow,        \* store: day of the last registered digest
  snap,          \* store: the states of that digest
  pruneRow,      \* store: day of the last pruning
  table,         \* store: the days whose predictions are kept, at first
                 \* those of an older database, if any
  copies,        \* world: copies delivered by the Send in progress
  summaries,     \* world: Sends of that week's summary that delivered any
  digests,       \* world: Sends of that day's digest that delivered any
  shown,         \* world: the states in the last digest delivered
  doubt,         \* history: which of the two may not be registered
  snapDoubt      \* history: snap may not be what was shown

given   == <<cfg, day, late>>
sending == <<attempt, copies>>
weekly  == <<weekKey, weekRow, summaries>>
daily   == <<dayKey, dayRow, text, snap, digests, shown, snapDoubt>>
pruned  == <<pruneKey, pruneRow, table>>
vars    == <<given, pc, sending, states, weekly, daily, pruned, doubt>>

Attempts == 3
Unset   == "unset"             \* no row for this sensor
None    == -1                  \* no row for this job
Earlier == -1                  \* the day before the daemon was first started
Steps   == {"start", "enter", "select", "weekly", "weeklySend", "weeklySave",
            "digest", "digestSend", "digestSave", "snapSave", "prune",
            "pruneSave", "stopped", "panicked"}
NoText  == [shown |-> [s \in Sensors |-> Unset], listed |-> {}]
OneMore(n) == IF n = 0 THEN 1 ELSE 2

TypeOK ==
  /\ cfg \in Configs
  /\ day \in Days /\ late \in BOOLEAN
  /\ pc \in Steps
  /\ attempt \in 0..(Attempts - 1) /\ copies \in 0..2
  /\ text \in [shown : [Sensors -> States \cup {Unset}], listed : SUBSET Sensors]
  /\ {weekKey, weekRow, dayKey, dayRow, pruneRow} \subseteq Nat \cup {None}
  /\ pruneKey \in Nat
  /\ {summaries, digests} \subseteq 0..2
  /\ {states, snap, shown} \subseteq [Sensors -> States \cup {Unset}]
  /\ snapDoubt \in BOOLEAN
  /\ table \subseteq Earlier..day
  /\ doubt \subseteq {"day", "week"}

Init ==
  /\ cfg \in Configs
  /\ day = 0 /\ late \in BOOLEAN
  /\ pc = "start"
  /\ attempt = 0 /\ copies = 0
  /\ text = NoText
  /\ weekKey = None /\ weekRow = None /\ summaries = 0
  /\ dayKey = None /\ dayRow = None /\ digests = 0
  /\ states = [s \in Sensors |-> Unset]
  /\ snap = [s \in Sensors |-> Unset]
  /\ shown = [s \in Sensors |-> Unset]
  /\ snapDoubt = FALSE
  /\ pruneKey = 0 /\ pruneRow = None
  /\ table \in SUBSET {Earlier}
  /\ doubt = {}

-----------------------------------------------------------------------------
(* The loop.  What fires is left open: a tick may always be waiting when    *)
(* the goroutine selects, and the context may be cancelled at any time.    *)

(* A poll round: some sensors get a new state, some a prediction; it ends  *)
(* the loop when the context is cancelled.                                 *)
PollRound(next) ==
  /\ states' \in [Sensors -> States \cup {Unset}]
  /\ \A s \in Sensors : states'[s] = Unset => states[s] = Unset
  /\ table' \in {table} \cup {table \cup {day} : s \in Sensors}
  /\ pc' \in {next, "stopped"}
  /\ UNCHANGED <<given, sending, weekly, daily, pruneKey, pruneRow, doubt>>

(* The first round, and the first waste scan.                              *)
FirstRound == pc = "start" /\ PollRound("enter")

(* Entering select evaluates wasteTicker.C, which panics on a nil ticker.  *)
EnterSelect ==
  /\ pc = "enter"
  /\ pc' = IF cfg.scan THEN "select" ELSE "panicked"
  /\ UNCHANGED <<given, sending, states, weekly, daily, pruned, doubt>>

(* The context is cancelled, or one of the two servers has failed.         *)
Finish ==
  /\ pc = "select"
  /\ pc' = "stopped"
  /\ UNCHANGED <<given, sending, states, weekly, daily, pruned, doubt>>

(* Mutant: the summary is left out after a poll.                           *)
TakeTickNoSummary == pc = "select" /\ PollRound("digest")

TakeTick == pc = "select" /\ PollRound("weekly")

TakeScan ==
  /\ pc = "select"
  /\ pc' = "enter"
  /\ UNCHANGED <<given, sending, states, weekly, daily, pruned, doubt>>

-----------------------------------------------------------------------------
(* Telegram.Send.                                                          *)

Outcomes == {"ok", "again", "refused"}

Arrived(delivered) == IF delivered THEN OneMore(copies) ELSE copies

(* One attempt: accepted; not answered in time or answered with a 5xx,     *)
(* which is tried again; or refused, which is not.  The goroutine goes on  *)
(* to one of the two steps when the Send is over.                          *)
Post(delivered, outcome, sent, failed) ==
  /\ outcome = "ok" => delivered
  /\ outcome = "refused" => ~delivered
  /\ LET repeated == outcome = "again" /\ attempt < Attempts - 1 IN
     /\ attempt' = IF repeated THEN attempt + 1 ELSE 0
     /\ pc' = IF repeated THEN pc ELSE IF outcome = "ok" THEN sent ELSE failed
     /\ copies' = IF repeated \/ outcome = "ok" THEN Arrived(delivered) ELSE 0

(* The first copy of this Send.                                            *)
First(delivered) == delivered /\ copies = 0

(* The Send fails although the message is there.                           *)
Unanswered(delivered, failed) == pc' = failed /\ Arrived(delivered) > 0

-----------------------------------------------------------------------------
(* maybeWeeklyCost.                                                        *)

(* The row names this week; a row that cannot be read counts as none.      *)
WeeklyDone == weekRow = Week[day]

(* Nothing to do, or the spending cannot be fetched.                       *)
WeeklySkip ==
  /\ pc = "weekly"
  /\ pc' = "digest"
  /\ UNCHANGED <<given, sending, states, weekly, daily, pruned, doubt>>

(* The week is taken and the message composed.                             *)
WeeklyBegin(readOK) ==
  /\ pc = "weekly" /\ cfg.billing
  /\ readOK => ~WeeklyDone
  /\ weekKey' = Week[day]
  /\ summaries' = IF weekKey = Week[day] THEN summaries ELSE 0
  /\ doubt' = (IF weekKey = Week[day] THEN doubt ELSE doubt \ {"week"})
                \cup (IF WeeklyDone THEN {"week"} ELSE {})
  /\ pc' = "weeklySend"
  /\ UNCHANGED <<given, sending, states, weekRow, daily, pruned>>

WeeklyAttempt(delivered, outcome) ==
  /\ pc = "weeklySend"
  /\ Post(delivered, outcome, "weeklySave", "digest")
  /\ summaries' = IF First(delivered) THEN OneMore(summaries) ELSE summaries
  /\ doubt' = IF Unanswered(delivered, "digest") THEN doubt \cup {"week"} ELSE doubt
  /\ UNCHANGED <<given, states, weekKey, weekRow, daily, pruned>>

(* The outcome of SetState is ignored.                                     *)
WeeklySave(ok) ==
  /\ pc = "weeklySave"
  /\ weekRow' = IF ok THEN weekKey ELSE weekRow
  /\ doubt' = IF ok THEN doubt ELSE doubt \cup {"week"}
  /\ copies' = 0
  /\ pc' = "digest"
  /\ UNCHANGED <<given, attempt, states, weekKey, summaries, daily, pruned>>

-----------------------------------------------------------------------------
(* maybeDailyDigest.                                                       *)

DigestDone == dayRow = day

DigestSkip ==
  /\ pc = "digest"
  /\ ~cfg.digest \/ ~late \/ DigestDone
  /\ pc' = "prune"
  /\ UNCHANGED <<given, sending, states, weekly, daily, pruned, doubt>>

(* The states the digest shows: a sensor whose row cannot be read is left  *)
(* out.                                                                    *)
Current(seen) == [s \in Sensors |-> IF s \in seen THEN states[s] ELSE Unset]

(* digestChanges: sensors known to the snapshot whose state is another now. *)
Changes(old, new) == {s \in Sensors : Unset \notin {old[s], new[s]} /\ old[s] # new[s]}

(* The day is taken and the message composed; without the snapshot it      *)
(* lists no change.                                                        *)
DigestBegin(seen, readOK, snapReadOK) ==
  /\ pc = "digest" /\ cfg.digest /\ late
  /\ readOK => ~DigestDone
  /\ dayKey' = day
  /\ digests' = IF dayKey = day THEN digests ELSE 0
  /\ doubt' = (IF dayKey = day THEN doubt ELSE doubt \ {"day"})
                \cup (IF DigestDone THEN {"day"} ELSE {})
  /\ text' = [shown  |-> Current(seen),
              listed |-> IF snapReadOK THEN Changes(snap, Current(seen)) ELSE {}]
  /\ pc' = "digestSend"
  /\ UNCHANGED <<given, sending, states, weekly, dayRow, snap, shown, snapDoubt, pruned>>

DigestAttempt(delivered, outcome) ==
  /\ pc = "digestSend"
  /\ Post(delivered, outcome, "digestSave", "prune")
  /\ digests' = IF First(delivered) THEN OneMore(digests) ELSE digests
  /\ shown' = IF delivered THEN text.shown ELSE shown
  /\ text' = IF pc' = "prune" THEN NoText ELSE text
  /\ doubt' = IF Unanswered(delivered, "prune") THEN doubt \cup {"day"} ELSE doubt
  /\ snapDoubt' = (snapDoubt \/ Unanswered(delivered, "prune"))
  /\ UNCHANGED <<given, states, weekly, dayKey, dayRow, snap, pruned>>

(* The day, then the snapshot, each in a write of its own.                 *)
DigestSave(ok) ==
  /\ pc = "digestSave"
  /\ dayRow' = IF ok THEN dayKey ELSE dayRow
  /\ doubt' = IF ok THEN doubt ELSE doubt \cup {"day"}
  /\ copies' = 0
  /\ pc' = "snapSave"
  /\ UNCHANGED <<given, attempt, states, weekly, dayKey, text, snap, digests,
                 shown, snapDoubt, pruned>>

(* Mutants: the snapshot keeps what it knows; it is written over the row   *)
(* that names the day.                                                     *)
SnapSaveNew(ok) ==
  /\ pc = "snapSave"
  /\ snap' = IF ok
             THEN [s \in Sensors |-> IF snap[s] = Unset THEN text.shown[s] ELSE snap[s]]
             ELSE snap
  /\ snapDoubt' = ~ok
  /\ text' = NoText
  /\ pc' = "prune"
  /\ UNCHANGED <<given, sending, states, weekly, dayKey, dayRow, digests, shown,
                 pruned, doubt>>
SnapSaveOverDay(ok) ==
  /\ pc = "snapSave"
  /\ snap' = IF ok THEN text.shown ELSE snap
  /\ dayRow' = IF ok THEN None ELSE dayRow
  /\ snapDoubt' = ~ok
  /\ text' = NoText
  /\ pc' = "prune"
  /\ UNCHANGED <<given, sending, states, weekly, dayKey, digests, shown, pruned, doubt>>

(* The states just shown: no round runs between the message and this.      *)
SnapSave(ok) ==
  /\ pc = "snapSave"
  /\ snap' = IF ok THEN text.shown ELSE snap
  /\ snapDoubt' = ~ok
  /\ text' = NoText
  /\ pc' = "prune"
  /\ UNCHANGED <<given, sending, states, weekly, dayKey, dayRow, digests, shown,
                 pruned, doubt>>

-----------------------------------------------------------------------------
(* maybePrunePredictions.                                                  *)

PruneSkip ==
  /\ pc = "prune"
  /\ cfg.retention = 0 \/ pruneRow = day
  /\ pc' = "enter"
  /\ UNCHANGED <<given, sending, states, weekly, daily, pruned, doubt>>

(* What the deletion leaves: all that is younger than the retention and,   *)
(* of the day the cut falls in, some or nothing.                           *)
Pruned(rows) == {kept \in SUBSET rows : \A p \in rows :
                   /\ p > day - cfg.retention => p \in kept
                   /\ p < day - cfg.retention => p \notin kept}

Prune(readOK, ok) ==
  /\ pc = "prune" /\ cfg.retention > 0
  /\ readOK => pruneRow # day
  /\ table' \in IF ok THEN Pruned(table) ELSE {table}
  /\ pruneKey' = IF ok THEN day ELSE 0
  /\ pc' = IF ok THEN "pruneSave" ELSE "enter"
  /\ UNCHANGED <<given, sending, states, weekly, daily, pruneRow, doubt>>

PruneSave(ok) ==
  /\ pc = "pruneSave"
  /\ pruneRow' = IF ok THEN pruneKey ELSE pruneRow
  /\ pruneKey' = 0
  /\ pc' = "enter"
  /\ UNCHANGED <<given, sending, states, weekly, daily, table, doubt>>

-----------------------------------------------------------------------------
(* Around the loop.                                                        *)

(* What has been delivered by a Send in progress, or not yet registered.   *)
Unregistered ==
  (IF pc \in {"digestSend", "digestSave"} /\ copies > 0 THEN {"day"} ELSE {})
    \cup (IF pc \in {"weeklySend", "weeklySave"} /\ copies > 0 THEN {"week"} ELSE {})

(* The process stops, anywhere, and its supervisor starts it again.        *)
Restart ==
  /\ pc' = "start"
  /\ attempt' = 0 /\ copies' = 0
  /\ text' = NoText
  /\ pruneKey' = 0
  /\ doubt' = doubt \cup Unregistered
  /\ snapDoubt' = (snapDoubt \/ pc = "snapSave" \/ "day" \in Unregistered)
  /\ UNCHANGED <<given, states, weekly, dayKey, dayRow, snap, digests, shown,
                 pruneRow, table>>

DigestTimeComes ==
  /\ ~late
  /\ late' = TRUE
  /\ UNCHANGED <<cfg, day, pc, sending, states, weekly, daily, pruned, doubt>>

Midnight ==
  /\ late /\ day < MaxDay
  /\ day' = day + 1
  /\ late' = FALSE
  /\ UNCHANGED <<cfg, pc, sending, states, weekly, daily, pruned, doubt>>

Job == \/ WeeklySkip
       \/ \E readOK \in BOOLEAN : WeeklyBegin(readOK)
       \/ \E delivered \in BOOLEAN, outcome \in Outcomes : WeeklyAttempt(delivered, outcome)
       \/ \E ok \in BOOLEAN : WeeklySave(ok)
       \/ DigestSkip
       \/ \E seen \in SUBSET Sensors, readOK, snapReadOK \in BOOLEAN :
            DigestBegin(seen, readOK, snapReadOK)
       \/ \E delivered \in BOOLEAN, outcome \in Outcomes : DigestAttempt(delivered, outcome)
       \/ \E ok \in BOOLEAN : DigestSave(ok)
       \/ \E ok \in BOOLEAN : SnapSave(ok)
       \/ PruneSkip
       \/ \E readOK, ok \in BOOLEAN : Prune(readOK, ok)
       \/ \E ok \in BOOLEAN : PruneSave(ok)

Loop == \/ FirstRound
        \/ EnterSelect
        \/ TakeTick
        \/ TakeScan
        \/ Job

Next == \/ Loop
        \/ Finish
        \/ Restart
        \/ DigestTimeComes
        \/ Midnight

Spec == Init /\ [][Next]_vars

(* Time passes and the goroutine goes on; the poll ticker fires for ever,  *)
(* and select, which chooses at random among what is ready, takes its tick *)
(* again and again.  What is tried for ever succeeds for ever: the digest, *)
(* the summary (with the fetch before it), the attempt at sending them and *)
(* the deletion.  Nothing is assumed of the waste ticker, nor of the       *)
(* SetState calls.                                                         *)
Fairness ==
  /\ WF_vars(DigestTimeComes)
  /\ WF_vars(Midnight)
  /\ WF_vars(Loop)
  /\ SF_vars(TakeTick)
  /\ SF_vars(WeeklyBegin(TRUE))
  /\ SF_vars(WeeklyAttempt(TRUE, "ok"))
  /\ SF_vars(\E seen \in SUBSET Sensors : DigestBegin(seen, TRUE, TRUE))
  /\ SF_vars(DigestAttempt(TRUE, "ok"))
  /\ SF_vars(Prune(TRUE, TRUE))

LiveSpec == Spec /\ Fairness

-----------------------------------------------------------------------------
(* Safety.                                                                 *)

(* At most one digest of a day and one summary of a week is sent, over any *)
(* number of restarts and over midnight, unless a registration was lost:   *)
(* a Send that reported an error although the message was there, a write   *)
(* or a read that failed, a crash between the message and the write        *)
(* (daily_digest.go:43, daemon.go:557).  The copies one Send delivers are  *)
(* one message here: that there is only one, as those comments say, would  *)
(* be false, since an attempt that arrived without an answer is repeated.  *)
OncePerPeriod == /\ digests = 2 => "day" \in doubt
                 /\ summaries = 2 => "week" \in doubt

(* The changes a digest lists when it goes out are changes against the     *)
(* digest the operator saw before it, whatever polls, restarts and failed  *)
(* writes came between; a snapshot that cannot be read leaves them out.    *)
ListTellsTheTruth ==
  pc = "digestSend" /\ copies = 0 /\ ~snapDoubt
    => text.listed \in {{}, Changes(shown, text.shown)}

-----------------------------------------------------------------------------
(* The inductive invariant behind the properties above.                    *)

(* A message delivered for the period begun last is registered, on its way *)
(* to be, or in doubt; one about to be repeated from the start is in doubt. *)
DigestInv ==
  digests > 0 /\ "day" \notin doubt
    => IF pc \in {"digestSend", "digestSave"} THEN copies > 0 ELSE dayRow = dayKey

SummaryInv ==
  summaries > 0 /\ "week" \notin doubt
    => IF pc \in {"weeklySend", "weeklySave"} THEN copies > 0 ELSE weekRow = weekKey

(* What is registered was begun, what is begun is not of the future, and a *)
(* copy that was delivered is counted.                                     *)
KeyInv == /\ dayRow <= dayKey /\ dayKey <= day
          /\ weekRow <= weekKey /\ weekKey <= Week[day]
          /\ copies > 0 => pc \in {"weeklySend", "weeklySave", "digestSend", "digestSave"}
          /\ pc \in {"weeklySave", "digestSave"} => copies > 0
          /\ pc = "digestSend" /\ copies > 0 => digests > 0
          /\ pc = "weeklySend" /\ copies > 0 => summaries > 0

(* The snapshot, once it is written, is what the operator saw.             *)
SnapInv ==
  IF pc \in {"digestSave", "snapSave"} \/ (pc = "digestSend" /\ copies > 0)
  THEN text.shown = shown
  ELSE snapDoubt \/ snap = shown

IInv == TypeOK /\ OncePerPeriod /\ ListTellsTheTruth /\ DigestInv /\ SummaryInv
               /\ KeyInv /\ SnapInv

-----------------------------------------------------------------------------
(* Liveness, once the process is neither stopped nor restarted.            *)

Alive == <>[][~Restart]_vars /\ <>[](pc \notin {"stopped", "panicked"})

(* The digest of the day comes, in spite of failed sends and of jobs that  *)
(* begin on one day and end on the next.                                   *)
DigestComes == Alive /\ cfg.digest => <>(dayKey = MaxDay /\ digests > 0)

(* So does the summary of the week.                                        *)
SummaryComes == Alive /\ cfg.billing
                  => <>(weekKey = Week[MaxDay] /\ summaries > 0)

(* Predictions of days before the retention are removed and stay removed,  *)
(* in spite of deletions that fail and of days on which none succeeds.     *)
TableIsPruned == Alive /\ cfg.retention > 0
                   => <>[](\A p \in table : p >= day - cfg.retention)

JobsComeDue == DigestComes /\ SummaryComes /\ TableIsPruned

=============================================================================
