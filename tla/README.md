# slo-sentinel: a verification development

slo-sentinel watches capacity metrics and SLO error budgets through
Prometheus, forecasts when they run out, tells an operator (Telegram, or a
triage gate in between), looks for wasted resources, reports costs, and has a
tool that writes definition files with a language model. This directory holds
TLA+ specifications translated from its Go source, the TLC configurations that
check them, and proofs checked by TLAPS. Paths below are relative to the
repository; file and line numbers of every definition are in the "map" of
`PROJECT.json`.

    tlc -config Loop.cfg MCDaemonLoop      # check a model
    tlapm SensorNotifyProofs.tla           # check the proofs of a module

## 1. The system

### Components, their state and operations

| Component | State | Operations | Module |
|---|---|---|---|
| Poll round (`cmd/sentinel/daemon.go` runOnePoll) | `d.sensors`, `d.notifyRetry`, row of `sensor_state` | poll, coordinate, notify, save | SensorNotify |
| Dedupe (`internal/alert/dedupe.go`) | `lastState`, in memory only | Peek, Commit | SensorNotify |
| Triage gate hand-over (`triage.go`, `am_publish.go`) | `d.publishedFiring` | triageHandled, Publish | SensorNotify |
| Forecast engine (`internal/budget`) | none of its own | Evaluate, TheilSenSlope, SplitByGaps, decide | BudgetEngine |
| Capacity sensor (`internal/capacity`) | previous ceiling, state, streak | New, Poll, LoadDefs | BudgetEngine, HotReload |
| Main loop and jobs (`daemon.go` Run, `daily_digest.go`, `predictions_retention.go`) | rows naming the last week or day done, snapshot of the digest, predictions | select, weekly summary, daily digest, pruning | DaemonLoop |
| Waste lifecycle (`internal/waste/tracker.go`, `internal/store/waste.go`, `cmd/sentinel/waste_cli.go`) | Tracker entries, rows of `waste_entries`, the command line's own Tracker | Observe, Dismiss, Resolve, Restore, persist | WasteLifecycle |
| Hot reload (`internal/watch`, `internal/catalog/watch.go`, setupSensors) | `d.sensors`, `d.capDefs`, `d.sensorMeta`, `d.lastCatalog` | watch, debounce, reload | HotReload |
| sentinel-gen (`cmd/sentinel-gen`) | the definition file and its `.bak` | generate, review, verify, fix | SentinelGen |
| Store (`internal/store`) | SQLite | Open and migrate, upserts, reads, pruning | Startup; as seen by its callers elsewhere |
| Configuration (`config`, newDaemon), start of every process (`main.go`, `status.go`, `waste_cli.go`) | settings of a process | Load, apply, validate, environment | Config, Startup |
| Rule catalog (`internal/catalog`, `cmd/ruleclassify`, `scripts/sync-community.sh`) | rule files, `UPSTREAM_COMMIT`, `d.lastCatalog` | sync, classify, Load | RuleCatalog |
| SLO definitions (`internal/spec`) | loaded definitions | Load | a version in HotReload |
| Waste scanner (`internal/waste/waste.go`), Prometheus client (`internal/query`), duration parser (`internal/promdur`) | none of their own | Scan, RangeQuery with retries, Parse | WasteScanner, PromDuration |
| Read API and metrics (`api.go`), index page (`cmd/sentinel-ui`) | `d.metrics`, answers in progress | handlers, renderText, Set | ReadApi |
| Billing (`internal/billing`), projection and weekly growth (`internal/cost`) | rows of a request | DailySpend, ProjectEOM, WeeklyTopGrowth | CostReport |
| Pricing (`internal/pricing`) | cache files | Quote, Load, Store, GetProducts, FindOnDemandRates, QuerySkuPriceList | PriceCache |
| Prices in the scan (`applyPricing`), spend estimate (`internal/cost/estimate.go`), handlers of `/api/waste` and `/api/cost` (`api.go`) | none of their own | Scan, applyPricing, EstimateSpend | PriceCache |
| Web interface, other pages; waste recipes | none | pages, a proxy | not modelled (section 6) |

### How they interact

One goroutine runs `Run`: a `select` over a poll ticker, a waste ticker, the
context and two server errors. A poll tick runs a whole round over
`d.sensors`, then the weekly summary, the digest and the pruning, one after
the other. Beside it run a goroutine per watched directory, a goroutine per
debounced change (which replaces `d.sensors`, `d.capDefs`, `d.lastCatalog`
and writes `d.sensorMeta` without a lock), the HTTP servers, and, as another
process on the same database, the `waste` and `status` commands. The scan of
the loop and the handlers of the API ask for prices at the same time and meet
in the cache files; the handlers read the tables and the map of metrics while
a round writes them. The operator, the gate, AlertManager, Prometheus and the disk are the world: each call to them may
fail, or take effect and be reported as failed.

### What is hard, and what makes each part correct

* **Notification.** The dedupe memory, the backoff and the open incidents
  live in memory, what the operator and the gate know does not. A state must
  be registered as told only after it was, a message must be news, a resolved
  must close something, and no failed send may lose a lasting state.
* **Waste lifecycle.** Two processes write whole copies of the table. A
  dismissal must silence until its deadline through scans, other commands
  and crashes; a reminder must come again after failures.
* **Jobs.** A period is registered after the send, in a second write, perhaps
  on the next day. Never two digests of one day unless the registration was
  lost; a true list of changes; and each job is done in the end.
* **Hot reload.** Reloads overlap, files break and are repaired, reads fail.
  The sensors must come from definitions that parsed and, when all is quiet,
  from those on the disk.
* **Engine.** Gaps, decimation, two medians and a threshold chain must not
  invent a trend nor miss one.
* **Prices.** Callers read and write the same cache files in place, sources
  fail in the middle of their pages. A price not marked as stale must be
  recent, a known price must not be lost, and an old one must not live on by
  being used.
* **Start.** Several processes migrate one database, statement and row in two
  steps, and may be killed between them. Whoever uses the tables must find
  them whole; settings must be those that file and environment ask for.
* **Rules.** A script, a tool, people and the loader work on the same files,
  one file after the other. A rule must end up with the kind it was meant to
  have, hand-written kinds must stay, and a resource must be judged by all of
  its days.
* **Answers.** The tables are written row by row while handlers read them row
  by row. A state must not be combined with the forecast of an earlier one.
* **Costs.** Bills arrive late, and between the pages of one answer. No day may
  count twice, and a steady service must not seem to grow.
* **sentinel-gen.** Killed or failed anywhere, `fix` must leave a whole copy,
  and what the tool calls sound must be loadable.

The full list of hazards, each at its line with the properties that would
catch it, is in `PROJECT.json`.

## 2. The modules

`NotifyContract` is the abstract specification of the notification path;
`SensorNotify` implements it (`ImplementsContract`, by `INSTANCE ... WITH
believed <- Known`). The other modules stand for themselves and abstract
their neighbours: `DaemonLoop` sees a poll round as "states and predictions
changed", `SensorNotify` sees the engine as a verdict with a hysteresis,
`HotReload` sees a round as something that ranges over `d.sensors`,
`WasteLifecycle` lets a scan find any set of candidates. Two modules are
composed of others: `Startup` EXTENDS `Config`, whose operators are its
settings, and `WasteScanner` EXTENDS `RuleCatalog`, whose steps go on beside
the scan, which EXTENDS `PromDuration`.
The `MC...` modules give the functions and sets among the constants of an
instance; SensorNotify, HotReload, BudgetEngine and SentinelGen are run as
they are. The `...Proofs`
modules hold the theorems. An operator with the comment "Mutant" is a
plausible bug in the definition that follows it; no specification uses it.

**SensorNotify** (`runOnePoll`, `triageHandled`, Dedupe, backoff). `pc` walks
through the steps of one sensor in the order of the code: `PollOK`/`PollFailed`,
`Coordinate` (AlertManager, `Peek`, `allowNotify`, in the order of the
short-circuit condition), `PublishOK`/`PublishError`, `NoteThenCommit`, or
`SendOK`/`SendError`, then `SaveOK`/`SaveError`. `Reload` replaces the sensor
objects while the round keeps the old ones (`ranged`, `stale`); `Restart`
forgets all memory. `told` and `incident` are what the operator and the gate
know; `inDoubt` and `gateDoubt` mark where the daemon cannot know it (an
ambiguous call, a restart). The metric is the verdict its thresholds give.

**NotifyContract.** `told`, `believed` and `inDoubt`: deliver, confirm, both,
or forget. A delivery is news against what the daemon believes.

**WasteLifecycle.** `mem` is the daemon's Tracker, `rows` the table, `cli` the
command in progress with its own copy of all entries. `StartScan`, `Observe`,
`SendOK`/`SendError`, `ScanDone`, `SaveOK`/`SaveError`, `SaveDone` are
`runWasteScan` and `persistWasteEntries`; `CliDismiss`, `CliResolve`,
`CliWrite`, `CliStops`, `CliConfirms` the commands, one write per row in the
order of the keys. `Restart` takes the rows over; `RestartUnread` cannot read
them and goes on with an empty Tracker. `promise` is what the rows held at the
start, whether it could read them or not, and `forgotten` the promises of a
start that could not. Time stamps are ages that `Tick` lets grow; amounts are
left out (section 4). A row without a reminder period cannot be written
(`Writable`: the store binds NULL for a zero period, which the column refuses).

**DaemonLoop.** The settings (`cfg`) are chosen at the beginning, and the clock is a
day and whether the digest time has come. Each
job is a skip, or a beginning with every combination of a read that fails
(`WeeklyBegin`, `DigestBegin`), the attempts of `Telegram.Send`
(`WeeklyAttempt`, `DigestAttempt`), and one action per write that follows.
`Post` is one attempt: accepted, refused, or, whether it arrived or not, not
answered (or answered with a 5xx), and then repeated up to twice. `copies`
counts what one `Send` delivers; `digests` and `summaries` count the sends of a
period that delivered anything. `weekKey` and `dayKey` are the periods taken
before the send. A disabled waste scan is a nil ticker whose channel is
evaluated on entering `select`.

**HotReload.** A directory is a version and whether it parses. `Edit` starts
a timer, `Fire` a reload in a goroutine of its own, whose steps are
`LoadRules`, `LoadCapacity`, `WriteMeta`, `LoadSLOs`, `StoreLength`,
`StorePointer`. The slice `d.sensors` is stored word by word and the runtime
may stop the process when two goroutines use `d.sensorMeta`. `excused` records
what may leave the daemon behind the disk: an edit nobody watched, a read that
failed, an overlap.

**BudgetEngine.** A series of samples by age, one step per poll. Windows,
gaps, decimation, the pairs and medians of Theil-Sen, the median over runs,
the ETAs, the verdict and the hysteresis are operators on it, in exact
arithmetic (`Unit` is divisible by every distance, and a slope is counted in
half units). The time until the ceiling is compared without division, except
for the conversion to `time.Duration`, whose overflow is `OverflowToMin`.

**PriceCache** (`Catalog.Quote`, `FileCache`, the sources, and those who ask).
The callers are the loop and the handlers in progress. Each has a job, a waste
scan or an estimate, and goes through its rules or lines: `RuleSilent`,
`RuleHolds`, then `Hit` or `Miss`, the pages of the query (`Page`,
`PageFails`), the bulk offer file (`BulkFound`, `BulkFails`), `Fallback` to an
entry of any age, or `Open` and `Write` of the cache file, which another
caller may have truncated or written in between (`WriteSpoils`). `rows` is what
`Quote` answered; `AddRow` and `EstimateSpend` add it up, and
`FindOnDemandRates` is the order in which the sections of an offer file count.
A file is a price with an age, a torn one no entry. `since` records how long
ago the source asked a price, `stored` and `spoilt` what happened to a file.

**Config** (`config.go`, newDaemon). Operators only: `Apply` overrides a default
with what is above zero or not empty, `OverrideWasteInterval` puts explicit
zeros back, `OverrideFromEnv` is the environment. `Meaning` and `Unheard` are
the reference: what the comments promise, and where the code does not hear.

**Startup** (`main`, `migrate`, `Run` up to its first wait; `status` and
`waste`). `StartDaemon` and `StartCommand` read the settings, then a process
goes through `CreateTable`, and `Check`, `Exec`, `Record` for each of the seven
versions; the daemon goes on with `SetupSensors` and `Wait`. `made` is the
schema as it is, `done` the table `schema_migrations`. A process that is killed
or fails (`Fault`) leaves both as they are. The work of `waste` is
WasteLifecycle's.

**RuleCatalog** (`sync-community.sh`, `AutoClassifyFile`, `Load`). `Pull`, `Copy`,
`ReadFile`, `WriteFile` and `Stamp` are the script with the tool it starts, one
file at a time, `LoadStart`, `LoadFile` and `LoadEnd` the loader in the daemon;
`Edit` and `Kill` may come anywhere. A rule is the marks that the expressions of
`autoclassify.go` look for, its label and what the scan needs; `by` records who
wrote the label, `touched`, `synced` and `current` what happened since.
HotReload has the other half: which edits start a load.

**PromDuration** (`promdur.Parse`). A text is a sequence of numbers and of the
characters between them (`Texts`: no two numbers in a row, as a number goes on
as far as it can). `Reading` is what the parser has after each of them, a
recursive function; `Means` is the reference. Numbers are whole: fractions do
not change what the parser does with them.

**WasteScanner** (`Scanner.Scan`, `Client.get`). `scanning` is the set of rules
the scan has yet to ask for, and `IsNext` takes them in the order of files and
lines. `Judge` decides over the first series with samples (`Answered`);
`Samples` is what Prometheus makes of the truth under each form of an
expression, a function on the days that have a sample. `TryAgain` and `Refused` are the client's retries.

**ReadApi** (`runOnePoll`, `api.go`, the index page). A forecast is a number, a
time, a state and its ETAs, and goes into `preds`, `rows` and `gauges` one after
the other (`Predict`, `SetState`, and one `SetGauge` for each call of `Set`).
`Prune` deletes the predictions older than the retention between two rounds. A
request reads in steps of its own, and each of its queries may fail: the index
(`List`) and the accuracy page (`Tally`) go from sensor to sensor and leave out
one whose query failed, as a list `unread` of the answer records; the gate and
the details read the row (`ReadRow`, 500 when it fails), then the predictions of
a day, or of the days asked for (`ReadPreds`; the gate answers without an ETA
when they cannot be read). SensorNotify decides what is told in between; here
`Notify` only takes time. `MapFatal` is a `Set` during a scrape.

**CostReport** (`DailySpend` of both sources, `costJSON`, `maybeWeeklyCost`). A
request goes page by page (`Page`, `LastPage`, `FetchFails`) while bills arrive
(`Confirm`); its part of the report decides what follows. `ProjectEOM` and
`Growing` are operators on the rows, in fractions; the rows of a service are
the set of their places (`Of`), and what they cost the sum over it. DaemonLoop has when the
summary is sent, this module what it says.

**SentinelGen.** A text is its family header, whether the loader accepts it,
who wrote it and whether it is whole. A write truncates, then writes; a
command may be killed at any step and the file saved by hand at any time.

## 3. What TLC checks

| Run | Instance | Shows |
|---|---|---|
| `notify` | one capacity sensor with gate, backoff after 2 failures, every 2nd round | `IInv` (messages are news, the gate's incidents are mirrored), `ResolvedClosesAnIncident`, `RecoveryConfirmed`, `ImplementsContract`; `LastingStateIsTold`, `StoreFollowsMetric` |
| `waste` | two candidates, the first never storable; dismissals for two days and for good | `IInv` (dismissals survive commands and crashes), `PromiseKept` (except after a start that could not read the rows); `RemindedAgain` and `RowsCatchUp` in spite of failed sends, failed writes and the row that cannot be written |
| `loop` | one sensor, two days of two weeks, an older prediction or none; three attempts at a message; summary or digest, with pruning, or the scan switched off | `IInv` (one send per period unless a registration was lost), `ListTellsTheTruth`; `JobsComeDue` |
| `reload` | two reloads at a time, three edits | `IInv` (sensors come from definitions that parsed), `QuietIsCurrent`, `SensorsFollowDisk` |
| `engine` | either kind of sensor, six steps of three values or none, two ceilings | `EngineInv` (no slope without a change that steep), `SpikeIgnored`, `FastGrowthIsCritical`, `SlowGrowthIsNotCritical` |
| `price` | the loop and one request, two clouds, one price that changes; offer files with and without Reserved terms | `IInv`, `NotStaleIsRecent`, `KnownPriceQuoted`, `EstimateMatchesLines`; `JobsEnd` and `PriceCatchesUp` in spite of failed pages, failed writes and a slow caller |
| `gen` | three commands, three rounds, one save by hand | `GenInv` (what is called sound or ready is), `WholeCopyLeft`, `CommandsEnd` |
| `startup` | the daemon and one command on a database of any version, nine files, four environments, one edit, one fault | `StartInv` (whole schema), `SettingsHonoured`; `DaemonComesUp` |
| `rules` | two files, three releases, two syncs, two edits, faults or scans | `RoutedToTheScan`, `JudgedRight`, `HandKept` |
| `api` | two sensors, two forecasts, two days, a retention of one day, details of one day or thirty, one fault beside failing queries | `AnswersAgree`, `PageIsTrue` |
| `cost` | three services, five days at and around the ends of months, bills up to three days late, two failed requests | `IInv` (no page twice), `ProjectionIsReference`, `GrowthIsReal` |
| `waste_decision_lost` | **violated** | `DecisionSurvivesRestart`: a decision the command line confirmed is overwritten by the running daemon's next scan and gone after a restart |

`IInv`, `EngineInv`, `GenInv` and `StartInv` are the inductive invariants of
section 5, with the type invariant among their conjuncts: TLC checks each of
them on its instance before it is proved. The table names in brackets what
they hold beyond that. Two candidates of one
resource, of which a command changes one, are not in `waste`: that a command
does not undo a dismissal of the other is covered by the proof.

### Bounds, and why they are enough

* One sensor in `notify` and `loop`: sensors share only the position of the
  round. The proofs cover any number.
* The code backs off after 3 failures and tries every 5th round; both counters
  saturate where they are compared, and 2 and 2 already reach every
  comparison's two sides. The theorems hold for all values.
* Two candidates: the interplay is between the one a command changes and one
  it merely writes back, and between a row that fails and the row behind it.
  Ages saturate at `MaxAge`, the longest reminder period in use.
* Two days in two weeks: a job compares its row with today only, and may begin
  on one day and end on the next. The last day lasts for ever, so "in the end"
  means within it. `digests` and `summaries` count to 2, where they are
  compared.
* Two reloads at a time and three edits: one that overlaps, one that breaks a
  file and one that repairs it.
* In `price` the loop and one handler meet in one file, which is where two
  callers can harm each other; the estimate has a line in either cloud, and
  one key is asked by both jobs. `TTL` is one tick, so an entry is fresh, then
  expired. `MaxPages` is 0 in place of 100: the limit is reached after two
  pages. The safety theorems hold for all values and any number of callers.
* The engine's `Hour` is 2 steps and the longest window 5, so that series fit
  between `MinSamples` (83 %), a gap of two steps and decimation to 5 of 6
  points. Percentages and `ExitPolls` are those of the code. `MaxDuration` is
  8 steps in place of 292 years, so that the slowest growth of the instance
  overflows, which `SlowGrowthIsNotCritical` excepts.
* `startup`: one command beside the daemon meets it at every step of every
  version; the files write each key as a number, as zero, below zero, without a
  value or with a wrong one. The proofs cover any number of processes, faults
  and files.
* `rules`: one release replaced by another, and one whose file ends the tool;
  the rules of the releases take every branch of `SuggestKind` but one mark for
  another, and of `Classify`. The answers differ from "idle throughout" in
  the first, the last or every day, and in a second series.
* `loop`: the three attempts of the code. Summary and digest are enabled in
  different settings of the instance (`SomeConfigs`): they share the goroutine,
  the clock and nothing else, and the product of their states is too large for
  the liveness. The theorems hold for all settings.
* `api`: a day is one tick, so that a row of two days ago meets the horizon of
  the gate, and its prediction may be deleted. Two forecasts are a read between
  the writes of each; two sensors a read of the index before and after a write.
  `Asked` holds a number of days within 1 to 365 and one outside, which counts
  as thirty. That the deletion takes place once a day only is DaemonLoop's;
  here it may at any time.
* `cost`: January to May, so that the 31st of January and the 28th, 31st and
  first day of a month are covered; a page has ten days and a month three.
* `MaxRuns`, `MaxSaves`: a command and the two after it, so that what a killed
  one leaves is read, backed up and judged by a later one.

### Deadlock

`Gen.cfg`, `Startup.cfg`, `Rules.cfg`, `ReadApi.cfg` and `Cost.cfg` have
`CHECK_DEADLOCK FALSE`: the tool ends, and in the others what happens in the
instance is bounded (edits, commands, polls, bills), after which nothing may be
left to do, as for a daemon whose settings file does not load. In all other
modules the world can always move, or the supervisor restart the process.

### Fairness

Liveness assumes no more than this, and that from some time on the process is
not restarted:

* *SensorNotify*: the ticker starts rounds and a round goes on (`WF(Round)`;
  the queries, Telegram and the gate have timeouts; the AlertManager client
  has none, section 7). A query, a send and a write tried for ever succeed
  for ever (`SF`). Nothing is assumed of the gate, of reloads, of AlertManager
  beyond its being quiet about the sensor in the end.
* *WasteLifecycle*: days pass, the ticker starts scans and a scan ends; a send
  and a write of each row tried for ever succeed for ever.
* *DaemonLoop*: time passes, the loop goes on, and `select`, which picks at
  random among what is ready, takes the poll tick again and again (`SF`);
  each job's send or deletion, tried for ever, succeeds for ever. Nothing is
  assumed of the writes that register a period.
* *HotReload*: a timer that runs fires and a goroutine goes on.
* *PriceCache*: time passes, scans start, and a caller that has begun goes on.
  For the scans of the loop, rules that hold, answers that end with a price and
  files that can be opened come again and again (`SF`). Nothing is assumed of
  the requests to the API, of their queries, or of anyone's writes.
* *Startup*: a supervisor starts the daemon whenever it is down
  (`docker-compose.yml:19` `restart: unless-stopped`, `docs/deploy.md`
  `Restart=on-failure`), and a process that runs takes its next step; faults and
  edits are finitely many.
* *RuleCatalog, WasteScanner, ReadApi, CostReport*: safety only.
* *SentinelGen*: a call returns; those to the model and to Prometheus have
  timeouts.

## 4. Where the code departs from its documents

One departure is a run that TLC finds violated:

* `waste_decision_lost`: the daemon's next scan writes its copy over the decision
  of a command (`daemon.go:527`, against `waste_cli.go:9`). `PromiseKept` and
  `DismissalSurvivesCrash` are about what the daemon had taken over.

The finding in `PROJECT.json` quotes both sides. Others came up while reading the
code against its documents. They shape what the modules claim, and no run is kept
for them. First those that a property names as an exception, or that a reader
might take a property to exclude:

* A start that cannot read the rows of `waste_entries` logs a warning and goes on
  with an empty Tracker (`daemon.go:453`), so the next scan announces dismissed
  candidates as new and writes over their rows, against "a restart does not lose
  dismiss/resolve" at `daemon.go:450`. The promises such a start forgets
  (`forgotten`) are excepted in `PromiseKept`, until a later start reads the row
  as dismissed, if it still is.
* `Telegram.Send` repeats an attempt that got no answer although
  the message may have arrived (`telegram.go:46-70`); up to three copies of one
  summary or digest arrive, `Send` returns nil and nothing notes it, against "one
  per ISO week" at `daemon.go:557`. `OncePerPeriod` counts sends, not copies. In
  SensorNotify and WasteLifecycle the copies of one `Send` are one delivery: there
  `told` is what was told last, not how often, so neither says anything of copies.
* The details of a sensor may be asked for 365 days (`api.go:131`), while
  predictions are deleted after ninety: the details silently lack some, against
  `predictions_retention.go:7`, by which the deletion touches no answer.
  `AnswersAgree` excepts a prediction that was deleted.
* `metricsRegistry` is called safe for threads (`api.go:23`), but
  `renderText` iterates without the lock. `MapFatal` may end the process.
* With `waste_scan_interval_sec: 0`, which `README.md:166` offers to switch the
  scan off, the loop panics when it first waits: `wasteTicker.C` dereferences a
  nil ticker (`daemon.go:491`). `DaemonComesUp` and `JobsComeDue` except it.
* An ETA of 292 years or more is out of the range of `time.Duration` and, on
  amd64, the least of them, below any threshold: a nearly flat metric is critical
  (`evaluate.go:202`, against `docs/engine-budget-capacity.md:100`).
  `SlowGrowthIsNotCritical` excepts it.
* On days the next month does not have, `daysInMonth` counts two months
  (`cost.go:58`). `ProjectionIsReference` excepts these days.
* Without a price catalog the scan panics at the first candidate with a price
  family: the nil `*pricing.Catalog` is not a nil interface (`waste.go:113`,
  against the comment in `daemon.go:504`). `JobsEnd` counts it as an end.
* A recovery whose `resolved` could not be published goes by Telegram and is
  committed as healthy; nobody publishes it again, and the incident stays open at
  the gate (`triage.go:37`). `ResolvedClosesAnIncident` and `GateMirrored` say
  that the daemon knows of it, not that it is closed.
* The API drops the errors of some queries: `/api/budget-status` answers without
  an ETA (`api.go:182`), the accuracy page and the index leave a sensor out
  (`api.go:101`, `daemon.go:709`). The properties name the queries that failed.
* The weekly summary and the pruning take their period from the UTC clock, the
  digest from the local one (`daemon.go:488-490`). DaemonLoop has one calendar.
* An SLO budget recovers at the first poll below the thresholds: the closure
  in `daemon.go:294` passes no previous state. `docs/definitions-guide.md`,
  section 5, promises two polls "for both families". `RecoveryConfirmed`
  therefore speaks of capacity sensors.
* A transition delivered through the gate leaves the backoff of earlier
  failures in place (`daemon.go:357`); `LastNotifyAt` is never stamped
  (`daemon.go:384`).
* A recovery that was delivered but reported as failed is not committed; if
  the sensor is critical again the operator is left with "recovered".
  `LastingStateIsTold` therefore excepts sensors in doubt.
* A resolved candidate that is still found is reminded of as unhandled
  (`tracker.go:125`), and one without `notify_every` is announced anew after
  each restart, since its row cannot be written (`store/waste.go:37`).
* `TotalWasteUSD` grows at each scan by the days since the last notification
  (`tracker.go:112`), which do not start anew at scans between two
  notifications: the same days are charged again and again. No property of
  WasteLifecycle depends on amounts, and none is modelled.
* A change that began and ended between two digests is "no change"
  (`daily_digest.go:75`). `ListTellsTheTruth` compares two digests only.
* Changes do stack (`watch.go:76` starts a goroutine each time), two reloads
  write `d.sensorMeta` at the same time, a round can see a torn slice
  (`daemon.go:308`), and of two reloads that overlap the one that read the
  older files may store its sensors last. An edit between the first load and the
  start of the watcher is not seen (`daemon.go:409`), and a reload whose read fails
  is not tried again (`catalog/watch.go:17`). `QuietIsCurrent` and
  `SensorsFollowDisk` except all of these (`excused`).
* A round without enough samples counts as a poll below the thresholds, and so
  does the round of a ceiling jump (`evaluate.go:216`); the poll after a jump
  judges by the samples from before (`evaluate.go:127`); every horizon of an
  SLO sees the same window (`daemon.go:284`); of two runs the steeper decides
  (`evaluate.go:154`).
* A kill, or a failing insert, between an `ALTER TABLE` and its row
  (`store.go:103-109`) leaves a column that the next start adds again: no
  process opens the database any more (`Blocked`, `GapIsForGood`).
* `retention` 0 is heard only if the file also has `waste_scan_interval_sec`
  (`config.go:117`); 0 for the poll interval, negative numbers and empty strings
  are replaced by the default without a word (`Unheard`).
* An empty rule file panics in the classifier (`autoclassify.go:81`), a file that
  is no YAML stops it, and in both cases the version is not stamped although
  the files are copied. `UPSTREAM_COMMIT` is written after the rules and is not
  watched, so the version of the catalog trails (`VersionTrails`). A file that
  has left a release stays. A null node under `labels` is counted as labelled
  and loses the label; a blank `sentinel_kind` keeps the tool from labelling. What
  somebody saves between the tool's read and its write is overwritten
  (`autoclassify.go:71`); `HandKept` excepts it (`touched`).
* Only the first series of an answer is judged, and days without a sample count
  as idle; a filter expression of a value below 0.5 can never be a candidate
  (`waste.go:76-102`). A duration that cannot be read becomes 14 days
  (`waste.go:65`). `JudgedRight` is an equivalence only for complete windows of
  one series.
* The gauge of an ETA stays when growth has ended (`daemon.go:389`); a stored
  state is answered however old it is; for the accuracy page "no growth" and
  "over" look the same; `stateIcon` shows an unknown state as fine.
* The window of this week has eight days, that of the week before seven;
  `recentTail` takes seven rows, not days. Errors of the second
  and third request of a summary are dropped, and then everything grows, or
  nothing was spent (`daemon.go:578`). BSS ignores the end of the range and
  knows no services. The loop over the pages of Cost Explorer has neither limit
  nor time-out (`aws_ce.go:88`).
* An offer file with terms other than OnDemand, as AWS publishes them, cannot
  be read: `scanTerms` has read the brace when it skips the value
  (`aws_bulk.go:196-203`), and terms before products match nothing. A source
  that says "not found" also falls back to the expired entry (`catalog.go:47`),
  a price list of more than 102 pages is cut without a word
  (`aws_query.go:102`), and a line whose sensor has no state is estimated with
  no usage (`daemon.go:547`).
* Without `-kind`, `fix` reports failure after its last round whatever the file
  is (`commands.go:247`); its second round overwrites the backup of the
  original (`commands.go:237`), and what is saved by hand while the model
  answers is overwritten without a copy.

## 5. What is proved

Every safety property the passing runs check, invariants and action properties
alike, is a theorem. It holds for every value of the constants that meets the
`ASSUME` of its module: any number of sensors, candidates, goroutines, files and
edits, any calendar, any backoff and hysteresis, any price list. A module of
proofs covers one or two modules of the model:

* **SensorNotifyProofs** (SensorNotify, NotifyContract). `TypeCorrect`,
  `Invariance`, `MessagesAreNews`, `GateMirrored`, `ResolvedIsMeaningful`,
  `RecoveriesConfirmed` and `Implementation` (initial states map to those of
  NotifyContract, and every step to a step or a stutter). `AttemptIsNews` is not
  inductive: it needs that the decision to notify still holds when the message
  goes out (`StepInv`: nothing moves `lastState` or `publishedFiring` in
  between), and that `told` is what the daemon knows (`InSync`). Recoveries need
  `EngineInv`: an engine object counts no more clear polls than there were, a
  healthy object is a confirmed recovery, and a running round uses the objects
  of `d.sensors` unless a reload replaced them by fresh ones. Of the contract:
  `Synchrony` (outside doubt the daemon's picture of the operator is right) and
  `NothingButNews`. `OperatorHearsNews` puts both halves together: through the
  refinement, the operator of the whole daemon hears nothing but news.
* **WasteProofs** (WasteLifecycle, RuleCatalog, WasteScanner, PromDuration).
  *Candidates:* `TypeCorrect`, `Invariance`, `DismissalsSurvive`, `PromisesKept`
  (but for starts that could not read the rows).
  `DismissalSurvivesCrash` needs that a command in progress cannot undo a
  dismissal with its older copy (`CommandIsCurrent`: only one command at a time,
  and it loaded the rows after any dismissal the daemon took over); `PromiseKept`
  needs `PromiseInMemory` (a promise still running and not forgotten is the
  dismissal in the Tracker, with the same days left) and `SendInv`.
  *Rules:* `RulesReachTheScan` and `HandsOff`, from `RulesInvariance`. A sync is
  followed file by file (`SyncSoFar`: what the script has behind it is the
  release with its labels, while nobody else was at the files), and so is a load
  (`LoadedSoFar`); `ByLabel`: what is in the catalog as waste has the label;
  `HandsSafe`: what a person wrote has a kind, also in the tool's copy.
  *Judgement:* `ParseMeans` (the parser of durations is its reference, for every
  text) by induction over the tokens: as long as they fit, the total is the sum
  of the quantities so far, and once one does not, nothing later repairs the
  reading. `VerdictsOnRules` is `JudgedRight`, for every window and answer.
* **DaemonProofs** (Startup, DaemonLoop). `SchemaIsWhole`: a process has every
  version behind it recorded, and what is recorded was made (`InOrder`); rows are
  never deleted, so no other process can take that away. `GapIsForGood`: a
  version made and not recorded, which nobody is about to record, is never
  recorded, since `Exec` fails on it; so no process comes past it.
  `SettingsKept`: by cases over the keys, for every file that loads and every
  environment (`LoadHonoured`).
  *Jobs:* `Invariance`, `OneMessagePerPeriod`, `DigestsCompare`. `OncePerPeriod`,
  which is about sends whose copies are not counted, follows from: a message of the
  current period is registered, on its way to be, or in doubt, also while its
  attempts are repeated (`DigestInv`, `SummaryInv`), and a period still to be registered is not of
  the future (`KeyInv`, which carries a job over midnight). `SnapInv`: outside the
  two writes and without a failure, the snapshot is what was shown.
* **DefinitionProofs** (HotReload, SentinelGen). `Invariance`,
  `BrokenFilesIgnored`, `QuietMeansCurrent`. `OnlyParsed` needs that whatever a
  reload holds has parsed (`JobsParsed`). `QuietIsCurrent` needs `Progress`:
  without an excuse there is one reload, what it has read is current unless a
  timer runs that starts another, and what nobody is going to load is loaded.
  *sentinel-gen:* `VerdictsAreTrue` needs that the checks behind a command are of
  the text that is still there unless somebody saved it (`InCommand`);
  `FixKeepsACopy` needs where the whole text is at each step of a rewrite
  (`CopySoFar`: in hand, in the file, or in the `.bak` by the time the file is
  truncated).
* **ForecastProofs** (BudgetEngine, CostReport). The engine:
  `TrendsAreMeasured` (a median of rates lies between two of them, and a rate of
  two samples between the rates of neighbours in between), `CriticalHasAReason`,
  `NoMissedAlarm` (a series that rises at least by r at every step has a slope of
  at least r) and `OneSpikeIsNoTrend` (of the pairs of five or more samples, fewer
  than half contain the one that sticks out, so the median is 0; `MaxPoints >= 5`
  keeps that true after decimation, whose samples are shown to be different).
  `FromTheSeries` makes the invariant inductive: what was returned is what the
  samples say. `WorseIsNoMilder` is about the thresholds alone: less room and
  steeper slopes never give a milder verdict, but for the overflow of section 4.
  Costs: `BillsFit`, `ProjectionsAreRight`, `GrowthIsNoArtefact`. `FetchInv`: the
  pages so far hold all that had arrived when the request began and nothing that
  had not arrived by now, and for the month their sum lies between the spends of
  those two days; `JobInv`: the rows of this week had arrived before the week
  before was asked for, so what they show as growth is not a late bill.
* **PriceCacheProofs.** `TypeCorrect`, `Invariance`, `AnswersAreRecent`,
  `KnownPricesAreQuoted`, `EstimatesAddUp`. `NotStaleIsRecent` is about steps and
  needs `AgesInv` (an entry is at least as old as the news that its price was
  asked, so an entry younger than the TTL holds a recent price) and `HeldInv` (a
  price in hand was asked within the tick, so a write cannot store old news with a
  new date). `KnownPriceQuoted` needs `CacheKept`: what was stored is still in the
  file, or a write spoilt it, or is going on. The estimate is an induction over
  its lines, from `LinesInv` (it has an answer for each line behind it).
* **ReadApiProofs.** `RowsHavePredictions`, `AnswersCombineWell`, `IndexIsTrue`.
  `AnswersAgree` needs that a row in the table, or in the hands of a handler, has
  its prediction in the table unless its write failed or it was deleted
  (`RowsPredicted`), that predictions are numbered as they are dated (`InOrder`),
  and that the forecast in hand is the newest (`InHand`). `PageIsTrue` needs
  `CopiesSeen`: what the tables say during a request, and what the index has copied
  so far, is among what they said since it began, unless its query failed; what the
  accuracy page has copied is not behind a row of that time. `GaugesTrail` holds
  between the calls of `Set` as well: a gauge of an ETA may be ahead of the ratio's
  only by the forecast in hand.
* **NumberProofs** holds what several of these rest on: intervals and extremes of
  sets of integers, sums over finite sets, and induction.

Induction over data is by `SetInduction`: the numbers for which a fact holds are a
set that contains 0 and with each number the next. The theorems of the library
take the fact as an operator, which the provers at hand cannot instantiate; a set
they can. A recursive function is a `CHOOSE`, so a lemma shows first that there is
such a function (`ReadingIs`).

What the theorems assume, beyond types: the calendar has months of 28 to 31 days
and goes on for a month after the last report, and reports are made on days from the
15th of the calendar on, so that both weeks lie in it; a currency has a name; the
rules of a release are labelled by nobody by hand; the engine keeps five points or
more (the code: 100) and its thresholds are in order (the code's constants are).

Only model-checked: liveness and the properties with fairness
(`LastingStateIsTold`, `StoreFollowsMetric`, `RemindedAgain`, `RowsCatchUp`,
`JobsComeDue`, `SensorsFollowDisk`, `CommandsEnd`, `JobsEnd`, `PriceCatchesUp`,
`DaemonComesUp`), whose proofs need `ENABLED`, which is out of TLAPS's reach here;
and the run that finds its property violated.

## 6. Not modelled in the modules above

* Formatting of messages, labels of the gate's alerts, logging.
* The predictions' content, the figures in the weekly summary.
* OLS slopes (`budget/engine.go`), an experiment without a caller;
  `ShouldNotify` and `MarkHealthy` of Dedupe, which no program calls.
* The end of a watcher and the loss of a directory's watcher at run time.
* `epsilon` of the engine is 0, floating point is exact.
* Concurrent commands: one `waste` command at a time.
* The recipes of waste rules and of rightsizing (`k8s.go`, `standalone.go`,
  `rightsizing.go`), `BudgetETA`, `DetectSpike` and `ProjectYear`: no program
  calls them. The quantity in a rule's price attributes. In WasteLifecycle a
  scan finds any set of candidates; what a scan finds is WasteScanner's.
* The pages of the web interface other than the index, and its proxy for
  definitions: they format what the API answers and keep no state. (The proxy
  drops the body of a request, and the waste page reads keys that `Candidate`
  does not have.)
* Parsing of PromQL and YAML, regular expressions, decoding of answers and
  signatures of requests; what promtool finds.
* The limit of five services in a summary, the rounding of a remaining budget.
* Amounts of wasted money.

## 7. Assumptions worth knowing

The AlertManager client (`internal/alert/dedupe.go:96`) has no timeout: one
connection that hangs stops the loop, and every liveness property with it. The
clients of the price sources have none either (`aws_query.go:50`,
`alicloud_sku.go:83`). The models assume that all outside calls return.

Two forecasts of a sensor are never dated the same nanosecond, so that the order
of predictions by time is that of the polls, as long as the clock does not go
back. Between the pages of one answer of a bill, days are added at the end only.
A read of a rule file sees it before or after a write that is not killed.

In PriceCache a tick is long against the time from an answer of a source to the
end of the write that follows it (the TTL is a day, the latter a few system
calls), so `Tick` waits while a price is in hand. Unit prices are positive.

SQLite serialises single statements; each upsert is one step, and a batch of
them is not a transaction (`persistWasteEntries`, `syncTracker`).

## 8. Plan

1. *Done:* every part of section 1 is modelled and checked, and every safety
   property of the passing runs is proved.
2. *Refinement:* an abstract specification of what SensorNotify takes an engine
   for (a verdict with a hysteresis), and BudgetEngine shown to implement it, so
   that `RecoveryConfirmed` speaks of the real engine. *Proofs:* the safety halves
   that the liveness properties rest on, such as that a notification in backoff
   keeps its sensor unregistered.
3. *Composition:* HotReload's reload as the loader of RuleCatalog, so that the
   catalog follows the files of a sync in the end.
