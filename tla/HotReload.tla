------------------------------ MODULE HotReload ------------------------------
(***************************************************************************)
(* Hot reload of the definition directories: the watchers (internal/watch/ *)
(* watch.go), what they call (Run, cmd/sentinel/daemon.go, and Watch,      *)
(* internal/catalog/watch.go), and setupSensors, which every one of them   *)
(* runs in a goroutine of its own, beside the others and beside the poll   *)
(* loop, on fields of the daemon that no lock protects.                    *)
(*                                                                         *)
(* The content of a directory is a version number and whether it parses.   *)
(* A data race is modelled by what the build can do: the words of a slice  *)
(* are stored one by one, and the runtime may stop the process when a map  *)
(* is used while it is written.                                            *)
(***************************************************************************)
EXTENDS Naturals, Sequences

CONSTANTS
  Rebuilds,   \* goroutines that may run a reload at the same time
  MaxEdits    \* edits of all directories together (bound)

ASSUME ReloadConstantsOK == MaxEdits \in Nat

VARIABLES
  files,      \* disk: the version in each directory and whether it parses
  valid,      \* history: the versions of each directory that parsed
  toWatch,    \* directories Run has still to watch
  watching,   \* directories with a watcher
  armed,      \* directories whose debounce timer runs
  jobs,       \* the reloads in progress
  sensors,    \* d.sensors, the pointer: what its runners were built from
  count,      \* d.sensors, the length: what it was computed from
  capDefs,    \* d.capDefs
  catalog,    \* d.lastCatalog
  polled,     \* what the running poll round iterates over
  reading,    \* the poll loop reads d.sensorMeta
  down,       \* the process is dead
  excused     \* history: what may keep a change from taking effect

disk  == <<files, valid>>
watch == <<toWatch, watching, armed>>
poll  == <<polled, reading>>
built == <<sensors, count, capDefs, catalog>>
vars  == <<disk, watch, jobs, built, poll, down, excused>>

Dirs     == {"rules", "capacity", "slo"}
Versions == 0..MaxEdits
Pair     == [capacity : Versions, slo : Versions]
Labels   == {"idle", "rules", "capacity", "meta", "slo", "length", "pointer"}
Idle     == [pc |-> "idle", dir |-> "rules", capacity |-> 0, slo |-> 0]
Loaded   == [capacity |-> files["capacity"].version, slo |-> files["slo"].version]
Rounds   == {"none", "whole", "torn"}      \* pointer and length of one list or of two
Excuses  == {"missed", "failed", "overlap"}

TypeOK ==
  /\ files \in [Dirs -> [version : Versions, parses : BOOLEAN]]
  /\ valid \in [Dirs -> SUBSET Versions]
  /\ toWatch \in {<<"rules", "capacity", "slo">>, <<"capacity", "slo">>, <<"slo">>, <<>>}
  /\ watching \subseteq Dirs
  /\ armed \subseteq Dirs
  /\ jobs \in [Rebuilds -> [pc : Labels, dir : Dirs, capacity : Versions, slo : Versions]]
  /\ sensors \in Pair /\ count \in Pair
  /\ capDefs \in Versions
  /\ catalog \in Versions
  /\ polled \in Rounds
  /\ reading \in BOOLEAN
  /\ down \in BOOLEAN
  /\ excused \subseteq Excuses

Init ==
  /\ files = [d \in Dirs |-> [version |-> 0, parses |-> TRUE]]
  /\ valid = [d \in Dirs |-> {0}]
  /\ toWatch = <<"rules", "capacity", "slo">>
  /\ watching = {}
  /\ armed = {}
  /\ jobs = [j \in Rebuilds |-> Idle]
  /\ sensors = [capacity |-> 0, slo |-> 0]
  /\ count = [capacity |-> 0, slo |-> 0]
  /\ capDefs = 0
  /\ catalog = 0
  /\ polled = "none"
  /\ reading = FALSE
  /\ down = FALSE
  /\ excused = {}

Edits   == files["rules"].version + files["capacity"].version + files["slo"].version
Running == {j \in Rebuilds : jobs[j].pc # "idle"}

-----------------------------------------------------------------------------
(* The watchers.                                                           *)

(* Run watches one directory after the other; a failure is only logged.    *)
WatchNext(ok) ==
  /\ ~down /\ toWatch # <<>>
  /\ toWatch' = Tail(toWatch)
  /\ watching' = IF ok THEN watching \cup {Head(toWatch)} ELSE watching
  /\ UNCHANGED <<disk, armed, jobs, built, poll, down, excused>>

(* Mutant: the watcher is deaf while a reload runs.                        *)
EditUnheard(d, parses) ==
  /\ Edits < MaxEdits
  /\ LET new == files[d].version + 1 IN
     /\ files' = [files EXCEPT ![d] = [version |-> new, parses |-> parses]]
     /\ valid' = IF parses THEN [valid EXCEPT ![d] = @ \cup {new}] ELSE valid
  /\ armed' = IF d \in watching /\ Running = {} THEN armed \cup {d} ELSE armed
  /\ excused' = excused \cup (IF d \in watching THEN {} ELSE {"missed"})
  /\ UNCHANGED <<toWatch, watching, jobs, built, poll, down>>

(* A file changes.  An event starts the timer of its directory, or starts  *)
(* it anew.                                                                *)
Edit(d, parses) ==
  /\ Edits < MaxEdits
  /\ LET new == files[d].version + 1 IN
     /\ files' = [files EXCEPT ![d] = [version |-> new, parses |-> parses]]
     /\ valid' = IF parses THEN [valid EXCEPT ![d] = @ \cup {new}] ELSE valid
  /\ armed' = IF d \in watching THEN armed \cup {d} ELSE armed
  /\ excused' = excused \cup (IF d \in watching THEN {} ELSE {"missed"})
  /\ UNCHANGED <<toWatch, watching, jobs, built, poll, down>>

(* The timer's function calls onChange, in a goroutine of its own, whether *)
(* or not an earlier call is still at work.                                *)
Fire(d, j) ==
  /\ ~down /\ d \in armed /\ jobs[j].pc = "idle"
  /\ armed' = armed \ {d}
  /\ jobs' = [jobs EXCEPT ![j] = [Idle EXCEPT
                !.pc = IF d = "rules" THEN "rules" ELSE "capacity", !.dir = d]]
  /\ excused' = excused \cup (IF Running = {} THEN {} ELSE {"overlap"})
  /\ UNCHANGED <<disk, toWatch, watching, built, poll, down>>

-----------------------------------------------------------------------------
(* A reload.                                                               *)

(* Loader.Load leaves files that do not parse out; d.lastCatalog is        *)
(* replaced, then the sensors are rebuilt.                                 *)
LoadRules(j) ==
  /\ ~down /\ jobs[j].pc = "rules"
  /\ catalog' = files["rules"].version
  /\ jobs' = [jobs EXCEPT ![j].pc = "capacity"]
  /\ UNCHANGED <<disk, watch, sensors, count, capDefs, poll, down, excused>>

(* A directory that cannot be read, for once: the reload ends, nothing     *)
(* tries it again.                                                         *)
LoadFails(j) ==
  /\ ~down /\ jobs[j].pc \in {"rules", "capacity", "slo"}
  /\ jobs' = [jobs EXCEPT ![j] = Idle]
  /\ excused' = excused \cup {"failed"}
  /\ UNCHANGED <<disk, watch, built, poll, down>>

(* Mutant: definitions that do not parse are taken for an empty list.      *)
LoadCapacityAnyway(j) ==
  /\ ~down /\ jobs[j].pc = "capacity"
  /\ jobs' = [jobs EXCEPT ![j].pc = "meta", ![j].capacity = files["capacity"].version]
  /\ UNCHANGED <<disk, watch, built, poll, down, excused>>

(* LoadDefs: one file that does not parse fails the whole rebuild.         *)
LoadCapacity(j) ==
  /\ ~down /\ jobs[j].pc = "capacity"
  /\ jobs' = IF files["capacity"].parses
             THEN [jobs EXCEPT ![j].pc = "meta", ![j].capacity = files["capacity"].version]
             ELSE [jobs EXCEPT ![j] = Idle]
  /\ UNCHANGED <<disk, watch, built, poll, down, excused>>

(* The entries of d.sensorMeta are written, then d.capDefs.                *)
WriteMeta(j) ==
  /\ ~down /\ jobs[j].pc = "meta"
  /\ capDefs' = jobs[j].capacity
  /\ jobs' = [jobs EXCEPT ![j].pc = "slo"]
  /\ UNCHANGED <<disk, watch, sensors, count, catalog, poll, down, excused>>

LoadSLOs(j) ==
  /\ ~down /\ jobs[j].pc = "slo"
  /\ jobs' = IF files["slo"].parses
             THEN [jobs EXCEPT ![j].pc = "length", ![j].slo = files["slo"].version]
             ELSE [jobs EXCEPT ![j] = Idle]
  /\ UNCHANGED <<disk, watch, built, poll, down, excused>>

New(j) == [capacity |-> jobs[j].capacity, slo |-> jobs[j].slo]

(* d.sensors = sensors, word by word.                                      *)
StoreLength(j) ==
  /\ ~down /\ jobs[j].pc = "length"
  /\ count' = New(j)
  /\ jobs' = [jobs EXCEPT ![j].pc = "pointer"]
  /\ UNCHANGED <<disk, watch, sensors, capDefs, catalog, poll, down, excused>>

StorePointer(j) ==
  /\ ~down /\ jobs[j].pc = "pointer"
  /\ sensors' = New(j)
  /\ capDefs' = jobs[j].capacity
  /\ jobs' = [jobs EXCEPT ![j] = Idle]
  /\ UNCHANGED <<disk, watch, count, catalog, poll, down, excused>>

-----------------------------------------------------------------------------
(* The poll loop, which starts once everything is watched.                 *)

StartRound ==
  /\ ~down /\ toWatch = <<>> /\ polled = "none"
  /\ polled' = IF sensors = count THEN "whole" ELSE "torn"
  /\ UNCHANGED <<disk, watch, jobs, built, reading, down, excused>>

(* triageHandled reads d.sensorMeta.                                       *)
ReadMeta ==
  /\ ~down /\ polled # "none"
  /\ reading' = ~reading
  /\ UNCHANGED <<disk, watch, jobs, built, polled, down, excused>>

EndRound ==
  /\ ~down /\ polled # "none" /\ ~reading
  /\ polled' = "none"
  /\ UNCHANGED <<disk, watch, jobs, built, reading, down, excused>>

-----------------------------------------------------------------------------
(* The process.                                                            *)

Writing == {j \in Rebuilds : jobs[j].pc = "meta"}
Clash   == \/ reading /\ Writing # {}
           \/ \E i, j \in Writing : i # j

(* The runtime detects a map in use by a writer and somebody else: fatal.  *)
MapFatal ==
  /\ ~down /\ Clash
  /\ down' = TRUE
  /\ UNCHANGED <<disk, watch, jobs, built, poll, excused>>

Fit == files["capacity"].parses /\ files["slo"].parses

(* The process stops, or was dead, and starts anew; Run loads everything   *)
(* before it watches, and gives up when definitions do not parse.          *)
Restart ==
  /\ down' = ~Fit
  /\ toWatch' = <<"rules", "capacity", "slo">>
  /\ watching' = {}
  /\ armed' = {}
  /\ jobs' = [j \in Rebuilds |-> Idle]
  /\ polled' = "none"
  /\ reading' = FALSE
  /\ excused' = IF Fit THEN {} ELSE {"failed"}
  /\ IF Fit
     THEN /\ sensors' = Loaded
          /\ count' = Loaded
          /\ capDefs' = Loaded.capacity
          /\ catalog' = files["rules"].version
     ELSE UNCHANGED built
  /\ UNCHANGED disk

Reload == \E j \in Rebuilds :
            \/ LoadRules(j) \/ LoadCapacity(j) \/ WriteMeta(j) \/ LoadSLOs(j)
            \/ StoreLength(j) \/ StorePointer(j)

Next == \/ \E ok \in BOOLEAN : WatchNext(ok)
        \/ \E d \in Dirs, parses \in BOOLEAN : Edit(d, parses)
        \/ \E d \in Dirs, j \in Rebuilds : Fire(d, j)
        \/ Reload
        \/ \E j \in Rebuilds : LoadFails(j)
        \/ StartRound \/ ReadMeta \/ EndRound
        \/ MapFatal
        \/ Restart

Spec == Init /\ [][Next]_vars

(* A timer that runs fires, a goroutine goes on.                           *)
Fairness == /\ \A d \in Dirs : WF_vars(\E j \in Rebuilds : Fire(d, j))
            /\ \A j \in Rebuilds :
                 WF_vars(\/ LoadRules(j) \/ LoadCapacity(j) \/ WriteMeta(j)
                         \/ LoadSLOs(j) \/ StoreLength(j) \/ StorePointer(j))

LiveSpec == Spec /\ Fairness

-----------------------------------------------------------------------------
(* Safety.                                                                 *)

(* Whatever is edited, broken and repaired while reloads run, and however  *)
(* they overlap, the sensors polled were built from definitions that       *)
(* parsed (daemon.go: "解析失敗保留舊感測").                               *)
OnlyParsed ==
  /\ sensors.capacity \in valid["capacity"] /\ sensors.slo \in valid["slo"]
  /\ count.capacity \in valid["capacity"] /\ count.slo \in valid["slo"]
  /\ capDefs \in valid["capacity"]

Quiet == armed = {} /\ Running = {}

(* When nothing is left to do, the daemon runs on what is on the disk,     *)
(* although edits came at any point of a reload and were broken for a      *)
(* while; excused are reloads that overlapped, a read that failed and an   *)
(* edit before its directory was watched.                                  *)
QuietIsCurrent ==
  excused = {} /\ ~down /\ Quiet =>
    /\ catalog = files["rules"].version
    /\ Fit => sensors = Loaded /\ count = Loaded /\ capDefs = Loaded.capacity

-----------------------------------------------------------------------------
(* The inductive invariant behind them.                                    *)

(* What a reload has read is current, unless a timer runs that will start  *)
(* another.                                                                *)
JobCurrent(j) ==
  /\ jobs[j].pc \in {"meta", "slo", "length", "pointer"} =>
       files["capacity"].parses /\ jobs[j].capacity = files["capacity"].version
  /\ jobs[j].pc \in {"length", "pointer"} =>
       files["slo"].parses /\ jobs[j].slo = files["slo"].version
  /\ jobs[j].pc = "pointer" => count = New(j)

Alone == \A i, j \in Running : i = j

Progress ==
  excused = {} =>
    /\ Alone
    /\ armed \cap {"capacity", "slo"} = {} => \A j \in Running : JobCurrent(j)
    /\ "rules" \in armed \/ (\E j \in Running : jobs[j].pc = "rules")
         \/ catalog = files["rules"].version
    /\ Quiet /\ Fit => sensors = Loaded /\ count = Loaded /\ capDefs = Loaded.capacity

(* What is in the hands of a reload has parsed.                            *)
JobsParsed ==
  /\ \A j \in Rebuilds :
       /\ jobs[j].pc \in {"meta", "slo", "length", "pointer"} =>
            jobs[j].capacity \in valid["capacity"]
       /\ jobs[j].pc \in {"length", "pointer"} => jobs[j].slo \in valid["slo"]
  /\ \A d \in Dirs : files[d].parses => files[d].version \in valid[d]

IInv == TypeOK /\ OnlyParsed /\ JobsParsed /\ (down \/ Progress)

-----------------------------------------------------------------------------
(* Liveness.                                                               *)

(* Once nobody edits and restarts any more, the sensors follow the disk,   *)
(* under the same excuses.                                                 *)
SensorsFollowDisk ==
  <>[][~Restart]_vars /\ <>[](Fit /\ ~down)
    => <>[](excused # {} \/ (sensors = Loaded /\ catalog = files["rules"].version))

=============================================================================
