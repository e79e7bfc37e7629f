-------------------------------- MODULE Startup --------------------------------
(***************************************************************************)
(* How the processes of the program begin: the daemon, which a supervisor  *)
(* starts whenever it is down, and the commands status and waste, which an *)
(* operator types at any time.  Each reads the settings (Config) and opens *)
(* the database, of this or an earlier version, which brings its schema up *)
(* to date: one statement, then one row of schema_migrations, for each     *)
(* version, with nothing that holds the two together or another process    *)
(* away.  The daemon then builds its sensors and goes round once before it *)
(* waits.                                                                  *)
(***************************************************************************)
EXTENDS Config, FiniteSets

CONSTANTS
  Daemon,       \* the daemon
  Commands,     \* commands that may run at a time
  Files,        \* what the settings file may be
  Environments, \* the environments the daemon may be given
  MaxCommands,  \* commands (bound)
  MaxEdits,     \* edits of the settings or definitions (bound)
  MaxFaults     \* kills and failing statements (bound)

ASSUME StartupConstantsOK ==
  /\ Daemon \notin Commands
  /\ MaxCommands \in Nat /\ MaxEdits \in Nat /\ MaxFaults \in Nat
  /\ \A f \in Files, k \in Numbers : f[k] \in Int \cup {Absent, Null, Word}
  /\ \A e \in Environments : e.waste \in Int \cup {Absent, Word}

VARIABLES
  file,      \* the settings file
  env,       \* the environment of the daemon
  defs,      \* setupSensors finds no error in the definition files
  stage,        \* where each process is; off when it is not running
  at,        \* i of migrate: the version it is at
  conf,      \* d.cfg, once the environment has been heard
  made,      \* the versions whose statement has changed the schema
  done,      \* the rows of schema_migrations
  commands,  \* bound: commands so far
  edits,     \* bound: edits so far
  faults     \* bound: faults so far

outside  == <<file, env, defs, edits>>
schema   == <<made, done>>
bounds   == <<commands, faults>>
startVars     == <<outside, conf, schema, bounds, stage, at>>

Procs     == {Daemon} \cup Commands
Versions  == 1..7
Alters    == {4, 6, 7}       \* ALTER TABLE: fails when the column is there
Labels    == {"off", "table", "check", "exec", "record", "open", "first round", "serve"}

StartTypeOK ==
  /\ stage \in [Procs -> Labels]
  /\ at \in [Procs -> Versions]
  /\ made \subseteq Versions /\ done \subseteq Versions
  /\ file \in Files /\ env \in Environments
  /\ defs \in BOOLEAN
  /\ commands \in 0..MaxCommands /\ edits \in 0..MaxEdits /\ faults \in 0..MaxFaults

StartInit ==
  /\ file \in Files /\ env \in Environments
  /\ defs = TRUE
  /\ stage = [p \in Procs |-> "off"]
  /\ at = [p \in Procs |-> 1]
  /\ conf = Default
  /\ \E last \in 0..7 : made = 1..last /\ done = 1..last
  /\ commands = 0 /\ edits = 0 /\ faults = 0

Goto(p, label) == stage' = [stage EXCEPT ![p] = label]

(* The memory of a process ends with it.                                   *)
Exit(p) ==
  /\ Goto(p, "off")
  /\ at' = [at EXCEPT ![p] = 1]
  /\ conf' = IF p = Daemon THEN Default ELSE conf

-----------------------------------------------------------------------------
(* Settings.                                                               *)

(* A file that does not load ends the process where it began.              *)
StartDaemon ==
  /\ stage[Daemon] = "off" /\ Loads(file)
  /\ Goto(Daemon, "table")
  /\ conf' = OverrideFromEnv(Settings(file), env)
  /\ UNCHANGED <<outside, schema, bounds, at>>

(* With -db, waste does not look at the settings.                          *)
StartCommand(c, db) ==
  /\ stage[c] = "off" /\ commands < MaxCommands
  /\ db \/ Loads(file)
  /\ Goto(c, "table")
  /\ commands' = commands + 1
  /\ UNCHANGED <<outside, conf, schema, faults, at>>

-----------------------------------------------------------------------------
(* migrate.                                                                *)

CreateTable(p) ==
  /\ stage[p] = "table"
  /\ Goto(p, "check")
  /\ UNCHANGED <<outside, conf, schema, bounds, at>>

NextVersion(p) ==
  IF at[p] = 7 THEN Goto(p, "open") /\ UNCHANGED at
               ELSE Goto(p, "check") /\ at' = [at EXCEPT ![p] = at[p] + 1]

(* Mutant: the version is recorded before its statement has run.           *)
CheckRecords(p) ==
  /\ stage[p] = "check"
  /\ IF at[p] \in done THEN NextVersion(p) ELSE Goto(p, "exec") /\ UNCHANGED at
  /\ done' = done \cup {at[p]}
  /\ UNCHANGED <<outside, conf, made, bounds>>

(* Mutant: every version is applied again.                                 *)
CheckNothing(p) ==
  /\ stage[p] = "check"
  /\ Goto(p, "exec")
  /\ UNCHANGED <<outside, conf, schema, bounds, at>>

Check(p) ==
  /\ stage[p] = "check"
  /\ IF at[p] \in done THEN NextVersion(p) ELSE Goto(p, "exec") /\ UNCHANGED at
  /\ UNCHANGED <<outside, conf, schema, bounds>>

(* A column that is there already is an error, which ends the process.     *)
Exec(p) ==
  /\ stage[p] = "exec"
  /\ IF at[p] \in Alters \cap made
     THEN Exit(p) /\ UNCHANGED made
     ELSE Goto(p, "record") /\ made' = made \cup {at[p]} /\ UNCHANGED <<at, conf>>
  /\ UNCHANGED <<outside, done, bounds>>

(* version is the primary key: a second row is an error.                   *)
Record(p) ==
  /\ stage[p] = "record"
  /\ IF at[p] \in done THEN Exit(p) ELSE NextVersion(p) /\ UNCHANGED conf
  /\ done' = done \cup {at[p]}
  /\ UNCHANGED <<outside, made, bounds>>

-----------------------------------------------------------------------------
(* After the database is open.                                             *)

(* status and waste do their work, whatever it is, and end.                *)
Work(c) ==
  /\ c \in Commands /\ stage[c] = "open"
  /\ Exit(c)
  /\ UNCHANGED <<outside, schema, bounds>>

SetupSensors ==
  /\ stage[Daemon] = "open"
  /\ IF defs THEN Goto(Daemon, "first round") /\ UNCHANGED <<at, conf>> ELSE Exit(Daemon)
  /\ UNCHANGED <<outside, schema, bounds>>

(* Without a ticker for the waste scan the loop panics when it waits.      *)
Wait ==
  /\ stage[Daemon] = "first round"
  /\ IF conf.waste > 0 THEN Goto(Daemon, "serve") /\ UNCHANGED <<at, conf>> ELSE Exit(Daemon)
  /\ UNCHANGED <<outside, schema, bounds>>

-----------------------------------------------------------------------------
(* What may happen at any time.                                            *)

(* A kill, a signal, a taken port, a statement that fails (a full disk, or *)
(* a database locked beyond busy_timeout).                                 *)
Fault(p) ==
  /\ stage[p] # "off" /\ faults < MaxFaults
  /\ faults' = faults + 1
  /\ Exit(p)
  /\ UNCHANGED <<outside, schema, commands>>

Edit(f, sound) ==
  /\ edits < MaxEdits
  /\ edits' = edits + 1
  /\ file' = f /\ defs' = sound
  /\ UNCHANGED <<env, conf, schema, bounds, stage, at>>

Migrate(p) == CreateTable(p) \/ Check(p) \/ Exec(p) \/ Record(p)

StartNext ==
  \/ StartDaemon \/ SetupSensors \/ Wait
  \/ \E c \in Commands : (\E db \in BOOLEAN : StartCommand(c, db)) \/ Work(c)
  \/ \E p \in Procs : Migrate(p) \/ Fault(p)
  \/ \E f \in Files, sound \in BOOLEAN : Edit(f, sound)

StartSpec == StartInit /\ [][StartNext]_startVars

(* The supervisor starts the daemon again and again, and a process that    *)
(* runs takes its next step.                                               *)
StartFairness ==
  /\ WF_startVars(StartDaemon) /\ WF_startVars(SetupSensors) /\ WF_startVars(Wait)
  /\ \A p \in Procs : WF_startVars(Migrate(p) \/ Work(p))

StartLiveSpec == StartSpec /\ StartFairness

-----------------------------------------------------------------------------
(* Properties.                                                             *)

(* A column was added and nobody is left who would write it down: no       *)
(* process will ever open this database again (Exec).                      *)
Blocked == \E v \in Alters \cap made : /\ v \notin done
                                       /\ \A p \in Procs : stage[p] = "record" => at[p] # v

(* Each process has all versions behind it recorded, and the one it has    *)
(* just applied made.                                                      *)
InOrder ==
  /\ done \subseteq made
  /\ \A p \in Procs :
       /\ 1..(at[p] - 1) \subseteq done
       /\ stage[p] = "record" => at[p] \in made
       /\ stage[p] \in {"open", "first round", "serve"} => done = Versions

(* Whoever reads or writes the tables finds all of them, with every        *)
(* column, though other processes may be at the same migrations, or have   *)
(* been killed in the midst of one.                                        *)
WholeSchema == \A p \in Procs : stage[p] \in {"open", "first round", "serve"} => made = Versions

(* The settings the daemon starts with, and runs on until it ends, are     *)
(* what the comments of the code promise for its file and environment: an  *)
(* explicit zero, an override, a default; and where the code is known not  *)
(* to hear the file (Unheard), it keeps the default.                       *)
SettingsHonoured ==
  [][stage'[Daemon] # "off" => IF stage[Daemon] = "off" THEN Honoured(file, env, conf')
                                                  ELSE conf' = conf]_startVars

StartInv == StartTypeOK /\ InOrder /\ WholeSchema

(* When the editing and the faults are over, the daemon comes to its loop, *)
(* however many starts fail before: because another process wins a         *)
(* migration, because its definitions are broken, because it was killed.   *)
(* Not if a column is left without its row, if settings or definitions do  *)
(* not load, or if the waste scan is switched off, where it panics.        *)
Usable == Loads(file) /\ defs /\ OverrideFromEnv(Settings(file), env).waste > 0
DaemonComesUp == <>[](stage[Daemon] = "serve" \/ Blocked \/ ~Usable)

=============================================================================
