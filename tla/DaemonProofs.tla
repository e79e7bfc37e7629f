---------------------------- MODULE DaemonProofs ----------------------------
(***************************************************************************)
(* Proofs about the process of the daemon: how it comes up next to other   *)
(* processes (Startup), for any number of commands at a time, any faults,  *)
(* any edits and any settings file; and the jobs of its main loop          *)
(* (DaemonLoop), for every set of sensors, every calendar of weeks and     *)
(* every choice of the jobs that are switched on.                          *)
(***************************************************************************)
EXTENDS Startup, DaemonLoop, TLAPS

-----------------------------------------------------------------------------
(* Startup.                                                                *)

Up == {"open", "first round", "serve"}

(* What one process knows of the rows and the schema.                      *)
Knows(p) ==
  /\ 1..(at[p] - 1) \subseteq done
  /\ stage[p] = "record" => at[p] \in made
  /\ stage[p] \in Up => done = Versions

LEMMA StartInitOK == StartInit => StartInv
<1> SUFFICES ASSUME StartInit PROVE StartInv
  OBVIOUS
<1>1. made \subseteq Versions /\ done = made
  BY DEF StartInit, Versions
<1>2. 0 \in 0..MaxCommands /\ 0 \in 0..MaxEdits /\ 0 \in 0..MaxFaults
  BY StartupConstantsOK
<1>3. StartTypeOK
  BY <1>1, <1>2 DEF StartInit, StartTypeOK, Labels, Versions
<1>4. InOrder /\ WholeSchema
  BY <1>1 DEF StartInit, InOrder, WholeSchema
<1> QED
  BY <1>3, <1>4 DEF StartInv

(* Where a process goes, the labels and versions stay what they are.       *)
LEMMA MoveTypes ==
  ASSUME StartTypeOK, NEW p \in Procs,
         \/ \E label \in Labels : Goto(p, label) /\ UNCHANGED at
         \/ Exit(p)
         \/ NextVersion(p)
  PROVE  stage' \in [Procs -> Labels] /\ at' \in [Procs -> Versions]
<1>1. at[p] \in Versions /\ (at[p] # 7 => at[p] + 1 \in Versions) /\ 1 \in Versions
  BY DEF StartTypeOK, Versions
<1>2. \A label \in Labels : [stage EXCEPT ![p] = label] \in [Procs -> Labels]
  BY DEF StartTypeOK
<1>3. \A v \in Versions : [at EXCEPT ![p] = v] \in [Procs -> Versions]
  BY DEF StartTypeOK
<1>4. {"off", "open", "check"} \subseteq Labels
  BY DEF Labels
<1> QED
  BY <1>1, <1>2, <1>3, <1>4 DEF StartTypeOK, Goto, Exit, NextVersion

LEMMA StartTypeStep == ASSUME StartTypeOK, [StartNext]_startVars PROVE StartTypeOK'
<1> USE DEF Labels
<1>1. CASE StartDaemon
  <2>1. stage' \in [Procs -> Labels] /\ at' \in [Procs -> Versions]
    BY <1>1, MoveTypes DEF StartDaemon, Procs
  <2> QED
    BY <1>1, <2>1 DEF StartDaemon, StartTypeOK, outside, schema, bounds
<1>2. ASSUME NEW c \in Commands, NEW db \in BOOLEAN, StartCommand(c, db) PROVE StartTypeOK'
  <2>1. stage' \in [Procs -> Labels] /\ at' \in [Procs -> Versions]
    BY <1>2, MoveTypes DEF StartCommand, Procs
  <2>2. commands' \in 0..MaxCommands
    <3>1. commands < MaxCommands /\ commands' = commands + 1
      BY <1>2 DEF StartCommand
    <3>2. commands \in 0..MaxCommands /\ MaxCommands \in Nat
      BY StartupConstantsOK DEF StartTypeOK
    <3> QED
      BY <3>1, <3>2
  <2> QED
    BY <1>2, <2>1, <2>2 DEF StartCommand, StartTypeOK, outside, schema
<1>3. ASSUME NEW p \in Procs, Migrate(p) PROVE StartTypeOK'
  <2>1. stage' \in [Procs -> Labels] /\ at' \in [Procs -> Versions]
    BY <1>3, MoveTypes DEF Migrate, CreateTable, Check, Exec, Record
  <2>2. at[p] \in Versions
    BY DEF StartTypeOK
  <2>3. made' \subseteq Versions /\ done' \subseteq Versions
    BY <1>3, <2>2 DEF Migrate, CreateTable, Check, Exec, Record, StartTypeOK, schema
  <2> QED
    BY <1>3, <2>1, <2>3
       DEF Migrate, CreateTable, Check, Exec, Record, StartTypeOK, outside, bounds
<1>4. ASSUME NEW p \in Procs, Fault(p) PROVE StartTypeOK'
  <2>1. stage' \in [Procs -> Labels] /\ at' \in [Procs -> Versions]
    BY <1>4, MoveTypes DEF Fault
  <2>2. faults < MaxFaults /\ faults' = faults + 1
    BY <1>4 DEF Fault
  <2>3. faults \in 0..MaxFaults /\ MaxFaults \in Nat
    BY StartupConstantsOK DEF StartTypeOK
  <2>4. faults' \in 0..MaxFaults
    BY <2>2, <2>3
  <2> QED
    BY <1>4, <2>1, <2>4 DEF Fault, StartTypeOK, outside, schema
<1>5. ASSUME NEW f \in Files, NEW sound \in BOOLEAN, Edit(f, sound) PROVE StartTypeOK'
  <2>1. edits' \in 0..MaxEdits
    <3>1. edits < MaxEdits /\ edits' = edits + 1
      BY <1>5 DEF Edit
    <3>2. edits \in 0..MaxEdits /\ MaxEdits \in Nat
      BY StartupConstantsOK DEF StartTypeOK
    <3> QED
      BY <3>1, <3>2
  <2> QED
    BY <1>5, <2>1 DEF Edit, StartTypeOK, schema, bounds
<1>6. CASE UNCHANGED startVars
  BY <1>6 DEF startVars, outside, schema, bounds, StartTypeOK
<1>7. Daemon \in Procs /\ Commands \subseteq Procs
  BY DEF Procs
<1>8. CASE SetupSensors \/ Wait
  <2>1. stage' \in [Procs -> Labels] /\ at' \in [Procs -> Versions]
    BY <1>7, <1>8, MoveTypes DEF SetupSensors, Wait
  <2> QED
    BY <1>8, <2>1 DEF SetupSensors, Wait, StartTypeOK, outside, schema, bounds
<1>9. ASSUME NEW c \in Commands, Work(c) PROVE StartTypeOK'
  <2>1. stage' \in [Procs -> Labels] /\ at' \in [Procs -> Versions]
    BY <1>7, <1>9, MoveTypes DEF Work
  <2> QED
    BY <1>9, <2>1 DEF Work, StartTypeOK, outside, schema, bounds
<1> QED
  BY <1>1, <1>2, <1>3, <1>4, <1>5, <1>6, <1>8, <1>9 DEF StartNext

(* Rows are only added, and after their statements: what another process   *)
(* knows, it still knows.                                                  *)
LEMMA KnowledgeKept ==
  ASSUME StartTypeOK', NEW q \in Procs, Knows(q),
         stage'[q] = stage[q], at'[q] = at[q], done \subseteq done', made \subseteq made'
  PROVE  Knows(q)'
  BY DEF Knows, StartTypeOK

(* A process that ends knows nothing.                                      *)
LEMMA ExitKnows ==
  ASSUME StartTypeOK, NEW p \in Procs, Exit(p)
  PROVE  Knows(p)' /\ \A q \in Procs \ {p} : stage'[q] = stage[q] /\ at'[q] = at[q]
<1>1. stage'[p] = "off" /\ at'[p] = 1
  BY DEF Exit, Goto, StartTypeOK
<1>2. \A q \in Procs \ {p} : stage'[q] = stage[q] /\ at'[q] = at[q]
  BY DEF Exit, Goto, StartTypeOK
<1>3. 1..(at'[p] - 1) = {}
  BY <1>1
<1> QED
  BY <1>1, <1>2, <1>3 DEF Knows, Up

(* One that goes on to the next version knows the one before is recorded.  *)
LEMMA NextKnows ==
  ASSUME StartTypeOK, StartTypeOK', NEW p \in Procs, Knows(p), done \subseteq done',
         NextVersion(p), at[p] \in done'
  PROVE  Knows(p)' /\ \A q \in Procs \ {p} : stage'[q] = stage[q] /\ at'[q] = at[q]
<1>1. CASE at[p] = 7
  <2>1. stage'[p] = "open" /\ at'[p] = 7
    BY <1>1 DEF NextVersion, Goto, StartTypeOK
  <2>2. done' = Versions
    <3>1. 1..(7 - 1) \subseteq done' /\ 7 \in done' /\ done' \subseteq Versions
      BY <1>1 DEF Knows, StartTypeOK
    <3>2. \A v \in Versions : v \in 1..(7 - 1) \/ v = 7
      BY DEF Versions
    <3> QED
      BY <3>1, <3>2
  <2>3. \A q \in Procs \ {p} : stage'[q] = stage[q] /\ at'[q] = at[q]
    BY <1>1 DEF NextVersion, Goto, StartTypeOK
  <2> QED
    BY <2>1, <2>2, <2>3 DEF Knows, Versions
<1>2. CASE at[p] # 7
  <2>1. stage'[p] = "check" /\ at'[p] = at[p] + 1 /\ at[p] \in Versions
    BY <1>2 DEF NextVersion, Goto, StartTypeOK
  <2>2. 1..(at'[p] - 1) \subseteq done'
    BY <1>2, <2>1 DEF Knows, Versions
  <2>3. \A q \in Procs \ {p} : stage'[q] = stage[q] /\ at'[q] = at[q]
    BY <1>2 DEF NextVersion, Goto, StartTypeOK
  <2> QED
    BY <2>1, <2>2, <2>3 DEF Knows, Up
<1> QED
  BY <1>1, <1>2

LEMMA OrderStep == ASSUME StartTypeOK, InOrder, [StartNext]_startVars PROVE InOrder'
<1>0. StartTypeOK' /\ (\A q \in Procs : Knows(q)) /\ done \subseteq made
  BY StartTypeStep DEF InOrder, Knows, Up
<1>1. SUFFICES done' \subseteq made' /\ \A q \in Procs : Knows(q)'
  BY DEF InOrder, Knows, Up
<1> DEFINE Others(p) == \A q \in Procs \ {p} : stage'[q] = stage[q] /\ at'[q] = at[q]
           Grown     == done \subseteq done' /\ made \subseteq made' /\ done' \subseteq made'
<1>2. ASSUME NEW p \in Procs, Others(p), Grown, Knows(p)'
      PROVE  done' \subseteq made' /\ \A q \in Procs : Knows(q)'
  BY <1>0, <1>2, KnowledgeKept
<1> HIDE DEF Grown
<1>3. ASSUME NEW p \in Procs, Migrate(p) PROVE Others(p) /\ Grown /\ Knows(p)'
  <2>1. at[p] \in Versions /\ Knows(p)
    BY <1>0 DEF StartTypeOK
  <2>2. Grown
    BY <1>0, <1>3, <2>1
       DEF Grown, Migrate, CreateTable, Check, Exec, Record, Knows, schema
  <2>3. CASE Exit(p)
    BY <2>2, <2>3, ExitKnows
  <2>4. CASE NextVersion(p) /\ at[p] \in done'
    <3>1. done \subseteq done'
      BY <2>2 DEF Grown
    <3> QED
      BY <1>0, <2>1, <2>2, <2>4, <3>1, NextKnows
  <2>5. CASE \/ \E label \in {"check", "exec"} : Goto(p, label) /\ UNCHANGED at
             \/ Goto(p, "record") /\ UNCHANGED at /\ at[p] \in made'
    <3>1. at'[p] = at[p] /\ stage'[p] \notin Up /\ Others(p)
      BY <2>5 DEF Goto, StartTypeOK, Up
    <3>2. stage'[p] = "record" => at[p] \in made'
      BY <2>5 DEF Goto, StartTypeOK
    <3> QED
      BY <2>1, <2>2, <3>1, <3>2 DEF Knows, Grown
  <2>6. CASE CreateTable(p)
    BY <2>5, <2>6 DEF CreateTable
  <2>7. CASE Check(p)
    BY <2>5, <2>7, <2>4 DEF Check, schema
  <2>8. CASE Exec(p)
    BY <2>3, <2>5, <2>8 DEF Exec
  <2>9. CASE Record(p)
    BY <2>3, <2>9, <2>4 DEF Record
  <2> QED
    BY <1>3, <2>6, <2>7, <2>8, <2>9 DEF Migrate
<1>4. ASSUME NEW p \in Procs, Work(p) \/ Fault(p) PROVE Others(p) /\ Grown /\ Knows(p)'
  <2>1. Exit(p) /\ Grown
    BY <1>0, <1>4 DEF Work, Fault, schema, Grown
  <2> QED
    BY <2>1, ExitKnows
<1>5. ASSUME NEW p \in Procs,
             \/ p = Daemon /\ StartDaemon
             \/ p \in Commands /\ \E db \in BOOLEAN : StartCommand(p, db)
      PROVE  Others(p) /\ Grown /\ Knows(p)'
  <2>1. stage'[p] = "table" /\ at' = at /\ Others(p)
    BY <1>5 DEF StartDaemon, StartCommand, Goto, StartTypeOK
  <2>2. Grown
    BY <1>0, <1>5 DEF StartDaemon, StartCommand, schema, Grown
  <2> QED
    BY <1>0, <2>1, <2>2 DEF Knows, Grown, Up
<1>6. ASSUME NEW p \in Procs, p = Daemon, SetupSensors \/ Wait
      PROVE  Others(p) /\ Grown /\ Knows(p)'
  <2>1. Grown
    BY <1>0, <1>6 DEF SetupSensors, Wait, schema, Grown
  <2>2. CASE Exit(p)
    BY <2>1, <2>2, ExitKnows
  <2>3. CASE \E label \in {"first round", "serve"} : Goto(p, label) /\ UNCHANGED at
    <3>1. stage[p] \in Up /\ stage'[p] \in {"first round", "serve"} /\ at' = at /\ Others(p)
      BY <1>6, <2>3 DEF SetupSensors, Wait, Up, Goto, StartTypeOK
    <3>2. done' = done
      BY <1>6 DEF SetupSensors, Wait, schema
    <3> QED
      BY <1>0, <2>1, <3>1, <3>2 DEF Knows, Grown
  <2> QED
    BY <1>6, <2>2, <2>3 DEF SetupSensors, Wait
<1>7. CASE (\E f \in Files, sound \in BOOLEAN : Edit(f, sound)) \/ UNCHANGED startVars
  <2>1. done' = done /\ made' = made /\ stage' = stage /\ at' = at
    BY <1>7 DEF Edit, schema, startVars
  <2> QED
    BY <1>0, <2>1 DEF Knows
<1> QED
  BY <1>2, <1>3, <1>4, <1>5, <1>6, <1>7 DEF StartNext, Procs

(* Every database version a process has behind it is made and recorded, in *)
(* order, whatever other processes migrate the same file and wherever one  *)
(* is killed; so whoever uses the tables finds them whole (migrate).       *)
THEOREM SchemaIsWhole == StartSpec => []StartInv
<1>1. ASSUME StartInv, [StartNext]_startVars PROVE StartInv'
  <2>1. StartTypeOK' /\ InOrder'
    BY <1>1, StartTypeStep, OrderStep DEF StartInv
  <2> QED
    BY <2>1 DEF StartInv, InOrder, WholeSchema, StartTypeOK
<1> QED
  BY <1>1, StartInitOK, PTL DEF StartSpec

(* A column without its row stays without it, and keeps every process out  *)
(* of the database for good: the daemon does not come up again (Exec).     *)
THEOREM GapIsForGood ==
  StartSpec => [][Blocked => Blocked' /\ \A p \in Procs : stage'[p] \notin {"open", "first round", "serve"}]_startVars
<1>1. ASSUME StartInv, StartNext, Blocked
      PROVE  Blocked' /\ \A p \in Procs : stage'[p] \notin {"open", "first round", "serve"}
  <2>1. PICK v \in Alters \cap made : v \notin done /\ \A p \in Procs : stage[p] = "record" => at[p] # v
    BY <1>1 DEF Blocked
  <2>2. StartInv' /\ StartTypeOK
    <3>1. StartTypeOK /\ StartTypeOK' /\ InOrder'
      BY <1>1, StartTypeStep, OrderStep DEF StartInv
    <3> QED
      BY <3>1 DEF StartInv, InOrder, WholeSchema, StartTypeOK
  <2>3. v \in made' /\ v \in Versions
    BY <1>1, <2>1, <2>2 DEF StartNext, Migrate, CreateTable, Check, Exec, Record, StartDaemon,
       StartCommand, SetupSensors, Wait, Work, Fault, Edit, schema, StartTypeOK
  <2>4. v \notin done' /\ \A p \in Procs : stage'[p] = "record" => at'[p] # v
    <3>1. ASSUME NEW p \in Procs, Migrate(p)
          PROVE  v \notin done' /\ \A q \in Procs : stage'[q] = "record" => at'[q] # v
      <4>1. v \notin done'
        BY <2>1, <3>1 DEF Migrate, CreateTable, Check, Exec, Record, schema
      <4>2. \A q \in Procs \ {p} : stage'[q] = stage[q] /\ at'[q] = at[q]
        BY <2>2, <3>1 DEF Migrate, CreateTable, Check, Exec, Record, NextVersion, Exit, Goto, StartTypeOK
      <4>3. stage'[p] = "record" => at'[p] # v
        BY <2>1, <2>2, <3>1
           DEF Migrate, CreateTable, Check, Exec, Record, NextVersion, Exit, Goto, StartTypeOK
      <4> QED
        BY <2>1, <4>1, <4>2, <4>3
    <3>2. ASSUME ~\E p \in Procs : Migrate(p)
          PROVE  v \notin done' /\ \A q \in Procs : stage'[q] = "record" => at'[q] # v
      <4>1. done' = done
        BY <1>1, <3>2 DEF StartNext, StartDaemon, StartCommand, SetupSensors, Wait, Work, Fault,
           Edit, schema
      <4>2. \A q \in Procs : stage'[q] = "record" => stage[q] = "record" /\ at'[q] = at[q]
        BY <1>1, <2>2, <3>2 DEF StartNext, StartDaemon, StartCommand, SetupSensors, Wait, Work,
           Fault, Edit, Exit, Goto, StartTypeOK
      <4> QED
        BY <2>1, <4>1, <4>2
    <3> QED
      BY <3>1, <3>2
  <2>5. Blocked'
    BY <2>1, <2>3, <2>4 DEF Blocked
  <2>6. \A p \in Procs : stage'[p] \in {"open", "first round", "serve"} => done' = Versions
    BY <2>2 DEF StartInv, InOrder
  <2> QED
    BY <2>3, <2>4, <2>5, <2>6
<1> QED
  BY <1>1, SchemaIsWhole, PTL DEF StartSpec

(* For every file that loads and every environment, each setting is what   *)
(* the comments promise, or the default where they are known not to hold.  *)
LEMMA LoadHonoured ==
  ASSUME NEW f \in Files, NEW e \in Environments, Loads(f)
  PROVE  Honoured(f, e, OverrideFromEnv(Settings(f), e))
<1> DEFINE a == Apply(f)
           s == Settings(f)
           c == OverrideFromEnv(s, e)
<1>0. \A x \in {Absent, Null, Word} : x \notin Int /\ x # ""
  BY ConfigConstantsOK
<1>1. CASE f.form = "missing"
  <2>1. s = Default
    BY <1>1 DEF Settings
  <2>2. /\ c.poll = Default.poll /\ c.retention = Default.retention /\ c.format = Default.format
        /\ c.waste  = (IF Heard(e, "waste") THEN e.waste ELSE Default.waste)
        /\ c.digest = (IF Heard(e, "digest") THEN e.digest ELSE Default.digest)
    BY <2>1 DEF OverrideFromEnv, Default
  <2> QED
    BY <1>1, <2>2 DEF Honoured, Meaning, Numbers, Texts
<1>2. CASE f.form = "yaml"
  <2>1. \A k \in Numbers : f[k] \in Int \cup {Absent, Null}
    BY <1>2, StartupConstantsOK DEF Loads
  <2>2. /\ \A k \in Numbers : a[k] = IF Over(f, k) > 0 THEN Over(f, k) ELSE Default[k]
        /\ \A k \in Texts : a[k] = IF Over(f, k) # "" THEN Over(f, k) ELSE Default[k]
        /\ a = [k \in Numbers \cup Texts |-> a[k]]
    BY DEF Apply, Numbers, Texts
  <2>3. /\ s.poll = a.poll /\ s.digest = a.digest /\ s.format = a.format
        /\ s.waste = IF f.waste # Absent /\ Explicit(f, "waste") THEN f.waste ELSE a.waste
        /\ s.retention = IF f.waste # Absent /\ f.retention # Absent /\ Explicit(f, "retention")
                         THEN f.retention ELSE a.retention
        /\ s = [k \in Numbers \cup Texts |-> s[k]]
    <3>1. s = OverrideWasteInterval(f, a)
      BY <1>2 DEF Settings
    <3> HIDE DEF s, a
    <3> QED
      BY <2>2, <3>1 DEF OverrideWasteInterval, Numbers, Texts
  <2> DEFINE unheard == Unheard(f)
             heard   == {k \in {"waste", "digest"} : Heard(e, k)}
             unsaid  == {Absent, Null}
             Said(k) == IF f[k] \in unsaid THEN Default[k] ELSE f[k]
             Fine(k) == c[k] = Meaning(f, e, k) \/ (k \in unheard /\ c[k] = Default[k])
  <2>4. /\ c.poll = s.poll /\ c.retention = s.retention /\ c.format = s.format
        /\ c.waste  = IF "waste" \in heard THEN e.waste ELSE s.waste
        /\ c.digest = IF "digest" \in heard THEN e.digest ELSE s.digest
    <3> HIDE DEF s
    <3> QED
      BY <2>3 DEF OverrideFromEnv, Numbers, Texts
  <2>5. /\ \A k \in Numbers : f[k] \notin unsaid /\ f[k] < 0 => k \in unheard
        /\ \A k \in Texts : f[k] = "" => k \in unheard
        /\ f["poll"] = 0 => "poll" \in unheard
        /\ f["retention"] = 0 /\ f.waste = Absent => "retention" \in unheard
    BY DEF Unheard, Written
  <2>6. /\ \A k \in {"poll", "retention", "format"} : Meaning(f, e, k) = Said(k)
        /\ \A k \in {"waste", "digest"} :
             Meaning(f, e, k) = IF k \in heard THEN e[k] ELSE Said(k)
    BY <1>2 DEF Meaning, Written
  <2>7. /\ \A k \in Numbers : Over(f, k) = IF f[k] \in unsaid THEN 0 ELSE f[k]
        /\ \A k \in Texts : Over(f, k) = IF f[k] \in unsaid THEN "" ELSE f[k]
        /\ \A k \in Numbers : f[k] \notin unsaid => f[k] \in Int
    BY <2>1 DEF Over, Written, Texts, Numbers
  <2>8. /\ s.waste = IF f.waste \notin unsaid /\ f.waste >= 0 THEN f.waste ELSE a.waste
        /\ s.retention = IF f.waste # Absent /\ f.retention \notin unsaid /\ f.retention >= 0
                         THEN f.retention ELSE a.retention
    BY <2>3 DEF Explicit
  <2> HIDE DEF c, s, a, unheard, heard
  <2>9. Fine("poll")
    <3>1. c.poll = IF Over(f, "poll") > 0 THEN Over(f, "poll") ELSE Default.poll
      BY <2>2, <2>3, <2>4 DEF Numbers
    <3>2. c.poll = Said("poll") \/ ("poll" \in unheard /\ c.poll = Default.poll)
      <4>1. "poll" \in Numbers /\ f["poll"] = f.poll
        BY DEF Numbers
      <4>2. CASE f.poll \in unsaid
        <5>1. Over(f, "poll") = 0 /\ Said("poll") = Default.poll
          BY <2>7, <4>1, <4>2
        <5> QED
          BY <3>1, <5>1
      <4>3. CASE f.poll \notin unsaid
        <5>1. Over(f, "poll") = f.poll /\ Said("poll") = f.poll /\ f.poll \in Int
          BY <2>7, <4>1, <4>3
        <5>2. f.poll < 0 \/ f.poll = 0 => "poll" \in unheard
          BY <2>5, <4>1, <4>3
        <5> HIDE DEF unsaid, Said
        <5> QED
          BY <3>1, <5>1, <5>2
      <4> QED
        BY <4>2, <4>3
    <3> QED
      BY <2>6, <3>2
  <2>10. Fine("waste")
    <3>1. a.waste = IF Over(f, "waste") > 0 THEN Over(f, "waste") ELSE Default.waste
      BY <2>2 DEF Numbers
    <3>2. s.waste = Said("waste") \/ ("waste" \in unheard /\ s.waste = Default.waste)
      <4>1. "waste" \in Numbers /\ f["waste"] = f.waste
        BY DEF Numbers
      <4>2. CASE f.waste \in unsaid
        <5>1. Over(f, "waste") = 0 /\ Said("waste") = Default.waste
          BY <2>7, <4>1, <4>2
        <5> QED
          BY <2>8, <3>1, <4>2, <5>1
      <4>3. CASE f.waste \notin unsaid
        <5>1. Over(f, "waste") = f.waste /\ Said("waste") = f.waste /\ f.waste \in Int
          BY <2>7, <4>1, <4>3
        <5>2. f.waste < 0 => "waste" \in unheard
          BY <2>5, <4>1, <4>3
        <5>3. f.waste = Absent /\ f.retention = 0 => "retention" \in unheard
          BY <2>5, <4>1
        <5> HIDE DEF unsaid, Said
        <5> QED
          BY <2>8, <3>1, <4>3, <5>1, <5>2, <5>3
      <4> QED
        BY <4>2, <4>3
    <3> QED
      BY <2>4, <2>6, <3>2
  <2>11. Fine("retention")
    <3>1. a.retention = IF Over(f, "retention") > 0 THEN Over(f, "retention") ELSE Default.retention
      BY <2>2 DEF Numbers
    <3>2. s.retention = Said("retention") \/ ("retention" \in unheard /\ s.retention = Default.retention)
      <4>1. "retention" \in Numbers /\ f["retention"] = f.retention
        BY DEF Numbers
      <4>2. CASE f.retention \in unsaid
        <5>1. Over(f, "retention") = 0 /\ Said("retention") = Default.retention
          BY <2>7, <4>1, <4>2
        <5> QED
          BY <2>8, <3>1, <4>2, <5>1
      <4>3. CASE f.retention \notin unsaid
        <5>1. Over(f, "retention") = f.retention /\ Said("retention") = f.retention /\ f.retention \in Int
          BY <2>7, <4>1, <4>3
        <5>2. f.retention < 0 => "retention" \in unheard
          BY <2>5, <4>1, <4>3
        <5>3. f.waste = Absent /\ f.retention = 0 => "retention" \in unheard
          BY <2>5, <4>1
        <5> HIDE DEF unsaid, Said
        <5> QED
          BY <2>8, <3>1, <4>3, <5>1, <5>2, <5>3
      <4> QED
        BY <4>2, <4>3
    <3> QED
      BY <2>4, <2>6, <3>2
  <2>12. Fine("digest") /\ Fine("format")
    <3>1. \A k \in Texts : a[k] = Said(k) \/ (k \in unheard /\ a[k] = Default[k])
      BY <2>2, <2>5, <2>7
    <3>2. /\ s.digest = Said("digest") \/ ("digest" \in unheard /\ s.digest = Default.digest)
          /\ s.format = Said("format") \/ ("format" \in unheard /\ s.format = Default.format)
      BY <2>3, <3>1 DEF Texts
    <3> QED
      BY <2>4, <2>6, <3>2
  <2> QED
    BY <1>2, <2>9, <2>10, <2>11, <2>12 DEF Honoured, Numbers, Texts, unheard, c, s
<1> QED
  BY <1>1, <1>2 DEF Loads

(* The daemon starts with the settings its file and environment ask for,   *)
(* and keeps them while it runs, whatever becomes of the file (Load,       *)
(* applyWasteEnvOverride, newDaemon).                                      *)
THEOREM SettingsKept == StartSpec => SettingsHonoured
<1>1. ASSUME StartInv, [StartNext]_startVars
      PROVE  [stage'[Daemon] # "off" => IF stage[Daemon] = "off" THEN Honoured(file, env, conf')
                                                           ELSE conf' = conf]_startVars
  <2> SUFFICES ASSUME StartNext, stage'[Daemon] # "off"
               PROVE  IF stage[Daemon] = "off" THEN Honoured(file, env, conf') ELSE conf' = conf
    BY <1>1 DEF startVars
  <2>0. StartTypeOK /\ Daemon \in Procs /\ \A p \in Commands : p \in Procs /\ p # Daemon
    BY <1>1, StartupConstantsOK DEF StartInv, Procs
  <2>1. CASE StartDaemon
    BY <2>0, <2>1, LoadHonoured DEF StartDaemon, StartTypeOK
  <2>2. ASSUME NEW p \in Procs, Exit(p) PROVE p # Daemon /\ conf' = conf /\ stage'[Daemon] = stage[Daemon]
    BY <2>0, <2>2 DEF Exit, Goto, StartTypeOK
  <2>3. ASSUME ~StartDaemon PROVE conf' = conf /\ stage[Daemon] # "off"
    <3>1. ASSUME NEW p \in Procs, Migrate(p) PROVE conf' = conf /\ stage[Daemon] # "off"
      BY <2>0, <2>2, <3>1
         DEF Migrate, CreateTable, Check, Exec, Record, NextVersion, Goto, StartTypeOK
    <3>2. ASSUME NEW p \in Procs, Fault(p) PROVE conf' = conf /\ stage[Daemon] # "off"
      BY <2>2, <3>2 DEF Fault
    <3>3. ASSUME NEW p \in Commands, Work(p) PROVE conf' = conf /\ stage[Daemon] # "off"
      BY <2>0, <2>2, <3>3 DEF Work
    <3>4. ASSUME NEW p \in Commands, NEW db \in BOOLEAN, StartCommand(p, db)
          PROVE  conf' = conf /\ stage[Daemon] # "off"
      BY <2>0, <3>4 DEF StartCommand, Goto, StartTypeOK
    <3>5. CASE SetupSensors \/ Wait
      BY <2>0, <2>2, <3>5 DEF SetupSensors, Wait
    <3>6. ASSUME NEW f \in Files, NEW sound \in BOOLEAN, Edit(f, sound)
          PROVE  conf' = conf /\ stage[Daemon] # "off"
      BY <3>6 DEF Edit
    <3> QED
      BY <2>3, <3>1, <3>2, <3>3, <3>4, <3>5, <3>6 DEF StartNext
  <2> QED
    BY <2>1, <2>3 DEF StartDaemon
<1> QED
  BY <1>1, SchemaIsWhole, PTL DEF StartSpec, SettingsHonoured

-----------------------------------------------------------------------------
(* The main loop.                                                          *)

(* The parts of the invariant apart from the types.                        *)
Periods == OncePerPeriod /\ DigestInv /\ SummaryInv /\ KeyInv
Lists   == ListTellsTheTruth /\ SnapInv

LEMMA InitOK == Init => IInv
<1> SUFFICES ASSUME Init PROVE IInv
  OBVIOUS
<1>1. TypeOK
  <2>1. {states, snap, shown} \subseteq [Sensors -> States \cup {Unset}]
    BY DEF Init
  <2>2. day \in Days /\ table \subseteq Earlier..day /\ cfg \in Configs
    BY LoopConstantsOK DEF Init, Days, Earlier
  <2>3. /\ pc \in Steps
        /\ attempt \in 0..(Attempts - 1) /\ copies \in 0..2
        /\ pruneKey \in Nat
        /\ {weekKey, weekRow, dayKey, dayRow, pruneRow} \subseteq Nat \cup {None}
        /\ {summaries, digests} \subseteq 0..2
    BY DEF Init, Steps, Attempts
  <2>4. /\ text \in [shown : [Sensors -> States \cup {Unset}], listed : SUBSET Sensors]
        /\ late \in BOOLEAN /\ snapDoubt \in BOOLEAN
        /\ doubt \subseteq {"day", "week"}
    BY DEF Init, NoText
  <2> QED
    BY <2>1, <2>2, <2>3, <2>4 DEF TypeOK
<1>2. Periods /\ Lists
  <2>1. Week[0] \in Nat
    BY LoopConstantsOK DEF Days
  <2> QED
    BY <2>1 DEF Init, Periods, Lists, OncePerPeriod, DigestInv, SummaryInv, KeyInv, SnapInv,
       ListTellsTheTruth, None
<1> QED
  BY <1>1, <1>2 DEF IInv, Periods, Lists

(* An attempt leaves the counts of the Send in progress in their range.    *)
LEMMA PostTypes ==
  ASSUME TypeOK, NEW delivered \in BOOLEAN, NEW outcome \in Outcomes,
         NEW sent \in Steps, NEW failed \in Steps, Post(delivered, outcome, sent, failed)
  PROVE  /\ attempt' \in 0..(Attempts - 1) /\ copies' \in 0..2 /\ pc' \in Steps
         /\ Arrived(delivered) \in 0..2
  BY DEF Post, Arrived, OneMore, TypeOK, Attempts

(* Every action keeps the types.                                           *)
LEMMA TypeStep == ASSUME TypeOK, [Next]_vars PROVE TypeOK'
<1> USE LoopConstantsOK DEF TypeOK, Days, Steps, None, Earlier
<1>1. CASE FirstRound \/ TakeTick
  <2>1. states' \in [Sensors -> States \cup {Unset}]
    BY <1>1 DEF FirstRound, TakeTick, PollRound
  <2>2. table' \subseteq Earlier..day'
    <3>1. table' \subseteq table \cup {day} /\ day' = day
      BY <1>1 DEF FirstRound, TakeTick, PollRound, given
    <3>2. day \in Earlier..day
      OBVIOUS
    <3> QED
      BY <3>1, <3>2
  <2> QED
    BY <1>1, <2>1, <2>2 DEF FirstRound, TakeTick, PollRound, given, sending, weekly, daily
<1>2. CASE EnterSelect \/ TakeScan \/ Finish \/ WeeklySkip \/ DigestSkip \/ PruneSkip
  BY <1>2 DEF EnterSelect, TakeScan, Finish, WeeklySkip, DigestSkip, PruneSkip,
     given, sending, weekly, daily, pruned
<1>3. ASSUME NEW readOK \in BOOLEAN, WeeklyBegin(readOK) PROVE TypeOK'
  BY <1>3 DEF WeeklyBegin, given, sending, daily, pruned
<1>4. ASSUME NEW delivered \in BOOLEAN, NEW outcome \in Outcomes,
             WeeklyAttempt(delivered, outcome)
      PROVE  TypeOK'
  <2>1. attempt' \in 0..(Attempts - 1) /\ copies' \in 0..2 /\ pc' \in Steps
    BY <1>4, PostTypes DEF WeeklyAttempt
  <2>2. summaries' \in 0..2
    BY <1>4 DEF WeeklyAttempt, OneMore
  <2> QED
    BY <1>4, <2>1, <2>2 DEF WeeklyAttempt, given, daily, pruned
<1>5. ASSUME NEW ok \in BOOLEAN, WeeklySave(ok) PROVE TypeOK'
  BY <1>5 DEF WeeklySave, given, daily, pruned
<1>6. ASSUME NEW seen \in SUBSET Sensors, NEW readOK \in BOOLEAN, NEW snapReadOK \in BOOLEAN,
             DigestBegin(seen, readOK, snapReadOK)
      PROVE  TypeOK'
  <2>1. text' \in [shown : [Sensors -> States \cup {Unset}], listed : SUBSET Sensors]
    BY <1>6 DEF DigestBegin, Current, Changes
  <2> QED
    BY <1>6, <2>1 DEF DigestBegin, given, sending, weekly, pruned
<1>7. ASSUME NEW delivered \in BOOLEAN, NEW outcome \in Outcomes,
             DigestAttempt(delivered, outcome)
      PROVE  TypeOK'
  <2>1. attempt' \in 0..(Attempts - 1) /\ copies' \in 0..2 /\ pc' \in Steps
    BY <1>7, PostTypes DEF DigestAttempt
  <2>2. digests' \in 0..2
    BY <1>7 DEF DigestAttempt, OneMore
  <2>3. /\ text' \in [shown : [Sensors -> States \cup {Unset}], listed : SUBSET Sensors]
        /\ shown' \in [Sensors -> States \cup {Unset}]
        /\ snapDoubt' \in BOOLEAN
    BY <1>7 DEF DigestAttempt, NoText, Unanswered
  <2> QED
    BY <1>7, <2>1, <2>2, <2>3 DEF DigestAttempt, given, weekly, pruned
<1>8. ASSUME NEW ok \in BOOLEAN, DigestSave(ok) PROVE TypeOK'
  BY <1>8 DEF DigestSave, given, weekly, pruned
<1>9. ASSUME NEW ok \in BOOLEAN, SnapSave(ok) PROVE TypeOK'
  <2>1. /\ text' \in [shown : [Sensors -> States \cup {Unset}], listed : SUBSET Sensors]
        /\ snap' \in [Sensors -> States \cup {Unset}]
    BY <1>9 DEF SnapSave, NoText
  <2> QED
    BY <1>9, <2>1 DEF SnapSave, given, sending, weekly, pruned
<1>10. ASSUME NEW readOK \in BOOLEAN, NEW ok \in BOOLEAN, Prune(readOK, ok)
       PROVE  TypeOK'
  <2>1. table' \subseteq table
    BY <1>10 DEF Prune, Pruned
  <2> QED
    BY <1>10, <2>1 DEF Prune, given, sending, weekly, daily
<1>11. ASSUME NEW ok \in BOOLEAN, PruneSave(ok) PROVE TypeOK'
  BY <1>11 DEF PruneSave, given, sending, weekly, daily
<1>12. CASE Restart
  <2>1. text' \in [shown : [Sensors -> States \cup {Unset}], listed : SUBSET Sensors]
    BY <1>12 DEF Restart, NoText
  <2>2. doubt' \subseteq {"day", "week"} /\ snapDoubt' \in BOOLEAN
    BY <1>12 DEF Restart, Unregistered
  <2>3. attempt' \in 0..(Attempts - 1) /\ copies' \in 0..2
    BY <1>12 DEF Restart, Attempts
  <2> QED
    BY <1>12, <2>1, <2>2, <2>3 DEF Restart, given, weekly
<1>13. CASE DigestTimeComes
  BY <1>13 DEF DigestTimeComes, sending, weekly, daily, pruned
<1>14. CASE Midnight
  <2>1. day' \in Days /\ Earlier..day \subseteq Earlier..day'
    BY <1>14 DEF Midnight
  <2>2. table' \subseteq Earlier..day'
    BY <1>14, <2>1 DEF Midnight, pruned
  <2>3. late' \in BOOLEAN
    BY <1>14, Zenon DEF Midnight
  <2> QED
    BY <1>14, <2>1, <2>2, <2>3 DEF Midnight, sending, weekly, daily, pruned
<1>15. CASE UNCHANGED vars
  BY <1>15 DEF vars, given, sending, weekly, daily, pruned
<1> QED
  BY <1>1, <1>2, <1>3, <1>4, <1>5, <1>6, <1>7, <1>8, <1>9, <1>10, <1>11, <1>12,
     <1>13, <1>14, <1>15 DEF Next, Loop, Job

(* Every action keeps the book of periods.                                 *)
LEMMA PeriodsStep == ASSUME TypeOK, Periods, [Next]_vars PROVE Periods'
<1> USE DEF Periods, OncePerPeriod, DigestInv, SummaryInv, KeyInv
<1> DEFINE Sends == {"weeklySend", "weeklySave", "digestSend", "digestSave"}
           Book  == <<dayKey, dayRow, weekKey, weekRow, digests, summaries, doubt>>
<1>0. /\ day \in Nat /\ Week[day] \in Nat /\ copies \in Nat
      /\ digests \in 0..2 /\ summaries \in 0..2
      /\ {dayKey, dayRow, weekKey, weekRow} \subseteq Int
  BY LoopConstantsOK DEF TypeOK, Days, None
<1>1. ASSUME UNCHANGED <<Book, copies, day>>, pc \notin Sends, pc' \notin Sends
      PROVE  Periods'
  BY <1>1
<1>2. CASE FirstRound \/ TakeTick
  BY <1>1, <1>2 DEF FirstRound, TakeTick, PollRound, given, sending, weekly, daily
<1>3. CASE EnterSelect \/ TakeScan \/ Finish \/ WeeklySkip \/ DigestSkip \/ PruneSkip
  BY <1>1, <1>3 DEF EnterSelect, TakeScan, Finish, WeeklySkip, DigestSkip, PruneSkip,
     given, sending, weekly, daily, pruned
<1>4. ASSUME NEW readOK \in BOOLEAN, WeeklyBegin(readOK) PROVE Periods'
  <2>1. /\ pc = "weekly" /\ pc' = "weeklySend" /\ copies = 0
        /\ UNCHANGED <<copies, day, dayKey, dayRow, digests, weekRow>>
        /\ weekKey' = Week[day]
        /\ "day" \in doubt <=> "day" \in doubt'
        /\ WeeklyDone => "week" \in doubt'
    BY <1>0, <1>4 DEF WeeklyBegin, given, sending, daily
  <2>2. /\ weekKey = Week[day] => summaries' = summaries /\ doubt \subseteq doubt'
        /\ weekKey # Week[day] => summaries' = 0
    BY <1>4 DEF WeeklyBegin
  <2>3. weekRow <= weekKey'
    BY <1>0, <2>1
  <2> QED
    BY <1>0, <2>1, <2>2, <2>3 DEF WeeklyDone
<1>5. ASSUME NEW delivered \in BOOLEAN, NEW outcome \in Outcomes,
             WeeklyAttempt(delivered, outcome)
      PROVE  Periods'
  <2>1. /\ pc = "weeklySend" /\ UNCHANGED <<day, dayKey, dayRow, digests, weekKey, weekRow>>
        /\ pc' \in {"weeklySend", "weeklySave", "digest"}
        /\ "day" \in doubt <=> "day" \in doubt'
        /\ doubt \subseteq doubt'
    BY <1>5 DEF WeeklyAttempt, Post, given, daily
  <2>2. /\ pc' # "digest" => copies' = Arrived(delivered)
        /\ pc' = "digest" => copies' = 0 /\ (Arrived(delivered) > 0 => "week" \in doubt')
        /\ pc' = "weeklySave" => delivered
    BY <1>5 DEF WeeklyAttempt, Post, Unanswered
  <2>3. /\ First(delivered) => summaries' = OneMore(summaries)
        /\ ~First(delivered) => summaries' = summaries
    BY <1>5 DEF WeeklyAttempt
  <2>4. /\ Arrived(delivered) \in Nat
        /\ delivered => Arrived(delivered) > 0
        /\ ~delivered => Arrived(delivered) = copies
    BY <1>0 DEF Arrived, OneMore
  <2>5. summaries' > 0 /\ "week" \notin doubt' => copies' > 0
    BY <1>0, <2>1, <2>2, <2>3, <2>4 DEF First
  <2>6. summaries' = 2 => "week" \in doubt'
    BY <1>0, <2>1, <2>2, <2>3, <2>4 DEF First, OneMore
  <2>7. pc' = "weeklySend" /\ copies' > 0 => summaries' > 0
    BY <1>0, <2>1, <2>2, <2>3, <2>4 DEF First, OneMore
  <2>8. (copies' > 0 => pc' \in Sends) /\ (pc' = "weeklySave" => copies' > 0)
    BY <1>0, <2>1, <2>2, <2>3, <2>4
  <2>9. summaries' > 0 /\ "week" \notin doubt' => pc' # "digest"
    BY <2>2, <2>5
  <2> QED
    BY <1>0, <2>1, <2>5, <2>6, <2>7, <2>8, <2>9
<1>6. ASSUME NEW ok \in BOOLEAN, WeeklySave(ok) PROVE Periods'
  <2>1. /\ pc = "weeklySave" /\ pc' = "digest" /\ copies' = 0
        /\ UNCHANGED <<day, dayKey, dayRow, digests, weekKey, summaries>>
        /\ doubt \subseteq doubt' /\ ("day" \in doubt <=> "day" \in doubt')
    BY <1>6 DEF WeeklySave, given, daily
  <2>2. \/ weekRow' = weekKey
        \/ weekRow' = weekRow /\ "week" \in doubt'
    BY <1>6 DEF WeeklySave
  <2> QED
    BY <1>0, <2>1, <2>2
<1>7. ASSUME NEW seen \in SUBSET Sensors, NEW readOK \in BOOLEAN, NEW snapReadOK \in BOOLEAN,
             DigestBegin(seen, readOK, snapReadOK)
      PROVE  Periods'
  <2>1. /\ pc = "digest" /\ pc' = "digestSend" /\ copies = 0
        /\ UNCHANGED <<copies, day, weekKey, weekRow, summaries, dayRow>>
        /\ dayKey' = day
        /\ "week" \in doubt <=> "week" \in doubt'
        /\ DigestDone => "day" \in doubt'
    BY <1>0, <1>7 DEF DigestBegin, given, sending, weekly
  <2>2. /\ dayKey = day => digests' = digests /\ doubt \subseteq doubt'
        /\ dayKey # day => digests' = 0
    BY <1>7 DEF DigestBegin
  <2>3. dayRow <= dayKey'
    BY <1>0, <2>1
  <2> QED
    BY <1>0, <2>1, <2>2, <2>3 DEF DigestDone
<1>8. ASSUME NEW delivered \in BOOLEAN, NEW outcome \in Outcomes,
             DigestAttempt(delivered, outcome)
      PROVE  Periods'
  <2>1. /\ pc = "digestSend" /\ UNCHANGED <<day, dayKey, dayRow, summaries, weekKey, weekRow>>
        /\ pc' \in {"digestSend", "digestSave", "prune"}
        /\ "week" \in doubt <=> "week" \in doubt'
        /\ doubt \subseteq doubt'
    BY <1>8 DEF DigestAttempt, Post, given, weekly
  <2>2. /\ pc' # "prune" => copies' = Arrived(delivered)
        /\ pc' = "prune" => copies' = 0 /\ (Arrived(delivered) > 0 => "day" \in doubt')
        /\ pc' = "digestSave" => delivered
    BY <1>8 DEF DigestAttempt, Post, Unanswered
  <2>3. /\ First(delivered) => digests' = OneMore(digests)
        /\ ~First(delivered) => digests' = digests
    BY <1>8 DEF DigestAttempt
  <2>4. /\ Arrived(delivered) \in Nat
        /\ delivered => Arrived(delivered) > 0
        /\ ~delivered => Arrived(delivered) = copies
    BY <1>0 DEF Arrived, OneMore
  <2>5. digests' > 0 /\ "day" \notin doubt' => copies' > 0
    BY <1>0, <2>1, <2>2, <2>3, <2>4 DEF First
  <2>6. digests' = 2 => "day" \in doubt'
    BY <1>0, <2>1, <2>2, <2>3, <2>4 DEF First, OneMore
  <2>7. pc' = "digestSend" /\ copies' > 0 => digests' > 0
    BY <1>0, <2>1, <2>2, <2>3, <2>4 DEF First, OneMore
  <2>8. (copies' > 0 => pc' \in Sends) /\ (pc' = "digestSave" => copies' > 0)
    BY <1>0, <2>1, <2>2, <2>3, <2>4
  <2>9. digests' > 0 /\ "day" \notin doubt' => pc' # "prune"
    BY <2>2, <2>5
  <2> QED
    BY <1>0, <2>1, <2>5, <2>6, <2>7, <2>8, <2>9
<1>9. ASSUME NEW ok \in BOOLEAN, DigestSave(ok) PROVE Periods'
  <2>1. /\ pc = "digestSave" /\ pc' = "snapSave" /\ copies' = 0
        /\ UNCHANGED <<day, dayKey, digests, weekKey, weekRow, summaries>>
        /\ doubt \subseteq doubt' /\ ("week" \in doubt <=> "week" \in doubt')
    BY <1>9 DEF DigestSave, given, weekly
  <2>2. \/ dayRow' = dayKey
        \/ dayRow' = dayRow /\ "day" \in doubt'
    BY <1>9 DEF DigestSave
  <2> QED
    BY <1>0, <2>1, <2>2
<1>10. ASSUME NEW ok \in BOOLEAN, SnapSave(ok) PROVE Periods'
  BY <1>1, <1>10 DEF SnapSave, given, sending, weekly, pruned
<1>11. ASSUME NEW readOK \in BOOLEAN, NEW ok \in BOOLEAN, Prune(readOK, ok)
       PROVE  Periods'
  BY <1>1, <1>11 DEF Prune, given, sending, weekly, daily
<1>12. ASSUME NEW ok \in BOOLEAN, PruneSave(ok) PROVE Periods'
  BY <1>1, <1>12 DEF PruneSave, given, sending, weekly, daily
<1>13. CASE Restart
  <2>1. /\ pc' = "start" /\ copies' = 0 /\ doubt' = doubt \cup Unregistered
        /\ UNCHANGED <<day, dayKey, dayRow, digests, weekKey, weekRow, summaries>>
    BY <1>13 DEF Restart, given, weekly
  <2>2. /\ pc \in {"digestSend", "digestSave"} /\ copies > 0 => "day" \in doubt'
        /\ pc \in {"weeklySend", "weeklySave"} /\ copies > 0 => "week" \in doubt'
    BY <2>1 DEF Unregistered
  <2> QED
    BY <1>0, <2>1, <2>2
<1>14. CASE DigestTimeComes
  BY <1>14 DEF DigestTimeComes, sending, weekly, daily, pruned
<1>15. CASE Midnight
  <2>1. day' = day + 1 /\ Week[day + 1] \in Nat /\ Week[day] <= Week[day + 1]
    <3>1. day \in Days /\ day + 1 \in Days /\ day <= day + 1
      BY <1>15, LoopConstantsOK DEF TypeOK, Days, Midnight
    <3> QED
      BY <1>15, <3>1, LoopConstantsOK DEF Days, Midnight
  <2>2. UNCHANGED <<pc, copies, Book>>
    BY <1>15 DEF Midnight, sending, weekly, daily
  <2>3. dayKey' <= day' /\ weekKey' <= Week[day']
    BY <1>0, <2>1, <2>2
  <2> QED
    BY <2>2, <2>3
<1>16. CASE UNCHANGED vars
  BY <1>16 DEF vars, given, sending, weekly, daily, pruned
<1> QED
  BY <1>2, <1>3, <1>4, <1>5, <1>6, <1>7, <1>8, <1>9, <1>10, <1>11, <1>12, <1>13,
     <1>14, <1>15, <1>16 DEF Next, Loop, Job

(* Every action keeps the snapshot that of the digest last delivered, and  *)
(* the list in a digest on its way what it was composed from.              *)
LEMMA ListsStep == ASSUME TypeOK, KeyInv, Lists, [Next]_vars PROVE Lists'
<1> USE DEF Lists, ListTellsTheTruth, SnapInv
<1> DEFINE Digest == {"digestSend", "digestSave", "snapSave"}
<1>0. copies \in Nat /\ (copies > 0 => pc \in {"weeklySend", "weeklySave", "digestSend", "digestSave"})
  BY DEF TypeOK, KeyInv
<1>1. ASSUME NEW seen \in SUBSET Sensors, NEW readOK \in BOOLEAN, NEW snapReadOK \in BOOLEAN,
             DigestBegin(seen, readOK, snapReadOK)
      PROVE  Lists'
  <2>1. /\ pc = "digest" /\ pc' = "digestSend" /\ copies = 0 /\ copies' = 0
        /\ UNCHANGED <<snap, shown, snapDoubt>>
        /\ text'.listed \in {{}, Changes(snap, Current(seen))}
        /\ text'.shown = Current(seen)
    BY <1>0, <1>1 DEF DigestBegin, sending
  <2>2. ~snapDoubt => snap = shown
    BY <2>1
  <2> QED
    BY <2>1, <2>2 DEF Changes
<1>2. ASSUME NEW delivered \in BOOLEAN, NEW outcome \in Outcomes,
             DigestAttempt(delivered, outcome)
      PROVE  Lists'
  <2>1. /\ pc = "digestSend" /\ pc' \in {"digestSend", "digestSave", "prune"}
        /\ pc' # "prune" => text' = text /\ copies' = Arrived(delivered)
        /\ pc' = "digestSave" => delivered
        /\ shown' = (IF delivered THEN text.shown ELSE shown)
        /\ snap' = snap /\ (snapDoubt => snapDoubt')
        /\ pc' = "prune" /\ Arrived(delivered) > 0 => snapDoubt'
    BY <1>2 DEF DigestAttempt, Post, Unanswered
  <2>2. /\ Arrived(delivered) \in Nat
        /\ delivered => Arrived(delivered) > 0
        /\ ~delivered => Arrived(delivered) = copies
    BY <1>0 DEF Arrived, OneMore
  <2>3. CASE copies > 0
    <3>1. shown' = text.shown /\ Arrived(delivered) > 0
      BY <1>0, <2>1, <2>2, <2>3 DEF Arrived, OneMore
    <3> QED
      BY <2>1, <2>2, <3>1
  <2>4. CASE copies = 0 /\ delivered
    BY <2>1, <2>2, <2>4
  <2>5. CASE copies = 0 /\ ~delivered
    <3>1. /\ shown' = shown /\ pc' # "digestSave"
          /\ pc' = "digestSend" => copies' = 0 /\ text' = text
      BY <2>1, <2>2, <2>5
    <3>2. pc' = "prune" => copies' = 0
      BY <1>2 DEF DigestAttempt, Post
    <3>3. ~snapDoubt' => snap' = shown'
      BY <2>1, <2>5, <3>1
    <3> QED
      BY <2>1, <2>5, <3>1, <3>2, <3>3
  <2> QED
    BY <1>0, <2>3, <2>4, <2>5
<1>3. ASSUME NEW ok \in BOOLEAN, DigestSave(ok) \/ SnapSave(ok) PROVE Lists'
  BY <1>3 DEF DigestSave, SnapSave
<1>4. CASE Restart
  <2>1. /\ pc' = "start" /\ UNCHANGED <<snap, shown>>
        /\ snapDoubt' = (snapDoubt \/ pc = "snapSave" \/ "day" \in Unregistered)
    BY <1>4 DEF Restart
  <2>2. pc = "digestSave" => copies > 0
    BY DEF KeyInv
  <2> QED
    BY <2>1, <2>2 DEF Unregistered
<1>5. ASSUME UNCHANGED <<text, snap, shown, snapDoubt>>, pc \notin Digest, pc' \notin Digest
      PROVE  Lists'
  BY <1>5
<1>6. CASE FirstRound \/ EnterSelect \/ TakeTick \/ TakeScan \/ Finish
  BY <1>5, <1>6 DEF FirstRound, EnterSelect, TakeTick, TakeScan, Finish, PollRound, daily
<1>7. CASE WeeklySkip \/ DigestSkip \/ PruneSkip
  BY <1>5, <1>7 DEF WeeklySkip, DigestSkip, PruneSkip, daily
<1>8. ASSUME NEW readOK \in BOOLEAN, NEW ok \in BOOLEAN,
             \/ WeeklyBegin(readOK) \/ WeeklySave(ok)
             \/ Prune(readOK, ok) \/ PruneSave(ok)
      PROVE  Lists'
  BY <1>5, <1>8 DEF WeeklyBegin, WeeklySave, Prune, PruneSave, daily
<1>9. ASSUME NEW delivered \in BOOLEAN, NEW outcome \in Outcomes,
             WeeklyAttempt(delivered, outcome)
      PROVE  Lists'
  BY <1>5, <1>9 DEF WeeklyAttempt, Post, daily
<1>10. CASE DigestTimeComes \/ Midnight
  BY <1>10 DEF DigestTimeComes, Midnight, daily, sending
<1>11. CASE UNCHANGED vars
  BY <1>11 DEF vars, daily, sending
<1> QED
  BY <1>1, <1>2, <1>3, <1>4, <1>6, <1>7, <1>8, <1>9, <1>10, <1>11 DEF Next, Loop, Job

(* The inductive invariant holds of the loop and its jobs, for every       *)
(* interleaving with restarts, failed reads and writes and attempts that   *)
(* are repeated although they arrived (Run, cmd/sentinel/daemon.go, the    *)
(* jobs it calls, and Telegram.Send).                                      *)
THEOREM Invariance == Spec => []IInv
<1>1. ASSUME IInv, [Next]_vars PROVE IInv'
  BY <1>1, TypeStep, PeriodsStep, ListsStep DEF IInv, Periods, Lists
<1> QED
  BY InitOK, <1>1, PTL DEF Spec

(* One digest of a day and one summary of a week is sent: another only     *)
(* when a registration was lost (maybeDailyDigest, daily_digest.go;        *)
(* maybeWeeklyCost, daemon.go).  How many copies of it the one Send        *)
(* delivers is not said: an attempt may be repeated although it arrived.   *)
THEOREM OneMessagePerPeriod == Spec => []OncePerPeriod
<1>1. IInv => OncePerPeriod
  BY DEF IInv
<1> QED
  BY Invariance, <1>1, PTL

(* The list in a digest is the difference to the digest delivered before   *)
(* it, or empty (digestChanges, daily_digest.go).                          *)
THEOREM DigestsCompare == Spec => []ListTellsTheTruth
<1>1. IInv => ListTellsTheTruth
  BY DEF IInv
<1> QED
  BY Invariance, <1>1, PTL

=============================================================================
