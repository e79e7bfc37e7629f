-------------------------- MODULE DefinitionProofs --------------------------
(***************************************************************************)
(* Proofs about the files that define the sensors: how the daemon loads    *)
(* them (HotReload), for every number of overlapping reloads and edits,    *)
(* and how sentinel-gen writes them (SentinelGen), for every number of     *)
(* commands, rounds and saves by hand.                                     *)
(***************************************************************************)
EXTENDS HotReload, SentinelGen, TLAPS

-----------------------------------------------------------------------------
(* Hot reload.                                                             *)

Job == [pc : Labels, dir : Dirs, capacity : Versions, slo : Versions]

LEMMA IdleJob == Idle \in Job /\ 0 \in Versions
  BY ReloadConstantsOK DEF Idle, Job, Labels, Dirs, Versions

LEMMA InitOK == Init => IInv
<1> SUFFICES ASSUME Init PROVE IInv
  OBVIOUS
<1>1. TypeOK
  <2>1. files \in [Dirs -> [version : Versions, parses : BOOLEAN]]
    BY IdleJob DEF Init
  <2>2. valid \in [Dirs -> SUBSET Versions]
    BY IdleJob DEF Init
  <2>3. jobs \in [Rebuilds -> Job]
    BY IdleJob DEF Init
  <2>4. sensors \in Pair /\ count \in Pair /\ capDefs \in Versions /\ catalog \in Versions
    BY IdleJob DEF Init, Pair
  <2> QED
    BY <2>1, <2>2, <2>3, <2>4 DEF Init, TypeOK, Job, Rounds
<1>2. OnlyParsed /\ JobsParsed
  BY DEF Init, OnlyParsed, JobsParsed, Dirs, Idle
<1>3. Progress
  <2>1. Running = {}
    BY DEF Init, Running, Idle
  <2>2. catalog = files["rules"].version /\ sensors = Loaded /\ count = Loaded
          /\ capDefs = Loaded.capacity
    BY DEF Init, Loaded, Dirs
  <2> QED
    BY <2>1, <2>2 DEF Progress, Alone
<1> QED
  BY <1>1, <1>2, <1>3 DEF IInv

(* An edit is the next version of its directory, within the bound.         *)
LEMMA EditTypes ==
  ASSUME TypeOK, NEW d \in Dirs, NEW parses \in BOOLEAN, Edit(d, parses)
  PROVE  /\ files[d].version + 1 \in Versions
         /\ files' = [files EXCEPT ![d] = [version |-> files[d].version + 1,
                                           parses |-> parses]]
         /\ files' \in [Dirs -> [version : Versions, parses : BOOLEAN]]
         /\ valid' \in [Dirs -> SUBSET Versions]
<1>1. \A e \in Dirs : files[e].version \in Nat /\ files[e].version =< MaxEdits
  BY ReloadConstantsOK DEF TypeOK, Versions
<1>2. files[d].version + 1 \in Versions
  BY <1>1, ReloadConstantsOK DEF Edit, Edits, Dirs, Versions
<1> QED
  BY <1>2 DEF Edit, TypeOK

LEMMA TypeStep == ASSUME TypeOK, [Next]_vars PROVE TypeOK'
<1> USE ReloadConstantsOK
<1>1. ASSUME NEW ok \in BOOLEAN, WatchNext(ok) PROVE TypeOK'
  <2>1. /\ Head(toWatch) \in Dirs
        /\ Tail(toWatch) \in {<<"capacity", "slo">>, <<"slo">>, <<>>}
    <3>1. CASE toWatch = <<"rules", "capacity", "slo">>
      BY <3>1 DEF Dirs
    <3>2. CASE toWatch = <<"capacity", "slo">>
      BY <3>2 DEF Dirs
    <3>3. CASE toWatch = <<"slo">>
      BY <3>3 DEF Dirs
    <3> QED
      BY <1>1, <3>1, <3>2, <3>3 DEF WatchNext, TypeOK
  <2> QED
    BY <1>1, <2>1 DEF WatchNext, TypeOK, disk, built, poll
<1>2. ASSUME NEW d \in Dirs, NEW parses \in BOOLEAN, Edit(d, parses) PROVE TypeOK'
  BY <1>2, EditTypes DEF Edit, TypeOK, built, poll, Excuses
<1>3. ASSUME NEW d \in Dirs, NEW j \in Rebuilds, Fire(d, j) PROVE TypeOK'
  <2>1. jobs' \in [Rebuilds -> Job]
    <3>1. [Idle EXCEPT !.pc = IF d = "rules" THEN "rules" ELSE "capacity", !.dir = d] \in Job
      BY IdleJob DEF Job, Labels
    <3> QED
      BY <1>3, <3>1 DEF Fire, TypeOK, Job
  <2> QED
    BY <1>3, <2>1 DEF Fire, TypeOK, Job, Excuses, disk, built, poll
<1>4. ASSUME NEW j \in Rebuilds,
             LoadRules(j) \/ LoadFails(j) \/ LoadCapacity(j) \/ WriteMeta(j) \/ LoadSLOs(j)
      PROVE  TypeOK'
  <2>1. /\ jobs[j] \in Job
        /\ \A d \in Dirs : files[d].version \in Versions
    BY DEF TypeOK, Job
  <2>2. jobs' \in [Rebuilds -> Job]
    <3>1. \A label \in Labels, v \in Versions :
            /\ [jobs[j] EXCEPT !.pc = label] \in Job
            /\ [jobs[j] EXCEPT !.pc = label, !.capacity = v] \in Job
            /\ [jobs[j] EXCEPT !.pc = label, !.slo = v] \in Job
      BY <2>1 DEF Job
    <3>2. {"capacity", "meta", "slo", "length"} \subseteq Labels
      BY DEF Labels
    <3>3. \A label \in Labels : [jobs EXCEPT ![j].pc = label] \in [Rebuilds -> Job]
      BY <3>1, IdleJob DEF TypeOK, Job
    <3>4. \A label \in Labels, v \in Versions :
            /\ [jobs EXCEPT ![j].pc = label, ![j].capacity = v] \in [Rebuilds -> Job]
            /\ [jobs EXCEPT ![j].pc = label, ![j].slo = v] \in [Rebuilds -> Job]
      BY <3>1 DEF TypeOK, Job
    <3>5. [jobs EXCEPT ![j] = Idle] \in [Rebuilds -> Job]
      BY IdleJob DEF TypeOK, Job
    <3>6. CASE LoadRules(j) \/ WriteMeta(j)
      BY <3>2, <3>3, <3>6 DEF LoadRules, WriteMeta
    <3>7. CASE LoadFails(j)
      BY <3>5, <3>7 DEF LoadFails
    <3>8. CASE LoadCapacity(j)
      BY <2>1, <3>2, <3>4, <3>5, <3>8 DEF LoadCapacity, Dirs
    <3>9. CASE LoadSLOs(j)
      BY <2>1, <3>2, <3>4, <3>5, <3>9 DEF LoadSLOs, Dirs
    <3> QED
      BY <1>4, <3>6, <3>7, <3>8, <3>9
  <2>3. capDefs' \in Versions /\ catalog' \in Versions /\ excused' \subseteq Excuses
    BY <1>4, <2>1 DEF LoadRules, LoadFails, LoadCapacity, WriteMeta, LoadSLOs, Job,
       Dirs, Excuses, TypeOK, built
  <2>4. <<disk, watch, sensors, count, poll, down>>' = <<disk, watch, sensors, count, poll, down>>
    BY <1>4 DEF LoadRules, LoadFails, LoadCapacity, WriteMeta, LoadSLOs, built
  <2> QED
    BY <2>2, <2>3, <2>4 DEF TypeOK, Job, disk, watch, poll
<1>5. ASSUME NEW j \in Rebuilds, StoreLength(j) \/ StorePointer(j) PROVE TypeOK'
  <2>1. New(j) \in Pair /\ jobs[j].capacity \in Versions
    BY DEF New, Pair, TypeOK
  <2>2. jobs' \in [Rebuilds -> Job]
    <3>1. [jobs[j] EXCEPT !.pc = "pointer"] \in Job
      BY DEF TypeOK, Job, Labels
    <3> QED
      BY <1>5, <3>1, IdleJob DEF StoreLength, StorePointer, TypeOK, Job
  <2>3. /\ sensors' \in Pair /\ count' \in Pair
        /\ capDefs' \in Versions /\ catalog' \in Versions
    BY <1>5, <2>1 DEF StoreLength, StorePointer, TypeOK
  <2>4. <<disk, watch, poll, down, excused>>' = <<disk, watch, poll, down, excused>>
    BY <1>5 DEF StoreLength, StorePointer
  <2> QED
    BY <2>2, <2>3, <2>4 DEF TypeOK, Job, disk, watch, poll
<1>6. CASE StartRound \/ ReadMeta \/ EndRound \/ MapFatal
  BY <1>6 DEF StartRound, ReadMeta, EndRound, MapFatal, TypeOK, Rounds, disk, watch,
     built, poll
<1>7. CASE Restart
  <2>1. Loaded \in Pair
    BY DEF Loaded, Pair, TypeOK, Dirs
  <2>2. jobs' \in [Rebuilds -> Job]
    BY <1>7, IdleJob DEF Restart
  <2>3. /\ sensors' \in Pair /\ count' \in Pair
        /\ capDefs' \in Versions /\ catalog' \in Versions
    <3>1. CASE Fit
      <4>1. Loaded.capacity \in Versions /\ files["rules"].version \in Versions
        BY DEF Loaded, TypeOK, Dirs
      <4> QED
        BY <1>7, <2>1, <3>1, <4>1 DEF Restart
    <3>2. CASE ~Fit
      BY <1>7, <3>2 DEF Restart, built, TypeOK
    <3> QED
      BY <3>1, <3>2
  <2>4. down' \in BOOLEAN
    BY <1>7, Zenon DEF Restart, Fit
  <2> QED
    BY <1>7, <2>1, <2>2, <2>3, <2>4 DEF Restart, TypeOK, Job, Rounds, Excuses, disk
<1>8. CASE UNCHANGED vars
  BY <1>8 DEF vars, TypeOK, disk, watch, built, poll
<1> QED
  BY <1>1, <1>2, <1>3, <1>4, <1>5, <1>6, <1>7, <1>8 DEF Next, Reload

(* Every action keeps what is used, and what a reload holds, among the     *)
(* versions that parsed.                                                   *)
LEMMA ParsedStep ==
  ASSUME TypeOK, OnlyParsed, JobsParsed, [Next]_vars
  PROVE  OnlyParsed' /\ JobsParsed'
<1> USE DEF OnlyParsed, JobsParsed
<1>1. ASSUME NEW d \in Dirs, NEW parses \in BOOLEAN, Edit(d, parses)
      PROVE  OnlyParsed' /\ JobsParsed'
  <2>1. \A e \in Dirs : valid[e] \subseteq valid'[e]
    BY <1>1 DEF Edit, TypeOK
  <2>2. OnlyParsed'
    BY <1>1, <2>1 DEF Edit, built, Dirs
  <2>3. \A e \in Dirs : files'[e].parses => files'[e].version \in valid'[e]
    BY <1>1, <2>1, EditTypes DEF Edit, TypeOK
  <2> QED
    BY <1>1, <2>1, <2>2, <2>3 DEF Edit, Dirs
<1>2. ASSUME NEW d \in Dirs, NEW j \in Rebuilds, Fire(d, j)
      PROVE  OnlyParsed' /\ JobsParsed'
  <2>1. UNCHANGED <<disk, built>>
    BY <1>2 DEF Fire
  <2>2. \A k \in Rebuilds : jobs'[k].pc \in {"meta", "slo", "length", "pointer"} =>
                            jobs'[k] = jobs[k]
    <3>1. jobs'[j].pc \in {"rules", "capacity"}
      BY <1>2 DEF Fire, Idle, TypeOK
    <3>2. \A k \in Rebuilds \ {j} : jobs'[k] = jobs[k]
      BY <1>2 DEF Fire, TypeOK
    <3> QED
      BY <3>1, <3>2
  <2> QED
    BY <2>1, <2>2 DEF disk, built
<1>3. ASSUME NEW j \in Rebuilds, LoadRules(j) \/ LoadFails(j) \/ WriteMeta(j)
      PROVE  OnlyParsed' /\ JobsParsed'
  <2>1. UNCHANGED disk /\ OnlyParsed'
    BY <1>3 DEF LoadRules, LoadFails, WriteMeta, disk, built
  <2>2. \A k \in Rebuilds : jobs'[k].pc \in {"meta", "slo", "length", "pointer"} =>
          /\ jobs'[k].capacity = jobs[k].capacity /\ jobs'[k].slo = jobs[k].slo
          /\ jobs[k].pc \in {"meta", "slo", "length", "pointer"}
          /\ jobs'[k].pc \in {"length", "pointer"} => jobs[k].pc \in {"length", "pointer"}
    <3>1. ASSUME LoadRules(j) \/ LoadFails(j)
          PROVE  jobs'[j].pc \in {"idle", "capacity"}
      BY <3>1 DEF LoadRules, LoadFails, Idle, TypeOK
    <3>2. ASSUME WriteMeta(j)
          PROVE  /\ jobs'[j].pc = "slo" /\ jobs[j].pc = "meta"
                 /\ jobs'[j].capacity = jobs[j].capacity /\ jobs'[j].slo = jobs[j].slo
      BY <3>2 DEF WriteMeta, TypeOK
    <3>3. \A k \in Rebuilds \ {j} : jobs'[k] = jobs[k]
      BY <1>3 DEF LoadRules, LoadFails, WriteMeta, TypeOK
    <3> QED
      BY <1>3, <3>1, <3>2, <3>3
  <2> QED
    BY <2>1, <2>2 DEF disk
<1>4. ASSUME NEW j \in Rebuilds, LoadCapacity(j) \/ LoadSLOs(j)
      PROVE  OnlyParsed' /\ JobsParsed'
  <2>1. OnlyParsed' /\ UNCHANGED disk
    BY <1>4 DEF LoadCapacity, LoadSLOs, disk, built
  <2>2. ASSUME NEW k \in Rebuilds
        PROVE  /\ jobs'[k].pc \in {"meta", "slo", "length", "pointer"} =>
                    jobs'[k].capacity \in valid["capacity"]
               /\ jobs'[k].pc \in {"length", "pointer"} => jobs'[k].slo \in valid["slo"]
    <3>1. CASE k = j /\ LoadCapacity(j)
      BY <3>1 DEF LoadCapacity, Idle, TypeOK, Dirs
    <3>2. CASE k = j /\ LoadSLOs(j)
      BY <3>2 DEF LoadSLOs, Idle, TypeOK, Dirs
    <3>3. CASE k # j
      <4>1. jobs'[k] = jobs[k]
        BY <1>4, <3>3 DEF LoadCapacity, LoadSLOs, TypeOK
      <4> QED
        BY <4>1
    <3> QED
      BY <1>4, <3>1, <3>2, <3>3
  <2> QED
    BY <2>1, <2>2 DEF disk
<1>5. ASSUME NEW j \in Rebuilds, StoreLength(j) \/ StorePointer(j)
      PROVE  OnlyParsed' /\ JobsParsed'
  <2>1. UNCHANGED disk
    BY <1>5 DEF StoreLength, StorePointer
  <2>2. /\ New(j).capacity \in valid["capacity"] /\ New(j).slo \in valid["slo"]
        /\ jobs[j].capacity \in valid["capacity"]
    BY <1>5 DEF StoreLength, StorePointer, New
  <2>3. OnlyParsed'
    BY <1>5, <2>1, <2>2 DEF StoreLength, StorePointer, disk
  <2>4. ASSUME NEW k \in Rebuilds
        PROVE  /\ jobs'[k].pc \in {"meta", "slo", "length", "pointer"} =>
                    jobs'[k].capacity \in valid["capacity"]
               /\ jobs'[k].pc \in {"length", "pointer"} => jobs'[k].slo \in valid["slo"]
    <3>1. CASE k = j
      BY <1>5, <2>2, <3>1 DEF StoreLength, StorePointer, Idle, TypeOK
    <3>2. CASE k # j
      BY <1>5, <3>2 DEF StoreLength, StorePointer, TypeOK
    <3> QED
      BY <3>1, <3>2
  <2> QED
    BY <2>1, <2>3, <2>4 DEF disk
<1>6. CASE Restart
  BY <1>6 DEF Restart, Fit, Loaded, Idle, TypeOK, Dirs, disk, built
<1>7. CASE (\E ok \in BOOLEAN : WatchNext(ok)) \/ StartRound \/ ReadMeta \/ EndRound
             \/ MapFatal \/ UNCHANGED vars
  BY <1>7 DEF WatchNext, StartRound, ReadMeta, EndRound, MapFatal, vars, disk, built
<1> QED
  BY <1>1, <1>2, <1>3, <1>4, <1>5, <1>6, <1>7 DEF Next, Reload

(* What a step of reload j leaves alone while no other reload runs.        *)
LEMMA OnlyOne ==
  ASSUME TypeOK, Alone, NEW j \in Running,
         \A k \in Rebuilds \ {j} : jobs'[k] = jobs[k]
  PROVE  /\ Alone' /\ Running' \subseteq {j} /\ Running = {j}
         /\ \A k \in Rebuilds \ {j} : jobs[k].pc = "idle" /\ jobs'[k].pc = "idle"
<1>1. \A k \in Rebuilds \ {j} : jobs[k].pc = "idle"
  BY DEF Alone, Running
<1>2. Running' \subseteq {j}
  BY <1>1 DEF Running
<1> QED
  BY <1>1, <1>2 DEF Alone, Running

(* While nothing excuses the daemon, at most one reload runs, what it has  *)
(* read is current unless a timer will start another, and with nothing     *)
(* left to do everything is current.                                       *)
LEMMA ProgressStep ==
  ASSUME TypeOK, down \/ Progress, [Next]_vars
  PROVE  (down \/ Progress)'
<1> DEFINE Current == sensors = Loaded /\ count = Loaded /\ capDefs = Loaded.capacity
           CatalogFollows == \/ "rules" \in armed
                             \/ \E j \in Running : jobs[j].pc = "rules"
                             \/ catalog = files["rules"].version
           NothingArmed == armed \cap {"capacity", "slo"} = {}
<1> SUFFICES ASSUME ~down', excused' = {}
             PROVE  /\ Alone'
                    /\ NothingArmed' => \A j \in Running' : JobCurrent(j)'
                    /\ CatalogFollows'
                    /\ (Quiet /\ Fit)' => Current'
  BY DEF Progress
<1>1. CASE Restart
  <2>1. Fit /\ Running' = {}
    BY <1>1 DEF Restart, Running, Idle
  <2>2. catalog' = files'["rules"].version /\ Current'
    BY <1>1, <2>1 DEF Restart, disk, Loaded
  <2> QED
    BY <2>1, <2>2 DEF Alone
<1>2. CASE ~Restart
  <2>1. ~down /\ excused = {}
    <3>1. ASSUME NEW d \in Dirs, NEW parses \in BOOLEAN, Edit(d, parses)
          PROVE  ~down /\ excused = {}
      BY <3>1 DEF Edit
    <3>2. ASSUME NEW d \in Dirs, NEW j \in Rebuilds, Fire(d, j)
          PROVE  ~down /\ excused = {}
      BY <3>2 DEF Fire
    <3>3. ASSUME NEW j \in Rebuilds,
                 \/ LoadRules(j) \/ LoadFails(j) \/ LoadCapacity(j) \/ WriteMeta(j)
                 \/ LoadSLOs(j) \/ StoreLength(j) \/ StorePointer(j)
          PROVE  ~down /\ excused = {}
      BY <3>3 DEF LoadRules, LoadFails, LoadCapacity, WriteMeta, LoadSLOs, StoreLength,
         StorePointer
    <3>4. CASE \/ \E ok \in BOOLEAN : WatchNext(ok)
               \/ StartRound \/ ReadMeta \/ EndRound \/ MapFatal \/ UNCHANGED vars
      BY <3>4 DEF WatchNext, StartRound, ReadMeta, EndRound, MapFatal, vars
    <3> QED
      BY <1>2, <3>1, <3>2, <3>3, <3>4 DEF Next, Reload
  <2>2. /\ Alone
        /\ NothingArmed => \A j \in Running : JobCurrent(j)
        /\ CatalogFollows
        /\ Quiet /\ Fit => Current
    BY <2>1 DEF Progress
  <2>3. ASSUME NEW d \in Dirs, NEW parses \in BOOLEAN, Edit(d, parses)
        PROVE  /\ Alone'
               /\ NothingArmed' => \A j \in Running' : JobCurrent(j)'
               /\ CatalogFollows'
               /\ ~Quiet'
    <3>1. d \in watching /\ armed' = armed \cup {d}
      BY <2>1, <2>3 DEF Edit
    <3>2. /\ jobs' = jobs /\ Running' = Running /\ Alone'
          /\ catalog' = catalog /\ count' = count
      BY <2>2, <2>3 DEF Edit, built, Running, Alone
    <3>3. \A e \in Dirs \ {d} : files'[e] = files[e]
      BY <2>3 DEF Edit, TypeOK
    <3>4. CASE d = "rules"
      BY <2>2, <3>1, <3>2, <3>3, <3>4 DEF JobCurrent, New, Dirs, Quiet
    <3>5. CASE d # "rules"
      BY <2>2, <3>1, <3>2, <3>3, <3>5 DEF Dirs, Quiet
    <3> QED
      BY <3>4, <3>5
  <2>4. ASSUME NEW d \in Dirs, NEW j \in Rebuilds, Fire(d, j)
        PROVE  /\ Alone'
               /\ NothingArmed' => \A k \in Running' : JobCurrent(k)'
               /\ CatalogFollows'
               /\ ~Quiet'
    <3>1. Running = {}
      BY <2>4 DEF Fire
    <3>2. /\ jobs'[j].pc = IF d = "rules" THEN "rules" ELSE "capacity"
          /\ \A k \in Rebuilds \ {j} : jobs'[k] = jobs[k]
      BY <2>4 DEF Fire, Idle, TypeOK
    <3>3. Running' = {j}
      BY <3>1, <3>2 DEF Running
    <3>4. UNCHANGED <<files, catalog>> /\ armed' = armed \ {d}
      BY <2>4 DEF Fire, disk, built
    <3> QED
      BY <2>2, <3>1, <3>2, <3>3, <3>4 DEF Alone, JobCurrent, Quiet, Dirs
  <2>5. ASSUME NEW j \in Rebuilds, LoadRules(j)
        PROVE  /\ Alone'
               /\ NothingArmed' => \A k \in Running' : JobCurrent(k)'
               /\ CatalogFollows'
               /\ ~Quiet'
    <3>1. /\ jobs'[j].pc = "capacity" /\ jobs[j].pc = "rules"
          /\ \A k \in Rebuilds \ {j} : jobs'[k] = jobs[k]
      BY <2>5 DEF LoadRules, TypeOK
    <3>2. Alone' /\ Running' = {j}
      BY <2>2, <3>1, OnlyOne DEF Running
    <3>3. files' = files /\ catalog' = files["rules"].version
      BY <2>5 DEF LoadRules, disk
    <3> QED
      BY <3>1, <3>2, <3>3 DEF JobCurrent, Quiet
  <2>6. ASSUME NEW j \in Rebuilds,
               LoadCapacity(j) \/ WriteMeta(j) \/ LoadSLOs(j) \/ StoreLength(j)
        PROVE  /\ Alone'
               /\ NothingArmed' => \A k \in Running' : JobCurrent(k)'
               /\ CatalogFollows'
               /\ (Quiet /\ Fit)' => Current'
    <3>1. /\ UNCHANGED <<files, armed, catalog>>
          /\ j \in Running /\ jobs[j].pc # "rules"
          /\ \A k \in Rebuilds \ {j} : jobs'[k] = jobs[k]
      BY <2>6 DEF LoadCapacity, WriteMeta, LoadSLOs, StoreLength, disk, watch, built,
         Running, TypeOK
    <3>2. Alone' /\ Running' \subseteq {j} /\ Running = {j}
      BY <2>2, <3>1, OnlyOne
    <3>3. CatalogFollows'
      BY <2>2, <3>1, <3>2
    <3>4. (NothingArmed' => JobCurrent(j)') /\ ~(Quiet /\ Fit)'
      <4>1. NothingArmed' => JobCurrent(j)
        BY <2>2, <3>1
      <4>2. CASE LoadCapacity(j)
        BY <3>1, <4>2 DEF LoadCapacity, JobCurrent, Quiet, Fit, Running, Idle, TypeOK, Dirs
      <4>3. CASE WriteMeta(j)
        BY <3>1, <4>1, <4>3 DEF WriteMeta, JobCurrent, Quiet, Running, TypeOK
      <4>4. CASE LoadSLOs(j)
        BY <3>1, <4>1, <4>4 DEF LoadSLOs, JobCurrent, Quiet, Fit, Running, Idle, TypeOK, Dirs
      <4>5. CASE StoreLength(j)
        BY <3>1, <4>1, <4>5 DEF StoreLength, JobCurrent, New, Quiet, Running, TypeOK
      <4> QED
        BY <2>6, <4>2, <4>3, <4>4, <4>5
    <3> QED
      BY <3>2, <3>3, <3>4
  <2>7. ASSUME NEW j \in Rebuilds, StorePointer(j)
        PROVE  /\ Alone'
               /\ NothingArmed' => \A k \in Running' : JobCurrent(k)'
               /\ CatalogFollows'
               /\ (Quiet /\ Fit)' => Current'
    <3>1. /\ UNCHANGED <<files, armed, catalog>> /\ j \in Running
          /\ jobs[j].pc = "pointer" /\ jobs'[j].pc = "idle"
          /\ \A k \in Rebuilds \ {j} : jobs'[k] = jobs[k]
      BY <2>7 DEF StorePointer, Idle, disk, watch, Running, TypeOK
    <3>2. Alone' /\ Running' = {} /\ Running = {j}
      BY <2>2, <3>1, OnlyOne DEF Running
    <3>3. CatalogFollows'
      BY <2>2, <3>1, <3>2
    <3>4. Quiet' => Current'
      <4>1. Quiet' => JobCurrent(j)
        BY <2>2, <3>1 DEF Quiet
      <4>2. Quiet' => New(j) = Loaded /\ count = New(j)
        BY <3>1, <4>1 DEF JobCurrent, New, Loaded
      <4> QED
        BY <2>7, <3>1, <4>2 DEF StorePointer, New, Loaded
    <3> QED
      BY <3>2, <3>3, <3>4
  <2>8. CASE \/ \E ok \in BOOLEAN : WatchNext(ok)
             \/ StartRound \/ ReadMeta \/ EndRound \/ UNCHANGED vars
    <3>1. UNCHANGED <<files, armed, jobs, built>>
      BY <2>8 DEF WatchNext, StartRound, ReadMeta, EndRound, vars, disk, watch
    <3>2. Running' = Running
      BY <3>1 DEF Running
    <3> QED
      BY <2>2, <3>1, <3>2 DEF Alone, JobCurrent, New, Quiet, Fit, Loaded, built
  <2>9. CASE MapFatal \/ \E j \in Rebuilds : LoadFails(j)
    BY <2>9 DEF MapFatal, LoadFails
  <2> QED
    BY <1>2, <2>3, <2>4, <2>5, <2>6, <2>7, <2>8, <2>9 DEF Next, Reload
<1> QED
  BY <1>1, <1>2

(* The inductive invariant holds of every interleaving of edits, timers,   *)
(* reloads, rounds and restarts (Dir, internal/watch/watch.go, with        *)
(* setupSensors, cmd/sentinel/daemon.go).                                  *)
THEOREM Invariance == Spec => []IInv
<1>1. ASSUME IInv, [Next]_vars PROVE IInv'
  BY <1>1, TypeStep, ParsedStep, ProgressStep DEF IInv
<1> QED
  BY InitOK, <1>1, PTL DEF Spec

(* The sensors were built from definitions that parsed (setupSensors       *)
(* assigns d.sensors last).                                                *)
THEOREM BrokenFilesIgnored == Spec => []OnlyParsed
<1>1. IInv => OnlyParsed
  BY DEF IInv
<1> QED
  BY Invariance, <1>1, PTL

(* With nothing left to do, the daemon runs on what is on the disk, unless *)
(* reloads overlapped, a read failed or an edit came before its directory  *)
(* was watched (the debounce timer of watch.go, started anew by every      *)
(* event).                                                                 *)
THEOREM QuietMeansCurrent == Spec => []QuietIsCurrent
<1>1. IInv => QuietIsCurrent
  BY DEF IInv, Progress, QuietIsCurrent, Quiet
<1> QED
  BY Invariance, <1>1, PTL

-----------------------------------------------------------------------------
(* sentinel-gen.                                                           *)

LEMMA TextTypes ==
  /\ NoFile \in Texts /\ ~NoFile.whole /\ Torn \subseteq Texts /\ Whole \subseteq Texts
  /\ \A t \in Whole : t.whole /\ t # NoFile
  /\ \A t \in Texts : DetectKind(t) \in {Family, "waste"}
<1>1. NoFile \in Texts /\ ~NoFile.whole /\ Torn \subseteq Texts /\ Whole \subseteq Texts
  BY DEF Texts, NoFile, Empty
<1>2. \A t \in Whole : t.whole /\ t.family \in {Family, "none"}
  BY DEF Whole, Text
<1>3. \A t \in Torn \cup {NoFile} : t.family \in {Family, "none"}
  <2>1. Empty.family = "none" /\ NoFile.family = "none"
    BY DEF NoFile, Empty
  <2>2. [Empty EXCEPT !.family = Family, !.sound = FALSE].family = Family
    BY DEF Empty
  <2> QED
    BY <2>1, <2>2 DEF Torn
<1> QED
  BY <1>1, <1>2, <1>3 DEF Texts, DetectKind

LEMMA FamilyType == Family # AutoKind /\ "waste" # AutoKind
BY GenConstantsOK DEF AutoKind

LEMMA GenInitOK == GenInit => GenInv
<1> SUFFICES ASSUME GenInit PROVE GenInv
  OBVIOUS
<1>1. GenTypeOK
  <2>1. file \in Texts /\ bak \in Texts /\ held \in Texts /\ fixed \in Texts /\ began \in Texts
    BY TextTypes DEF GenInit
  <2>2. round \in 0..(MaxRounds + 1) /\ runs \in 0..MaxRuns /\ saves \in 0..MaxSaves
    BY GenConstantsOK DEF GenInit
  <2> QED
    BY <2>1, <2>2 DEF GenInit, GenTypeOK, Commands, GenLabels, Verdicts
<1>2. InCommand /\ CopySoFar /\ WholeCopyLeft /\ ReadyIsLoadable /\ PassedIsAccepted
  BY DEF GenInit, InCommand, CopySoFar, WholeCopyLeft, ReadyIsLoadable, PassedIsAccepted
<1> QED
  BY <1>1, <1>2 DEF GenInv

LEMMA GenTypeStep == GenTypeOK /\ InCommand /\ [GenNext]_genVars => GenTypeOK'
<1> SUFFICES ASSUME GenTypeOK, InCommand, [GenNext]_genVars PROVE GenTypeOK'
  OBVIOUS
<1> USE DEF GenTypeOK, memory, bounds
<1>1. ASSUME NEW c \in Commands, NEW f \in {AutoKind, Family}, Start(c, f) PROVE GenTypeOK'
  <2>1. round' \in 0..(MaxRounds + 1) /\ runs' \in 0..MaxRuns
    BY <1>1, GenConstantsOK DEF Start
  <2> QED
    BY <1>1, <2>1, TextTypes DEF Start, GenLabels, Verdicts
<1>2. CASE Read
  BY <1>2, TextTypes DEF Read, Goto, GenLabels
<1>3. CASE Validate
  BY <1>3 DEF Validate, Goto, Report, GenLabels, Verdicts
<1>4. ASSUME NEW needsFix \in BOOLEAN, Opinion(needsFix) PROVE GenTypeOK'
  BY <1>4 DEF Opinion, Report, GenLabels, Verdicts
<1>5. CASE Collect
  BY <1>5 DEF Collect, Goto, Report, GenLabels, Verdicts
<1>6. ASSUME NEW allVectors \in BOOLEAN, LiveCheck(allVectors) PROVE GenTypeOK'
  BY <1>6 DEF LiveCheck, Report, GenLabels, Verdicts
<1>7. ASSUME NEW t \in Whole, Answer(t) PROVE GenTypeOK'
  BY <1>7, TextTypes DEF Answer, Goto, GenLabels
<1>8. CASE Fails \/ FinalCheck \/ Killed
  BY <1>8 DEF Fails, FinalCheck, Killed, Report, GenLabels, Verdicts
<1>9. CASE BackupOpen \/ BackupWrite \/ FileOpen
  BY <1>9, TextTypes DEF BackupOpen, BackupWrite, FileOpen, Goto, GenLabels
<1>10. CASE FileWrite
  <2>1. round \in 1..MaxRounds /\ MaxRounds \in Nat
    BY <1>10, GenConstantsOK DEF FileWrite, InCommand
  <2>2. round' \in 0..(MaxRounds + 1)
    BY <1>10, <2>1 DEF FileWrite
  <2>3. file' = fixed /\ pc' \in GenLabels /\ verdict' \in Verdicts
    BY <1>10 DEF FileWrite, Goto, Report, GenLabels, Verdicts
  <2> QED
    BY <1>10, <2>2, <2>3 DEF FileWrite
<1>11. ASSUME NEW t \in Whole, Save(t) PROVE GenTypeOK'
  BY <1>11, TextTypes, GenConstantsOK DEF Save
<1>12. CASE UNCHANGED genVars
  BY <1>12 DEF genVars
<1> QED
  BY <1>1, <1>2, <1>3, <1>4, <1>5, <1>6, <1>7, <1>8, <1>9, <1>10, <1>11, <1>12 DEF GenNext, Step

(* What a command believes of the file is still so, unless somebody saved  *)
(* the file since it began.                                                *)
LEMMA InCommandStep ==
  GenTypeOK /\ InCommand /\ [GenNext]_genVars => InCommand'
<1> SUFFICES ASSUME GenTypeOK, InCommand, [GenNext]_genVars PROVE InCommand'
  OBVIOUS
<1> USE DEF InCommand, memory, bounds
<1>1. ASSUME NEW c \in Commands, NEW f \in {AutoKind, Family}, Start(c, f) PROVE InCommand'
  BY <1>1, GenConstantsOK DEF Start
<1>2. CASE Read
  BY <1>2 DEF Read, Goto
<1>3. CASE Validate
  <2>1. ~touched => kind = IF flag = AutoKind THEN DetectKind(file) ELSE flag
    BY <1>3 DEF Validate
  <2> QED
    BY <1>3, <2>1 DEF Validate, Goto, Report
<1>4. ASSUME NEW needsFix \in BOOLEAN, Opinion(needsFix) PROVE InCommand'
  BY <1>4 DEF Opinion, Report
<1>5. CASE Collect
  BY <1>5 DEF Collect, Goto, Report
<1>6. ASSUME NEW allVectors \in BOOLEAN, LiveCheck(allVectors) PROVE InCommand'
  BY <1>6 DEF LiveCheck, Report
<1>7. ASSUME NEW t \in Whole, Answer(t) PROVE InCommand'
  BY <1>7 DEF Answer, Goto
<1>8. CASE Fails \/ FinalCheck \/ Killed
  BY <1>8 DEF Fails, FinalCheck, Killed, Report
<1>9. CASE BackupOpen \/ BackupWrite \/ FileOpen
  BY <1>9 DEF BackupOpen, BackupWrite, FileOpen, Goto
<1>10. CASE FileWrite
  <2>1. round \in 1..MaxRounds /\ MaxRounds \in Nat
    BY <1>10, GenConstantsOK DEF FileWrite
  <2> QED
    BY <1>10, <2>1 DEF FileWrite, Goto, Report
<1>11. ASSUME NEW t \in Whole, Save(t) PROVE InCommand'
  BY <1>11 DEF Save
<1>12. CASE UNCHANGED genVars
  BY <1>12 DEF genVars, Accepts, HasExprs
<1> QED
  BY <1>1, <1>2, <1>3, <1>4, <1>5, <1>6, <1>7, <1>8, <1>9, <1>10, <1>11, <1>12 DEF GenNext, Step

(* A whole text is kept: the file is truncated only when its .bak has been *)
(* written, and the .bak only while the file is whole.                     *)
LEMMA CopyStep ==
  GenTypeOK /\ InCommand /\ CopySoFar /\ WholeCopyLeft /\ [GenNext]_genVars
    => CopySoFar' /\ WholeCopyLeft'
<1> SUFFICES ASSUME GenTypeOK, InCommand, CopySoFar, WholeCopyLeft, [GenNext]_genVars
             PROVE  CopySoFar' /\ WholeCopyLeft'
  OBVIOUS
<1> USE DEF CopySoFar, WholeCopyLeft, memory, bounds
<1>1. ASSUME NEW c \in Commands, NEW f \in {AutoKind, Family}, Start(c, f)
      PROVE  CopySoFar' /\ WholeCopyLeft'
  BY <1>1 DEF Start
<1>2. CASE Read
  BY <1>2 DEF Read, Goto
<1>3. CASE Validate
  BY <1>3 DEF Validate, Goto, Report
<1>4. ASSUME NEW needsFix \in BOOLEAN, Opinion(needsFix) PROVE CopySoFar' /\ WholeCopyLeft'
  BY <1>4 DEF Opinion, Report
<1>5. CASE Collect
  BY <1>5 DEF Collect, Goto, Report
<1>6. ASSUME NEW allVectors \in BOOLEAN, LiveCheck(allVectors) PROVE CopySoFar' /\ WholeCopyLeft'
  BY <1>6 DEF LiveCheck, Report
<1>7. ASSUME NEW t \in Whole, Answer(t) PROVE CopySoFar' /\ WholeCopyLeft'
  BY <1>7, TextTypes DEF Answer, Goto
<1>8. CASE Fails \/ FinalCheck \/ Killed
  BY <1>8 DEF Fails, FinalCheck, Killed, Report
<1>9. CASE BackupOpen \/ BackupWrite \/ FileOpen
  BY <1>9 DEF BackupOpen, BackupWrite, FileOpen, Goto
<1>10. CASE FileWrite
  BY <1>10 DEF FileWrite, Goto, Report
<1>11. ASSUME NEW t \in Whole, Save(t) PROVE CopySoFar' /\ WholeCopyLeft'
  BY <1>11, TextTypes DEF Save
<1>12. CASE UNCHANGED genVars
  BY <1>12 DEF genVars
<1> QED
  BY <1>1, <1>2, <1>3, <1>4, <1>5, <1>6, <1>7, <1>8, <1>9, <1>10, <1>11, <1>12 DEF GenNext, Step

(* What a command reports is true of the file it has judged.               *)
LEMMA ReportStep ==
  GenTypeOK /\ InCommand /\ ReadyIsLoadable /\ PassedIsAccepted /\ [GenNext]_genVars
    => ReadyIsLoadable' /\ PassedIsAccepted'
<1> SUFFICES ASSUME GenTypeOK, InCommand, ReadyIsLoadable, PassedIsAccepted, [GenNext]_genVars
             PROVE  ReadyIsLoadable' /\ PassedIsAccepted'
  OBVIOUS
<1> USE DEF ReadyIsLoadable, PassedIsAccepted, memory, bounds
<1>1. ASSUME NEW c \in Commands, NEW f \in {AutoKind, Family}, Start(c, f)
      PROVE  ReadyIsLoadable' /\ PassedIsAccepted'
  BY <1>1 DEF Start
<1>2. CASE Read
  BY <1>2 DEF Read, Goto, InCommand
<1>3. CASE Validate
  <2>1. /\ pc = "validate" /\ verdict = "none" /\ UNCHANGED <<file, flag, kind, touched>>
        /\ verdict' \in {"none", "failed"} \/ (verdict' = "passed" /\ Accepts(file, kind))
    BY <1>3 DEF Validate, Goto, Report, InCommand
  <2>2. ~touched => kind = IF flag = AutoKind THEN DetectKind(file) ELSE flag
    BY <2>1 DEF InCommand
  <2> QED
    BY <2>1, <2>2
<1>4. ASSUME NEW needsFix \in BOOLEAN, Opinion(needsFix)
      PROVE  ReadyIsLoadable' /\ PassedIsAccepted'
  BY <1>4 DEF Opinion, Report, InCommand
<1>5. CASE Collect
  BY <1>5 DEF Collect, Goto, Report, InCommand
<1>6. ASSUME NEW allVectors \in BOOLEAN, LiveCheck(allVectors)
      PROVE  ReadyIsLoadable' /\ PassedIsAccepted'
  BY <1>6 DEF LiveCheck, Report, InCommand, HasExprs
<1>7. ASSUME NEW t \in Whole, Answer(t) PROVE ReadyIsLoadable' /\ PassedIsAccepted'
  BY <1>7 DEF Answer, Goto, InCommand
<1>8. CASE Fails \/ Killed
  BY <1>8 DEF Fails, Killed, Report
<1>9. CASE BackupOpen \/ BackupWrite \/ FileOpen
  BY <1>9 DEF BackupOpen, BackupWrite, FileOpen, Goto, InCommand
<1>10. CASE FileWrite
  BY <1>10 DEF FileWrite, Goto, Report, InCommand
<1>11. CASE FinalCheck
  <2>1. Accepts(file, flag) => flag # AutoKind
    BY DEF Accepts
  <2> QED
    BY <1>11, <2>1 DEF FinalCheck, Report
<1>12. ASSUME NEW t \in Whole, Save(t) PROVE ReadyIsLoadable' /\ PassedIsAccepted'
  BY <1>12 DEF Save
<1>13. CASE UNCHANGED genVars
  BY <1>13 DEF genVars
<1> QED
  BY <1>1, <1>2, <1>3, <1>4, <1>5, <1>6, <1>7, <1>8, <1>9, <1>10, <1>11, <1>12, <1>13 DEF GenNext, Step

(* Whatever the model answers, the file is saved by hand and a command is  *)
(* killed: READY TO APPLY is said only of a file its loader accepts and    *)
(* that defines something, and what fix and review pass is accepted.       *)
THEOREM VerdictsAreTrue == GenSpec => []GenInv
<1>1. GenInv /\ [GenNext]_genVars => GenInv'
  BY GenTypeStep, InCommandStep, CopyStep, ReportStep DEF GenInv
<1> QED
  BY <1>1, GenInitOK, PTL DEF GenSpec

(* A fix that begins with a whole file never loses the last whole text: it *)
(* is the file, or its .bak.                                               *)
THEOREM FixKeepsACopy == GenSpec => []WholeCopyLeft
<1>1. GenInv => WholeCopyLeft
  BY DEF GenInv
<1> QED
  BY <1>1, VerdictsAreTrue, PTL

=============================================================================
