---------------------------- MODULE WasteProofs ----------------------------
(***************************************************************************)
(* Proofs about idle resources.  The rules and the scan (RuleCatalog,      *)
(* WasteScanner), for any releases, any number of files and rules, and any *)
(* number of syncs, edits and scans: what a person writes stays, and a     *)
(* rule keeps its kind from the release to the scan.  The candidates       *)
(* (WasteLifecycle), for every number of candidates, every reminder period *)
(* and every dismissal the operator may ask for.                           *)
(***************************************************************************)
EXTENDS WasteLifecycle, WasteScanner, NumberProofs, SequenceTheorems, TLAPS

-----------------------------------------------------------------------------
(* WasteLifecycle: the candidates.                                         *)

LEMMA CapType ==
  ASSUME NEW n \in Nat, NEW max \in Nat
  PROVE  Cap(n, max) \in 0..max
BY DEF Cap

LEMMA AbsentType == Absent \in Record
BY WasteConstantsOK DEF Absent, Record, States

LEMMA OlderType ==
  ASSUME NEW e \in Record
  PROVE  Older(e) \in Record /\ Older(e).state = e.state
<1>1. e.age + 1 \in Nat /\ e.left \in Nat \cup {NoDeadline}
  BY WasteConstantsOK DEF Record
<1>2. Cap(e.age + 1, MaxAge) \in 0..MaxAge
  BY <1>1, CapType, WasteConstantsOK
<1>3. DaysLeft(e.left) \in Nat \cup {NoDeadline}
  BY <1>1 DEF DaysLeft, NoDeadline
<1>4. CASE e.state = "absent"
  BY <1>4 DEF Older
<1>5. CASE e.state # "absent"
  BY <1>2, <1>3, <1>5 DEF Older, Record
<1> QED
  BY <1>4, <1>5

(* Announcing keeps an entry an entry.                                     *)
LEMMA AnnouncedType ==
  ASSUME NEW e \in Record
  PROVE  /\ Announced(e) \in Record
         /\ Announced(e).state = "renoted"
         /\ Announced(e).left = e.left
<1>1. 0 \in 0..MaxAge
  BY WasteConstantsOK
<1> QED
  BY <1>1 DEF Announced, Record, States

(* What one observation does to an entry: it stays dismissed exactly when  *)
(* its dismissal has not expired, and then its deadline stays.             *)
LEMMA ObservedFacts ==
  ASSUME NEW e \in Record, NEW k \in Entries
  PROVE  LET o == Observed(e, k) IN
         /\ o \in Record
         /\ o.state = "dismissed" <=> e.state = "dismissed" /\ ~Expired(e)
         /\ o.state = "dismissed" => o.left = e.left
         /\ ShouldNotify(e, k) => o.state \in {"notified", "renoted"}
<1> DEFINE o == Observed(e, k)
<1>1. Announced(e) \in Record /\ Announced(e).state = "renoted"
  BY AnnouncedType
<1>2. 0 \in 0..MaxAge /\ e.state \in States
  BY WasteConstantsOK DEF Record
<1>3. CASE e.state = "absent"
  <2>1. o = [Absent EXCEPT !.state = "notified"]
    BY <1>3 DEF Observed
  <2> QED
    BY <2>1, <1>3, AbsentType DEF Absent, Record, States
<1>4. CASE e.state = "dismissed" /\ Expired(e)
  <2>1. o = [Announced(e) EXCEPT !.left = NoDeadline]
    BY <1>4 DEF Observed
  <2> QED
    BY <2>1, <1>1, <1>4 DEF Record
<1>5. CASE e.state = "dismissed" /\ ~Expired(e)
  <2>1. o = [e EXCEPT !.age = 0]
    BY <1>5 DEF Observed
  <2>2. o \in Record /\ o.state = "dismissed" /\ o.left = e.left
    BY <2>1, <1>2, <1>5 DEF Record
  <2> QED
    BY <2>2, <1>5 DEF ShouldNotify
<1>6. CASE e.state \in {"notified", "renoted", "resolved"} /\ Due(e, k)
  <2>1. o = Announced(e)
    BY <1>6 DEF Observed
  <2> QED
    BY <2>1, <1>1, <1>6
<1>7. CASE e.state \in {"notified", "renoted", "resolved"} /\ ~Due(e, k)
  <2>1. o = e
    BY <1>7 DEF Observed
  <2> QED
    BY <2>1, <1>7 DEF ShouldNotify
<1> QED
  BY <1>2, <1>3, <1>4, <1>5, <1>6, <1>7 DEF States

-----------------------------------------------------------------------------
LEMMA InitIInv == Init => IInv
<1> SUFFICES ASSUME Init PROVE IInv
  OBVIOUS
<1>1. 1 \in Entries
  BY WasteConstantsOK DEF Entries
<1>2. Idle \in [busy : BOOLEAN, key : Entries, copy : [Entries -> Record],
               todo : SUBSET Entries]
  BY <1>1, AbsentType DEF Idle
<1>3. TypeOK
  BY <1>1, <1>2, AbsentType DEF Init, TypeOK, Steps
<1>4. \A k \in Entries : mem[k].state # "dismissed" /\ promise[k] = 0
  BY DEF Init, Absent
<1> QED
  BY <1>3, <1>4 DEF Init, IInv, DismissalSurvivesCrash, CommandIsCurrent,
                    PromiseInMemory, SendInv, Idle

(* Starting a command: its own Tracker is the table but for one entry.     *)
LEMMA CommandFacts ==
  ASSUME TypeOK, NEW k \in Entries, NEW e \in Record, Command(k, e),
         e.state \in {"dismissed", "resolved"}
  PROVE  /\ cli' \in [busy : BOOLEAN, key : Entries, copy : [Entries -> Record],
                       todo : SUBSET Entries]
         /\ decision' \in [Entries -> States \cup {"none"}]
         /\ \A j \in Entries : rows[j].state \in {"dismissed", "resolved"}
              => cli'.copy[j].state \in {"dismissed", "resolved"}
<1>1. [rows EXCEPT ![k] = e] \in [Entries -> Record]
  BY DEF TypeOK
<1>2. Present(rows) \in SUBSET Entries
  BY DEF Present
<1>3. cli' = [busy |-> TRUE, key |-> k, copy |-> [rows EXCEPT ![k] = e],
              todo |-> Present(rows)]
  BY DEF Command
<1>4. decision' \in [Entries -> States \cup {"none"}]
  BY DEF Command, TypeOK
<1>5. \A j \in Entries : [rows EXCEPT ![k] = e][j] = IF j = k THEN e ELSE rows[j]
  BY DEF TypeOK
<1> QED
  BY <1>1, <1>2, <1>3, <1>4, <1>5

LEMMA DismissedType ==
  ASSUME NEW e \in Record, NEW d \in Int
  PROVE  [e EXCEPT !.state = "dismissed", !.left = IF d > 0 THEN d ELSE NoDeadline]
           \in Record
<1>1. (IF d > 0 THEN d ELSE NoDeadline) \in Nat \cup {NoDeadline}
  OBVIOUS
<1>2. "dismissed" \in States
  BY DEF States
<1> QED
  BY <1>1, <1>2 DEF Record

LEMMA ResolvedType ==
  ASSUME NEW e \in Record
  PROVE  [e EXCEPT !.state = "resolved"] \in Record
BY DEF Record, States

LEMMA NextTypeOK == TypeOK /\ [Next]_vars => TypeOK'
<1> SUFFICES ASSUME TypeOK, [Next]_vars PROVE TypeOK'
  OBVIOUS
<1> USE DEF Steps, silence
<1>1. CASE StartScan
  BY <1>1 DEF StartScan, TypeOK
<1>2. ASSUME NEW k \in Entries, Observe(k)
      PROVE  TypeOK'
  <2>1. mem[k] \in Record
    BY DEF TypeOK
  <2>2. Observed(mem[k], k) \in Record
    BY <2>1, ObservedFacts
  <2> QED
    BY <1>2, <2>2 DEF Observe, TypeOK
<1>3. CASE SendOK
  BY <1>3 DEF SendOK, TypeOK
<1>4. ASSUME NEW delivered \in BOOLEAN, SendError(delivered)
      PROVE  TypeOK'
  BY <1>4 DEF SendError, TypeOK
<1>5. CASE ScanDone
  BY <1>5 DEF ScanDone, TypeOK, Present
<1>6. ASSUME NEW k \in Entries, SaveOK(k)
      PROVE  TypeOK'
  BY <1>6 DEF SaveOK, TypeOK
<1>7. ASSUME NEW k \in Entries, SaveError(k)
      PROVE  TypeOK'
  BY <1>7 DEF SaveError, TypeOK
<1>8. CASE SaveDone
  BY <1>8 DEF SaveDone, TypeOK
<1>9. ASSUME NEW r, NEW d \in DismissDays, CliDismiss(r, d)
      PROVE  TypeOK'
  <2>1. PICK k \in Present(rows) :
          Command(k, [rows[k] EXCEPT !.state = "dismissed",
                                     !.left = IF d > 0 THEN d ELSE NoDeadline])
    BY <1>9 DEF CliDismiss
  <2>2. k \in Entries /\ rows[k] \in Record /\ d \in Int
    BY WasteConstantsOK DEF Present, TypeOK
  <2> DEFINE e == [rows[k] EXCEPT !.state = "dismissed",
                                  !.left = IF d > 0 THEN d ELSE NoDeadline]
  <2>3. e \in Record /\ e.state = "dismissed"
    BY <2>2, DismissedType DEF Record
  <2> HIDE DEF e
  <2>4. Command(k, e)
    BY <2>1 DEF e
  <2> QED
    BY <1>9, <2>2, <2>3, <2>4, CommandFacts DEF CliDismiss, TypeOK, scan
<1>10. ASSUME NEW r, CliResolve(r)
       PROVE  TypeOK'
  <2>1. PICK k \in Present(rows) : Command(k, [rows[k] EXCEPT !.state = "resolved"])
    BY <1>10 DEF CliResolve
  <2>2. k \in Entries /\ rows[k] \in Record
    BY DEF Present, TypeOK
  <2> DEFINE e == [rows[k] EXCEPT !.state = "resolved"]
  <2>3. e \in Record /\ e.state = "resolved"
    BY <2>2, ResolvedType DEF Record
  <2> HIDE DEF e
  <2>4. Command(k, e)
    BY <2>1 DEF e
  <2> QED
    BY <1>10, <2>2, <2>3, <2>4, CommandFacts DEF CliResolve, TypeOK, scan
<1>11. ASSUME NEW k \in Entries, CliWrite(k)
       PROVE  TypeOK'
  <2>1. cli.copy[k] \in Record
    BY DEF TypeOK
  <2>2. rows' \in [Entries -> Record]
    BY <1>11, <2>1 DEF CliWrite, TypeOK
  <2>3. cli' \in [busy : BOOLEAN, key : Entries, copy : [Entries -> Record],
                  todo : SUBSET Entries]
    BY <1>11 DEF CliWrite, TypeOK
  <2> QED
    BY <1>11, <2>2, <2>3 DEF CliWrite, TypeOK, scan
<1>12. Idle \in [busy : BOOLEAN, key : Entries, copy : [Entries -> Record],
                todo : SUBSET Entries]
  BY WasteConstantsOK, AbsentType DEF Idle, Entries
<1>13. CASE CliStops
  BY <1>12, <1>13 DEF CliStops, TypeOK, scan
<1>14. CASE CliConfirms
  <2>1. Lasting(cli.copy[cli.key]) \in States \cup {"none"}
    BY DEF Lasting, TypeOK, Record
  <2> QED
    BY <1>12, <1>14, <2>1 DEF CliConfirms, TypeOK, scan
<1>15. CASE Restart
  <2>1. \A k \in Entries : Promised(k) \in Nat \cup {NoDeadline}
    BY DEF Promised, TypeOK, Record
  <2> QED
    BY <1>15, <2>1 DEF Restart, TypeOK
<1>16. CASE RestartUnread
  <2>1. \A k \in Entries : Promised(k) \in Nat \cup {NoDeadline}
    BY DEF Promised, TypeOK, Record
  <2> QED
    BY <1>16, <2>1, AbsentType DEF RestartUnread, TypeOK
<1>17. CASE Tick
  <2>1. mem' \in [Entries -> Record] /\ rows' \in [Entries -> Record]
    BY <1>17, OlderType DEF Tick, TypeOK
  <2>2. cli' \in [busy : BOOLEAN, key : Entries, copy : [Entries -> Record],
                  todo : SUBSET Entries]
    BY <1>17, OlderType DEF Tick, TypeOK
  <2>3. \A k \in Entries : DaysLeft(promise[k]) \in Nat \cup {NoDeadline}
    BY DEF DaysLeft, NoDeadline, TypeOK
  <2>4. promise' \in [Entries -> Nat \cup {NoDeadline}]
    BY <1>17, <2>3 DEF Tick
  <2> QED
    BY <1>17, <2>1, <2>2, <2>4 DEF Tick, TypeOK, scan
<1>18. CASE UNCHANGED vars
  BY <1>18 DEF vars, scan, TypeOK
<1> QED
  BY <1>1, <1>2, <1>3, <1>4, <1>5, <1>6, <1>7, <1>8, <1>9, <1>10, <1>11, <1>13,
     <1>14, <1>15, <1>16, <1>17, <1>18 DEF Next, Scan, Cli

-----------------------------------------------------------------------------
(* The rest of the invariant, one action at a time.  Only the steps that   *)
(* change what the daemon, the table or the command hold can disturb it.   *)

LEMMA NextDismissals ==
  TypeOK /\ DismissalSurvivesCrash /\ CommandIsCurrent /\ [Next]_vars
    => DismissalSurvivesCrash' /\ CommandIsCurrent'
<1> SUFFICES ASSUME TypeOK, DismissalSurvivesCrash, CommandIsCurrent, [Next]_vars
             PROVE  DismissalSurvivesCrash' /\ CommandIsCurrent'
  OBVIOUS
<1> USE DEF DismissalSurvivesCrash, CommandIsCurrent
<1>1. ASSUME NEW k \in Entries, Observe(k)
      PROVE  DismissalSurvivesCrash' /\ CommandIsCurrent'
  <2>1. \A j \in Entries : mem'[j].state = "dismissed" => mem[j].state = "dismissed"
    <3>1. mem[k] \in Record /\ mem' = [mem EXCEPT ![k] = Observed(mem[k], k)]
      BY <1>1 DEF TypeOK, Observe
    <3>2. Observed(mem[k], k).state = "dismissed" => mem[k].state = "dismissed"
      BY <3>1, ObservedFacts
    <3> QED
      BY <3>1, <3>2 DEF TypeOK
  <2> QED
    BY <1>1, <2>1 DEF Observe, TypeOK
<1>2. ASSUME NEW k \in Entries, SaveOK(k)
      PROVE  DismissalSurvivesCrash' /\ CommandIsCurrent'
  BY <1>2 DEF SaveOK, TypeOK
<1>3. ASSUME NEW r, NEW d \in DismissDays, CliDismiss(r, d)
      PROVE  DismissalSurvivesCrash' /\ CommandIsCurrent'
  <2>1. PICK k \in Present(rows) :
          Command(k, [rows[k] EXCEPT !.state = "dismissed",
                                     !.left = IF d > 0 THEN d ELSE NoDeadline])
    BY <1>3 DEF CliDismiss
  <2> DEFINE e == [rows[k] EXCEPT !.state = "dismissed",
                                  !.left = IF d > 0 THEN d ELSE NoDeadline]
  <2>2. k \in Entries /\ rows[k] \in Record /\ d \in Int
    BY WasteConstantsOK DEF Present, TypeOK
  <2>3. e \in Record /\ e.state = "dismissed"
    BY <2>2, DismissedType DEF Record
  <2> HIDE DEF e
  <2>4. Command(k, e)
    BY <2>1 DEF e
  <2>5. \A j \in Entries : rows[j].state \in {"dismissed", "resolved"}
                             => cli'.copy[j].state \in {"dismissed", "resolved"}
    BY <2>2, <2>3, <2>4, CommandFacts
  <2>6. cli'.todo \subseteq Entries
    BY <2>4 DEF Command, Present
  <2> QED
    BY <1>3, <2>5, <2>6 DEF CliDismiss
<1>4. ASSUME NEW r, CliResolve(r)
      PROVE  DismissalSurvivesCrash' /\ CommandIsCurrent'
  <2>1. PICK k \in Present(rows) : Command(k, [rows[k] EXCEPT !.state = "resolved"])
    BY <1>4 DEF CliResolve
  <2> DEFINE e == [rows[k] EXCEPT !.state = "resolved"]
  <2>2. k \in Entries /\ rows[k] \in Record
    BY DEF Present, TypeOK
  <2>3. e \in Record /\ e.state = "resolved"
    BY <2>2, ResolvedType DEF Record
  <2> HIDE DEF e
  <2>4. Command(k, e)
    BY <2>1 DEF e
  <2>5. \A j \in Entries : rows[j].state \in {"dismissed", "resolved"}
                             => cli'.copy[j].state \in {"dismissed", "resolved"}
    BY <2>2, <2>3, <2>4, CommandFacts
  <2>6. cli'.todo \subseteq Entries
    BY <2>4 DEF Command, Present
  <2> QED
    BY <1>4, <2>5, <2>6 DEF CliResolve
<1>5. ASSUME NEW k \in Entries, CliWrite(k)
      PROVE  DismissalSurvivesCrash' /\ CommandIsCurrent'
  BY <1>5 DEF CliWrite, First, TypeOK
<1>6. CASE CliStops \/ CliConfirms
  BY <1>6 DEF CliStops, CliConfirms, Idle
<1>7. CASE Restart
  BY <1>7 DEF Restart, TypeOK
<1>8. CASE RestartUnread
  BY <1>8 DEF RestartUnread, Absent, TypeOK
<1>9. CASE Tick
  <2>1. \A k \in Entries : /\ mem'[k].state = mem[k].state
                            /\ rows'[k].state = rows[k].state
                            /\ cli'.copy[k].state = cli.copy[k].state
    BY <1>9, OlderType DEF Tick, TypeOK
  <2>2. cli'.busy = cli.busy /\ cli'.todo = cli.todo
    BY <1>9 DEF Tick, TypeOK
  <2> QED
    BY <2>1, <2>2 DEF TypeOK
<1>10. CASE UNCHANGED <<mem, rows, cli>>
  BY <1>10
<1> QED
  BY <1>1, <1>2, <1>3, <1>4, <1>5, <1>6, <1>7, <1>8, <1>9, <1>10
     DEF Next, Scan, Cli, StartScan, SendOK, SendError, ScanDone, SaveError, SaveDone, vars

LEMMA NextPromises ==
  TypeOK /\ DismissalSurvivesCrash /\ PromiseInMemory /\ SendInv /\ [Next]_vars
    => PromiseInMemory' /\ SendInv'
<1> SUFFICES ASSUME TypeOK, DismissalSurvivesCrash, PromiseInMemory, SendInv, [Next]_vars
             PROVE  PromiseInMemory' /\ SendInv'
  OBVIOUS
<1> USE DEF PromiseInMemory, SendInv
<1>1. ASSUME NEW k \in Entries, Observe(k)
      PROVE  PromiseInMemory' /\ SendInv'
  <2> DEFINE o == Observed(mem[k], k)
  <2>1. mem[k] \in Record /\ mem' = [mem EXCEPT ![k] = o]
        /\ UNCHANGED <<promise, forgotten>>
    BY <1>1 DEF TypeOK, Observe, silence
  <2>2. /\ o.state = "dismissed" <=> mem[k].state = "dismissed" /\ ~Expired(mem[k])
        /\ o.state = "dismissed" => o.left = mem[k].left
        /\ ShouldNotify(mem[k], k) => o.state \in {"notified", "renoted"}
    BY <2>1, ObservedFacts
  <2> HIDE DEF o
  <2>3. mem'[k] = o /\ \A j \in Entries \ {k} : mem'[j] = mem[j]
    BY <2>1 DEF TypeOK
  <2>4. promise[k] # 0 /\ k \notin forgotten => ~Expired(mem[k])
    BY DEF Expired
  <2>5. PromiseInMemory'
    BY <2>1, <2>2, <2>3, <2>4
  <2>6. SendInv'
    BY <1>1, <2>2, <2>3 DEF Observe
  <2> QED
    BY <2>5, <2>6
<1>2. CASE Restart
  <2>1. ASSUME NEW k \in Entries \ forgotten', promise'[k] # 0
        PROVE  mem'[k].state = "dismissed" /\ mem'[k].left = promise'[k]
    <3>1. /\ promise'[k] = Promised(k) /\ mem' = rows
          /\ k \in forgotten => rows[k].state \in {"dismissed", "resolved"}
      BY <1>2, <2>1 DEF Restart
    <3>2. rows[k].state # "dismissed" => Promised(k) \in {0, promise[k]}
      BY DEF Promised
    <3>3. promise[k] # 0 /\ k \notin forgotten => rows[k].state \in {"dismissed", "resolved"}
      BY DEF DismissalSurvivesCrash
    <3>4. rows[k].state = "resolved" => Promised(k) = 0
      BY DEF Promised
    <3>5. rows[k].state = "dismissed" => Promised(k) = rows[k].left
      BY DEF Promised
    <3> QED
      BY <2>1, <3>1, <3>2, <3>3, <3>4, <3>5
  <2> QED
    BY <1>2, <2>1 DEF Restart
<1>3. CASE RestartUnread
  <2>1. /\ promise' = [k \in Entries |-> Promised(k)]
        /\ forgotten' = forgotten \cup {k \in Entries : Promised(k) # 0}
        /\ pc' # "send"
    BY <1>3 DEF RestartUnread
  <2> QED
    BY <2>1
<1>4. CASE Tick
  <2>1. ASSUME NEW k \in Entries \ forgotten', promise'[k] # 0
        PROVE  mem'[k].state = "dismissed" /\ mem'[k].left = promise'[k]
    <3>1. promise'[k] = DaysLeft(promise[k]) /\ mem'[k] = Older(mem[k]) /\ k \notin forgotten
      BY <1>4, <2>1 DEF Tick
    <3>2. promise[k] # 0
      BY <2>1, <3>1 DEF DaysLeft, NoDeadline, TypeOK
    <3>3. mem[k] \in Record /\ mem[k].state = "dismissed" /\ mem[k].left = promise[k]
      BY <3>1, <3>2 DEF TypeOK
    <3>4. Older(mem[k]).left = DaysLeft(mem[k].left)
      BY <3>3 DEF Older, Record
    <3> QED
      BY <3>1, <3>3, <3>4, OlderType
  <2>2. \A k \in Entries : mem'[k].state = mem[k].state
    BY <1>4, OlderType DEF Tick, TypeOK
  <2>3. pc' = pc /\ cur' = cur /\ cur \in Entries
    BY <1>4 DEF Tick, scan, TypeOK
  <2> QED
    BY <2>1, <2>2, <2>3
<1>5. CASE Cli
  <2>1. UNCHANGED <<mem, silence, scan>>
    BY <1>5 DEF Cli, CliDismiss, CliResolve, CliWrite, CliStops, CliConfirms
  <2> QED
    BY <2>1 DEF scan, silence
<1>6. CASE StartScan \/ SendOK \/ (\E delivered \in BOOLEAN : SendError(delivered))
           \/ ScanDone \/ SaveDone \/ (\E k \in Entries : SaveOK(k) \/ SaveError(k))
  <2>1. UNCHANGED <<mem, promise, forgotten>> /\ (pc' # "send" \/ UNCHANGED <<pc, cur>>)
    BY <1>6 DEF silence, StartScan, SendOK, SendError, ScanDone, SaveDone, SaveOK, SaveError
  <2> QED
    BY <2>1
<1>7. CASE UNCHANGED vars
  BY <1>7 DEF vars, scan, silence
<1> QED
  BY <1>1, <1>2, <1>3, <1>4, <1>5, <1>6, <1>7 DEF Next, Scan

LEMMA NextIInv == IInv /\ [Next]_vars => IInv'
BY NextTypeOK, NextDismissals, NextPromises DEF IInv

-----------------------------------------------------------------------------
(* Everything the daemon, the table and the command line hold is an entry. *)
THEOREM TypeCorrect == Spec => []TypeOK
<1>1. Init => TypeOK
  BY InitIInv DEF IInv
<1> QED
  BY <1>1, NextTypeOK, PTL DEF Spec

(* The inductive invariant holds in every state of every execution.        *)
THEOREM Invariance == Spec => []IInv
BY InitIInv, NextIInv, PTL DEF Spec

(* A crash never loses a dismissal the daemon had taken over, whatever the *)
(* command line was writing (persistWasteEntries and syncTracker).         *)
THEOREM DismissalsSurvive == Spec => []DismissalSurvivesCrash
<1>1. IInv => DismissalSurvivesCrash
  BY DEF IInv
<1> QED
  BY <1>1, Invariance, PTL

(* No message goes out about an entry while a silence that the rows held   *)
(* when the daemon started still runs (Restore, Observe and the row        *)
(* written back), unless a start since then could not read the rows, and   *)
(* so forgot it.                                                           *)
THEOREM PromisesKept == Spec => []PromiseKept
<1>1. IInv => PromiseKept
  <2> SUFFICES ASSUME IInv, pc = "send", cur \notin forgotten, promise[cur] # 0 PROVE FALSE
    BY DEF PromiseKept
  <2>1. cur \in Entries \ forgotten
    BY DEF IInv, TypeOK
  <2>2. mem[cur].state = "dismissed"
    BY <2>1 DEF IInv, PromiseInMemory
  <2> QED
    BY <2>2 DEF IInv, SendInv
<1> QED
  BY <1>1, Invariance, PTL

-----------------------------------------------------------------------------
(* RuleCatalog and WasteScanner: the invariant.                            *)

(* How far the script has come, as long as nothing else has been at the    *)
(* files: those behind it are labelled, those before it are as released.   *)
SyncSoFar ==
  synced =>
    /\ HasGo
    /\ At("idle") => commit = pulled
    /\ \A f \in Names :
         LET c == Releases[pulled][f] IN
         c.form = "rules" =>
           /\ At("copy") /\ f < script.at => files[f] = c
           /\ At("read") \/ At("write") => files[f] = IF f < script.at THEN LabelledFile(c) ELSE c
           /\ At("write") /\ f = script.at => held = LabelledFile(c)
           /\ At("stamp") \/ At("idle") => files[f] = LabelledFile(c)

(* How far Load has come, as long as nobody has written to the files.      *)
LoadedSoFar ==
  current =>
    /\ loader = 0 => \A f \in Names : catalog[f] = Found(files[f])
    /\ loader # 0 => \A f \in Names : f < loader => loaded[f] = Found(files[f])

(* A kind is never a guess: it is what Classify says of the rule as it is  *)
(* on disk.                                                                *)
ByLabel ==
  \A f \in Names :
    /\ \A i \in DOMAIN loaded[f] : loaded[f][i].kind = Classify(loaded[f][i].rule)
    /\ \A i \in DOMAIN catalog[f] : catalog[f][i].kind = Classify(catalog[f][i].rule)

(* A rule somebody has labelled has a label, also in the tool's hands, and *)
(* the tool writes what it has read unless somebody else wrote meanwhile.  *)
HandNamed(c) == \A i \in DOMAIN c.rules : c.rules[i].by = "hand" => c.rules[i].kind # "absent"

HandsSafe ==
  /\ \A f \in Names : HandNamed(files[f])
  /\ HandNamed(held)
  /\ At("write") /\ ~touched => held = LabelledFile(files[script.at])

CatalogInv == CatalogTypeOK /\ SyncSoFar /\ LoadedSoFar /\ ByLabel /\ HandsSafe /\ VersionTrails

RulesInv == CatalogInv /\ ScanTypeOK /\ ScansTheLabelled

-----------------------------------------------------------------------------
(* The releases and the sequences.                                         *)

LEMMA ReleaseType ==
  /\ N \in Nat \ {0} /\ Names = 1..N /\ 1 \in Names
  /\ Len(Releases) \in Nat /\ DOMAIN Releases = 1..Len(Releases) /\ 1 \in DOMAIN Releases
  /\ \A v \in DOMAIN Releases : Releases[v] \in [Names -> Contents]
<1>1. Releases \in Seq([Names -> Contents]) /\ Releases # <<>> /\ N \in Nat \ {0}
  BY CatalogConstantsOK
<1>2. /\ Len(Releases) \in Nat \ {0} /\ DOMAIN Releases = 1..Len(Releases)
      /\ Releases \in [1..Len(Releases) -> [Names -> Contents]]
  BY <1>1, EmptySeq, LenProperties
<1> QED
  BY <1>1, <1>2 DEF Names

LEMMA Mapped ==
  ASSUME NEW S, NEW n \in Nat, NEW f \in [1..n -> S]
  PROVE  f \in Seq(S) /\ Len(f) = n
<1>1. f \in Seq(S)
  BY SeqDef
<1>2. DOMAIN f = 1..n /\ DOMAIN f = 1..Len(f) /\ Len(f) \in Nat
  BY <1>1, LenProperties
<1> QED
  BY <1>1, <1>2

LEMMA Defaults == NoFile \in Contents /\ Empty \in Contents /\ NoFile.rules = <<>> /\ Empty.rules = <<>>
BY EmptySeq DEF NoFile, Empty, Contents, Forms

-----------------------------------------------------------------------------
(* Kinds and labels.                                                       *)

LEMMA SuggestType == \A r : SuggestKind(r) \in {"budget", "waste", NoKind}
BY DEF SuggestKind

LEMMA ClassifyType == \A r : Classify(r) \in Kinds \cup {NoKind}
BY DEF Classify, Kinds

(* The tool gives a rule a kind of its own only where there is no label,   *)
(* and what somebody wrote by hand stays.                                  *)
LEMMA LabelledType ==
  ASSUME NEW r \in Rules
  PROVE  /\ Labelled(r) \in Rules
         /\ Labelled(r).by = "hand" => Labelled(r) = r
         /\ r.by = "hand" /\ r.kind # "absent" => Labelled(r) = r
<1>1. SuggestKind(r) # NoKind => SuggestKind(r) \in Kinds
  BY SuggestType DEF Kinds
<1>2. CASE ~Labels(r) \/ Has(r, {"null labels"})
  BY <1>2 DEF Labelled
<1>3. CASE Labels(r) /\ ~Has(r, {"null labels"})
  BY <1>1, <1>3 DEF Labelled, Labels, Rules
<1> QED
  BY <1>2, <1>3

LEMMA LabelledFileType ==
  ASSUME NEW c \in Contents
  PROVE  /\ LabelledFile(c) \in Contents /\ LabelledFile(c).form = c.form
         /\ Len(LabelledFile(c).rules) = Len(c.rules)
         /\ DOMAIN c.rules = 1..Len(c.rules) /\ DOMAIN LabelledFile(c).rules = 1..Len(c.rules)
         /\ \A i \in DOMAIN c.rules : c.rules[i] \in Rules /\ LabelledFile(c).rules[i] = Labelled(c.rules[i])
<1> DEFINE n == Len(c.rules)
           new == [i \in DOMAIN c.rules |-> Labelled(c.rules[i])]
<1>1. n \in Nat /\ DOMAIN c.rules = 1..n /\ \A i \in 1..n : c.rules[i] \in Rules
  BY LenProperties DEF Contents
<1>2. new \in [1..n -> Rules]
  BY <1>1, LabelledType
<1>3. new \in Seq(Rules) /\ Len(new) = n
  BY <1>1, <1>2, Mapped
<1>4. LabelledFile(c).rules = new /\ LabelledFile(c).form = c.form /\ LabelledFile(c) \in Contents
  BY <1>3 DEF LabelledFile, Contents
<1> HIDE DEF new
<1>5. DOMAIN new = 1..n /\ \A i \in 1..n : new[i] = Labelled(c.rules[i])
  BY <1>1 DEF new
<1> QED
  BY <1>1, <1>3, <1>4, <1>5

(* What the loader makes of a labelled rule is what the rule was meant to  *)
(* be.                                                                     *)
LEMMA LabelledIsRouted ==
  ASSUME NEW r \in Rules
  PROVE  Classify(Labelled(r)) = Routed(r)
<1>1. CASE ~Labels(r) \/ Has(r, {"null labels"})
  BY <1>1 DEF Labelled, Labels, Classify, Routed, Kinds
<1>2. CASE Labels(r) /\ ~Has(r, {"null labels"})
  <2>1. Labelled(r).kind = SuggestKind(r) /\ SuggestKind(r) \in Kinds /\ SuggestKind(r) # NoKind
    BY <1>2, SuggestType DEF Labelled, Labels, Rules, Kinds
  <2>2. Classify(Labelled(r)) = SuggestKind(r)
    BY <2>1 DEF Classify, Kinds
  <2>3. r.kind = "absent" /\ r.kind \notin Kinds
    BY <1>2 DEF Labels, Kinds
  <2> QED
    BY <1>2, <2>1, <2>2, <2>3 DEF Routed
<1> QED
  BY <1>1, <1>2

LEMMA FoundType ==
  ASSUME NEW c \in Contents
  PROVE  /\ Found(c) \in Seq(Entry)
         /\ \A i \in DOMAIN Found(c) : Found(c)[i].kind = Classify(Found(c)[i].rule)
         /\ c.form = "rules" => /\ Len(Found(c)) = Len(c.rules)
                               /\ \A i \in DOMAIN c.rules : Found(c)[i].kind = Classify(c.rules[i])
<1> DEFINE n == Len(c.rules)
<1>1. n \in Nat /\ DOMAIN c.rules = 1..n /\ \A i \in 1..n : c.rules[i] \in Rules
  BY LenProperties DEF Contents
<1>2. ParseFile(c) \in [1..n -> Entry]
  BY <1>1, ClassifyType DEF ParseFile, Entry
<1>3. ParseFile(c) \in Seq(Entry) /\ Len(ParseFile(c)) = n
  BY <1>1, <1>2, Mapped
<1>4. DOMAIN ParseFile(c) = 1..n /\ \A i \in 1..n : /\ ParseFile(c)[i].rule = c.rules[i]
                                                   /\ ParseFile(c)[i].kind = Classify(c.rules[i])
  BY <1>1 DEF ParseFile
<1>5. <<>> \in Seq(Entry) /\ DOMAIN <<>> = {}
  BY EmptySeq
<1> QED
  BY <1>1, <1>3, <1>4, <1>5 DEF Found, Accepted

LEMMA RelabelledType ==
  ASSUME NEW c \in Contents, NEW i \in DOMAIN c.rules, NEW k \in Kinds
  PROVE  /\ Relabelled(c, i, k) \in Contents /\ DOMAIN Relabelled(c, i, k).rules = DOMAIN c.rules
         /\ Relabelled(c, i, k).rules[i].by = "hand" /\ Relabelled(c, i, k).rules[i].kind = k
         /\ \A j \in DOMAIN c.rules \ {i} : Relabelled(c, i, k).rules[j] = c.rules[j]
<1> DEFINE r   == [c.rules[i] EXCEPT !.kind = k, !.by = "hand"]
           new == [c.rules EXCEPT ![i] = r]
<1>1. c.rules \in Seq(Rules) /\ DOMAIN c.rules = 1..Len(c.rules) /\ c.rules[i] \in Rules
  BY LenProperties DEF Contents
<1>2. r \in Rules /\ r.by = "hand" /\ r.kind = k
  BY <1>1 DEF Rules
<1> HIDE DEF r
<1>3. new \in Seq(Rules) /\ Len(new) = Len(c.rules) /\ \A j \in DOMAIN c.rules : new[j] = IF j = i THEN r ELSE c.rules[j]
  BY <1>1, <1>2, ExceptSeq
<1>4. Relabelled(c, i, k).rules = new /\ Relabelled(c, i, k) \in Contents
  BY <1>3 DEF Relabelled, Contents, r
<1>5. DOMAIN new = DOMAIN c.rules
  OBVIOUS
<1> HIDE DEF new
<1> QED
  BY <1>2, <1>3, <1>4, <1>5

LEMMA NothingToLabel ==
  ASSUME NEW c \in Contents, \A i \in DOMAIN c.rules : ~Labels(c.rules[i])
  PROVE  LabelledFile(c) = c
<1>1. [i \in DOMAIN c.rules |-> Labelled(c.rules[i])] = [i \in DOMAIN c.rules |-> c.rules[i]]
  BY DEF Labelled
<1>2. c.rules = [i \in DOMAIN c.rules |-> c.rules[i]]
  BY LenProperties DEF Contents
<1> QED
  BY <1>1, <1>2 DEF LabelledFile, Contents

-----------------------------------------------------------------------------
(* Types.                                                                  *)

LEMMA WriteType ==
  ASSUME CatalogTypeOK, NEW f \in Names, NEW c \in Contents, Write(f, c)
  PROVE  /\ files' \in [Names -> Contents] /\ current' \in BOOLEAN
         /\ files'[f] = c /\ \A g \in Names \ {f} : files'[g] = files[g]
         /\ current' => current /\ files' = files
BY DEF Write, CatalogTypeOK

LEMMA NextFileType ==
  ASSUME CatalogTypeOK, NEW s \in SyncSteps, NEW t \in SyncSteps, NextFile(s, t)
  PROVE  /\ script' \in [step : SyncSteps, at : Names]
         /\ script.at = N => script'.step = t /\ script'.at = 1
         /\ script.at # N => script'.step = s /\ script'.at = script.at + 1
BY ReleaseType DEF NextFile, Goto, CatalogTypeOK

LEMMA ScriptType ==
  ASSUME CatalogTypeOK
  PROVE  /\ script.at \in Names /\ script.at \in Nat /\ pulled \in DOMAIN Releases
         /\ files[script.at] \in Contents /\ Releases[pulled][script.at] \in Contents
         /\ \A f \in Names : f \in Nat /\ files[f] \in Contents /\ Releases[pulled][f] \in Contents
BY ReleaseType DEF CatalogTypeOK

LEMMA CatalogTypeStep == CatalogTypeOK /\ CatalogNext => CatalogTypeOK'
<1> SUFFICES ASSUME CatalogTypeOK, CatalogNext PROVE CatalogTypeOK'
  OBVIOUS
<1> USE DEF disk, sync, load, routes, history, bounds
<1>1. ASSUME NEW v \in DOMAIN Releases, Pull(v) PROVE CatalogTypeOK'
  BY <1>1, CatalogConstantsOK, ReleaseType DEF Pull, Goto, CatalogTypeOK, SyncSteps
<1>2. CASE Copy
  <2>1. script' \in [step : SyncSteps, at : Names]
    BY <1>2, NextFileType DEF Copy, SyncSteps
  <2>2. files' \in [Names -> Contents] /\ current' \in BOOLEAN
    BY <1>2, WriteType, ScriptType DEF Copy, CatalogTypeOK
  <2> QED
    BY <1>2, <2>1, <2>2 DEF Copy, CatalogTypeOK
<1>3. CASE ReadFile
  <2>1. script' \in [step : SyncSteps, at : Names]
    <3>1. CASE Stop
      BY <3>1, ReleaseType DEF Stop, Goto, SyncSteps
    <3>2. CASE Goto("write", script.at)
      BY <3>2, ScriptType DEF Goto, SyncSteps
    <3>3. CASE NextFile("read", "stamp")
      BY <3>3, NextFileType DEF SyncSteps
    <3> QED
      BY <1>3, <3>1, <3>2, <3>3 DEF ReadFile
  <2>2. held' \in Contents
    BY <1>3, ScriptType, LabelledFileType DEF ReadFile, CatalogTypeOK
  <2>3. touched' \in BOOLEAN /\ synced' \in BOOLEAN
    BY <1>3 DEF ReadFile, CatalogTypeOK
  <2>4. UNCHANGED <<disk, pulled, load, routes, current, bounds>>
    BY <1>3 DEF ReadFile
  <2> QED
    BY <2>1, <2>2, <2>3, <2>4 DEF CatalogTypeOK
<1>4. CASE WriteFile
  <2>1. script' \in [step : SyncSteps, at : Names]
    BY <1>4, NextFileType DEF WriteFile, SyncSteps
  <2>2. files' \in [Names -> Contents] /\ current' \in BOOLEAN
    BY <1>4, WriteType, ScriptType DEF WriteFile, CatalogTypeOK
  <2> QED
    BY <1>4, <2>1, <2>2, Defaults DEF WriteFile, CatalogTypeOK
<1>5. CASE Stamp
  BY <1>5, ReleaseType DEF Stamp, Stop, Goto, CatalogTypeOK, SyncSteps
<1>6. ASSUME NEW torn \in {files[script.at], Empty}, Kill(torn) PROVE CatalogTypeOK'
  <2>1. files' \in [Names -> Contents] /\ current' \in BOOLEAN
    BY <1>6, WriteType, ScriptType, Defaults DEF Kill
  <2>2. script' \in [step : SyncSteps, at : Names] /\ held' \in Contents /\ touched' \in BOOLEAN /\ synced' \in BOOLEAN
    BY <1>6, Defaults, ReleaseType DEF Kill, Stop, Goto, SyncSteps
  <2>3. extras' = extras + 1 /\ UNCHANGED <<commit, pulled, load, routes, syncs>>
    BY <1>6 DEF Kill
  <2> QED
    BY <2>1, <2>2, <2>3 DEF CatalogTypeOK
<1>7. ASSUME NEW f \in Names, NEW i \in DOMAIN files[f].rules, Edit(f, i, "capacity") PROVE CatalogTypeOK'
  <2>1. Relabelled(files[f], i, "capacity") \in Contents
    BY <1>7, RelabelledType, ScriptType DEF Edit, Kinds
  <2>2. files' \in [Names -> Contents] /\ current' \in BOOLEAN
    BY <1>7, <2>1, WriteType DEF Edit
  <2>3. touched' \in BOOLEAN
    BY <1>7 DEF Edit, CatalogTypeOK
  <2>4. synced' = FALSE /\ UNCHANGED <<commit, pulled, script, held, load, routes, syncs>>
    BY <1>7 DEF Edit
  <2>5. extras' \in Nat
    BY <1>7 DEF Edit, CatalogTypeOK
  <2> QED
    BY <2>2, <2>3, <2>4, <2>5 DEF CatalogTypeOK
<1>8. CASE LoadStart
  BY <1>8, ReleaseType, EmptySeq DEF LoadStart, CatalogTypeOK
<1>9. CASE LoadFile
  <2>1. Found(files[loader]) \in Seq(Entry)
    BY <1>9, FoundType, ScriptType DEF LoadFile
  <2>2. loaded' \in [Names -> Seq(Entry)] /\ loader' \in 0..(N + 1)
    BY <1>9, <2>1, ReleaseType DEF LoadFile, NextLoad, CatalogTypeOK
  <2> QED
    BY <1>9, <2>2 DEF LoadFile, CatalogTypeOK
<1>10. CASE PromtoolTooSlow
  <2>1. loader' \in 0..(N + 1) /\ current' = FALSE /\ extras' \in Nat
    BY <1>10, ReleaseType DEF PromtoolTooSlow, NextLoad, Names, CatalogTypeOK
  <2>2. UNCHANGED <<disk, sync, loaded, routes, synced, syncs>>
    BY <1>10 DEF PromtoolTooSlow
  <2> QED
    BY <2>1, <2>2 DEF CatalogTypeOK
<1>11. CASE LoadEnd
  BY <1>11, ReleaseType, EmptySeq DEF LoadEnd, CatalogTypeOK
<1> QED
  BY <1>1, <1>2, <1>3, <1>4, <1>5, <1>6, <1>7, <1>8, <1>9, <1>10, <1>11 DEF CatalogNext

-----------------------------------------------------------------------------
(* The script.                                                             *)

LEMMA SyncInit == CatalogInit => SyncSoFar
BY DEF CatalogInit, SyncSoFar

LEMMA SyncStep == CatalogTypeOK /\ SyncSoFar /\ CatalogNext => SyncSoFar'
<1> SUFFICES ASSUME CatalogTypeOK, SyncSoFar, CatalogNext, synced' PROVE SyncSoFar'
  BY DEF SyncSoFar
<1> USE DEF disk, sync, load, routes, history, bounds, At
<1>1. ASSUME NEW v \in DOMAIN Releases, Pull(v) PROVE SyncSoFar'
  BY <1>1, ReleaseType DEF Pull, Goto, SyncSoFar, Names
<1>2. CASE Copy
  <2>1. synced /\ HasGo /\ pulled' = pulled /\ At("copy") /\ NextFile("copy", "read")
    BY <1>2 DEF Copy, SyncSoFar
  <2>2. /\ script'.step \in {"copy", "read"}
        /\ script.at = N => script'.step = "read" /\ script'.at = 1
        /\ script.at # N => script'.step = "copy" /\ script'.at = script.at + 1
    BY <2>1, NextFileType DEF SyncSteps
  <2>3. ASSUME NEW f \in Names, Releases[pulled][f].form = "rules", f < script.at + 1
        PROVE  files'[f] = Releases[pulled][f]
    <3>1. CASE f = script.at
      <4>1. Releases[pulled][f] # NoFile
        BY <2>3 DEF NoFile
      <4>2. Write(f, Releases[pulled][f])
        BY <1>2, <3>1, <4>1 DEF Copy
      <4> QED
        BY <4>2, WriteType, ScriptType
    <3>2. CASE f # script.at
      <4>1. f < script.at /\ files[f] = Releases[pulled][f]
        BY <2>1, <2>3, <3>2, ScriptType DEF SyncSoFar
      <4>2. files'[f] = files[f]
        BY <1>2, <3>2, WriteType, ScriptType DEF Copy
      <4> QED
        BY <4>1, <4>2
    <3> QED
      BY <3>1, <3>2
  <2>4. CASE script.at = N
    BY <2>1, <2>2, <2>3, <2>4, ReleaseType, ScriptType DEF SyncSoFar
  <2>5. CASE script.at # N
    BY <2>1, <2>2, <2>3, <2>5, ReleaseType, ScriptType DEF SyncSoFar
  <2> QED
    BY <2>4, <2>5
<1>3. CASE ReadFile
  <2>1. synced /\ HasGo /\ UNCHANGED <<files, commit, pulled>> /\ At("read")
    BY <1>3 DEF ReadFile, SyncSoFar
  <2> DEFINE c == files[script.at]
  <2>2. CASE Goto("write", script.at) /\ held' = LabelledFile(c)
    BY <2>1, <2>2, ScriptType DEF SyncSoFar, Goto
  <2>3. CASE NextFile("read", "stamp") /\ \A i \in DOMAIN c.rules : ~Labels(c.rules[i])
    <3>1. LabelledFile(c) = c
      BY <2>3, NothingToLabel, ScriptType
    <3>2. /\ script.at = N => script'.step = "stamp" /\ script'.at = 1
          /\ script.at # N => script'.step = "read" /\ script'.at = script.at + 1
      BY <2>3, NextFileType DEF SyncSteps
    <3>3. \A f \in Names : Releases[pulled][f].form = "rules" =>
            files[f] = IF f < script.at + 1 THEN LabelledFile(Releases[pulled][f]) ELSE Releases[pulled][f]
      BY <2>1, <3>1, ScriptType DEF SyncSoFar
    <3> HIDE DEF c
    <3>4. CASE script.at = N
      BY <2>1, <3>2, <3>3, <3>4, ReleaseType, ScriptType DEF SyncSoFar
    <3>5. CASE script.at # N
      BY <2>1, <3>2, <3>3, <3>5, ReleaseType, ScriptType DEF SyncSoFar
    <3> QED
      BY <3>4, <3>5
  <2> QED
    BY <1>3, <2>2, <2>3 DEF ReadFile
<1>4. CASE WriteFile
  <2>1. /\ synced /\ HasGo /\ UNCHANGED <<commit, pulled>> /\ At("write") /\ NextFile("read", "stamp")
        /\ Write(script.at, held)
    BY <1>4 DEF WriteFile, SyncSoFar
  <2>2. /\ script.at = N => script'.step = "stamp" /\ script'.at = 1
        /\ script.at # N => script'.step = "read" /\ script'.at = script.at + 1
    BY <2>1, NextFileType DEF SyncSteps
  <2>3. held \in Contents
    BY DEF CatalogTypeOK
  <2>4. files'[script.at] = held /\ \A f \in Names \ {script.at} : files'[f] = files[f]
    BY <2>1, <2>3, WriteType, ScriptType
  <2>5. \A f \in Names : Releases[pulled][f].form = "rules" =>
          files'[f] = IF f < script.at + 1 THEN LabelledFile(Releases[pulled][f]) ELSE Releases[pulled][f]
    BY <2>1, <2>4, ScriptType DEF SyncSoFar
  <2>6. CASE script.at = N
    BY <2>1, <2>2, <2>5, <2>6, ReleaseType, ScriptType DEF SyncSoFar
  <2>7. CASE script.at # N
    BY <2>1, <2>2, <2>5, <2>7, ReleaseType, ScriptType DEF SyncSoFar
  <2> QED
    BY <2>6, <2>7
<1>5. CASE Stamp
  BY <1>5 DEF Stamp, Stop, Goto, SyncSoFar
<1>6. ASSUME NEW torn \in {files[script.at], Empty}, Kill(torn) PROVE SyncSoFar'
  BY <1>6 DEF Kill
<1>7. ASSUME NEW f \in Names, NEW i \in DOMAIN files[f].rules, Edit(f, i, "capacity") PROVE SyncSoFar'
  BY <1>7 DEF Edit
<1>8. CASE LoadStart \/ LoadFile \/ PromtoolTooSlow \/ LoadEnd
  <2>1. UNCHANGED <<files, commit, pulled, script, held, synced>>
    BY <1>8 DEF LoadStart, LoadFile, PromtoolTooSlow, LoadEnd
  <2> QED
    BY <2>1 DEF SyncSoFar
<1> QED
  BY <1>1, <1>2, <1>3, <1>4, <1>5, <1>6, <1>7, <1>8 DEF CatalogNext

-----------------------------------------------------------------------------
(* The loader.                                                             *)

LEMMA LoadInit == CatalogInit => LoadedSoFar /\ ByLabel
BY EmptySeq DEF CatalogInit, LoadedSoFar, ByLabel

(* Whoever writes to the files, what Load had of them is what is there, or *)
(* it no longer counts.                                                    *)
LEMMA Written ==
  ASSUME CatalogTypeOK, CatalogNext, ~(LoadStart \/ LoadFile \/ PromtoolTooSlow \/ LoadEnd)
  PROVE  /\ UNCHANGED <<loader, loaded, catalog, version>>
         /\ current' => current /\ files' = files
<1> USE DEF disk, sync, load, routes, history, bounds
<1>1. ASSUME NEW v \in DOMAIN Releases, Pull(v)
      PROVE  UNCHANGED <<loader, loaded, catalog, version, current, files>>
  BY <1>1 DEF Pull
<1>2. CASE ReadFile \/ Stamp
  BY <1>2 DEF ReadFile, Stamp
<1>3. CASE Copy
  BY <1>3, WriteType, ScriptType DEF Copy
<1>4. CASE WriteFile
  BY <1>4, WriteType, ScriptType DEF WriteFile, CatalogTypeOK
<1>5. ASSUME NEW torn \in {files[script.at], Empty}, Kill(torn)
      PROVE  UNCHANGED <<loader, loaded, catalog, version>> /\ (current' => current /\ files' = files)
  BY <1>5, WriteType, ScriptType, Defaults DEF Kill
<1>6. ASSUME NEW f \in Names, NEW i \in DOMAIN files[f].rules, Edit(f, i, "capacity")
      PROVE  UNCHANGED <<loader, loaded, catalog, version>> /\ (current' => current /\ files' = files)
  <2>1. Relabelled(files[f], i, "capacity") \in Contents
    BY <1>6, RelabelledType, ScriptType DEF Edit, Kinds
  <2> QED
    BY <1>6, <2>1, WriteType DEF Edit
<1> QED
  BY <1>1, <1>2, <1>3, <1>4, <1>5, <1>6 DEF CatalogNext

LEMMA LoadStep == CatalogTypeOK /\ LoadedSoFar /\ CatalogNext => LoadedSoFar'
<1> SUFFICES ASSUME CatalogTypeOK, LoadedSoFar, CatalogNext, current' PROVE LoadedSoFar'
  BY DEF LoadedSoFar
<1> USE DEF disk, sync, load, routes, history, bounds
<1>1. CASE LoadStart
  BY <1>1, ReleaseType DEF LoadStart, LoadedSoFar, Names
<1>2. CASE LoadFile
  <2>1. /\ loader \in Names /\ loader' = loader + 1 /\ UNCHANGED <<files, current>>
        /\ loaded' = [loaded EXCEPT ![loader] = Found(files[loader])]
    BY <1>2 DEF LoadFile, NextLoad
  <2>2. \A f \in Names : f < loader => loaded[f] = Found(files[f])
    BY <2>1, ReleaseType DEF LoadedSoFar
  <2>3. \A f \in Names : f < loader + 1 => loaded'[f] = Found(files[f])
    BY <2>1, <2>2, ReleaseType DEF CatalogTypeOK
  <2> QED
    BY <2>1, <2>3, ReleaseType DEF LoadedSoFar
<1>3. CASE PromtoolTooSlow
  BY <1>3 DEF PromtoolTooSlow
<1>4. CASE LoadEnd
  <2>1. \A f \in Names : loaded[f] = Found(files[f])
    BY <1>4, ReleaseType DEF LoadEnd, LoadedSoFar
  <2> QED
    BY <1>4, <2>1 DEF LoadEnd, LoadedSoFar
<1>5. CASE ~(LoadStart \/ LoadFile \/ PromtoolTooSlow \/ LoadEnd)
  BY <1>5, Written DEF LoadedSoFar
<1> QED
  BY <1>1, <1>2, <1>3, <1>4, <1>5

LEMMA ByLabelStep == CatalogTypeOK /\ ByLabel /\ CatalogNext => ByLabel'
<1> SUFFICES ASSUME CatalogTypeOK, ByLabel, CatalogNext PROVE ByLabel'
  OBVIOUS
<1> USE DEF disk, sync, load, routes, history, bounds
<1>1. CASE LoadStart
  BY <1>1, EmptySeq DEF LoadStart, ByLabel
<1>2. CASE LoadFile
  <2>1. /\ loader \in Names /\ catalog' = catalog
        /\ loaded' = [loaded EXCEPT ![loader] = Found(files[loader])]
    BY <1>2 DEF LoadFile
  <2>2. \A i \in DOMAIN Found(files[loader]) :
          Found(files[loader])[i].kind = Classify(Found(files[loader])[i].rule)
    BY <2>1, FoundType, ScriptType
  <2>3. loaded'[loader] = Found(files[loader]) /\ \A f \in Names \ {loader} : loaded'[f] = loaded[f]
    BY <2>1 DEF CatalogTypeOK
  <2> QED
    BY <2>1, <2>2, <2>3 DEF ByLabel
<1>3. CASE PromtoolTooSlow
  BY <1>3 DEF PromtoolTooSlow, ByLabel
<1>4. CASE LoadEnd
  BY <1>4, EmptySeq DEF LoadEnd, ByLabel
<1>5. CASE ~(LoadStart \/ LoadFile \/ PromtoolTooSlow \/ LoadEnd)
  BY <1>5, Written DEF ByLabel
<1> QED
  BY <1>1, <1>2, <1>3, <1>4, <1>5

-----------------------------------------------------------------------------
(* What a person wrote.                                                    *)

LEMMA HandInit == CatalogInit => HandsSafe
BY Defaults, EmptySeq DEF CatalogInit, HandsSafe, HandNamed, At

LEMMA LabelledHand ==
  ASSUME NEW c \in Contents, HandNamed(c)
  PROVE  /\ HandNamed(LabelledFile(c))
         /\ \A i \in DOMAIN c.rules : c.rules[i].by = "hand" => LabelledFile(c).rules[i] = c.rules[i]
<1>1. ASSUME NEW i \in DOMAIN c.rules
      PROVE  /\ LabelledFile(c).rules[i].by = "hand" => LabelledFile(c).rules[i] = c.rules[i]
             /\ c.rules[i].by = "hand" => LabelledFile(c).rules[i] = c.rules[i]
  BY LabelledFileType, LabelledType DEF HandNamed
<1> QED
  BY <1>1, LabelledFileType DEF HandNamed

LEMMA HandStep == CatalogTypeOK /\ HandsSafe /\ CatalogNext => HandsSafe'
<1> SUFFICES ASSUME CatalogTypeOK, HandsSafe, CatalogNext PROVE HandsSafe'
  OBVIOUS
<1> USE DEF disk, sync, load, routes, history, bounds, At
<1>1. ASSUME NEW v \in DOMAIN Releases, Pull(v) PROVE HandsSafe'
  BY <1>1 DEF Pull, Goto, HandsSafe
<1>2. CASE Copy
  <2>1. held' = held /\ script'.step # "write"
    BY <1>2, NextFileType DEF Copy, SyncSteps
  <2>2. HandNamed(Releases[pulled][script.at])
    BY CatalogConstantsOK, ScriptType DEF HandNamed
  <2>3. \A f \in Names : HandNamed(files'[f])
    BY <1>2, <2>2, WriteType, ScriptType DEF Copy, HandsSafe
  <2> QED
    BY <2>1, <2>3 DEF HandsSafe
<1>3. CASE ReadFile
  <2> DEFINE c == files[script.at]
  <2>1. files' = files /\ HandNamed(c) /\ c \in Contents
    BY <1>3, ScriptType DEF ReadFile, HandsSafe
  <2>2. CASE Goto("write", script.at) /\ held' = LabelledFile(c)
    BY <2>1, <2>2, LabelledHand DEF HandsSafe, Goto
  <2>3. CASE (Stop \/ NextFile("read", "stamp")) /\ held' = held
    <3>1. script'.step # "write"
      BY <2>3, NextFileType DEF Stop, Goto, SyncSteps
    <3> QED
      BY <2>1, <2>3, <3>1 DEF HandsSafe
  <2> QED
    BY <1>3, <2>2, <2>3 DEF ReadFile
<1>4. CASE WriteFile
  <2>1. held' = NoFile /\ script'.step # "write"
    BY <1>4, NextFileType DEF WriteFile, SyncSteps
  <2>2. \A f \in Names : files'[f] = IF f = script.at THEN held ELSE files[f]
    BY <1>4, WriteType, ScriptType DEF WriteFile, CatalogTypeOK
  <2>3. HandNamed(NoFile)
    BY Defaults, EmptySeq DEF HandNamed
  <2> QED
    BY <2>1, <2>2, <2>3 DEF HandsSafe
<1>5. CASE Stamp
  BY <1>5 DEF Stamp, Stop, Goto, HandsSafe
<1>6. ASSUME NEW torn \in {files[script.at], Empty}, Kill(torn) PROVE HandsSafe'
  <2>1. held' = NoFile /\ script'.step = "idle"
    BY <1>6 DEF Kill, Stop, Goto
  <2>2. HandNamed(NoFile) /\ HandNamed(Empty)
    BY Defaults, EmptySeq DEF HandNamed
  <2>3. \A f \in Names : HandNamed(files'[f])
    BY <1>6, <2>2, WriteType, ScriptType, Defaults DEF Kill, HandsSafe
  <2> QED
    BY <2>1, <2>2, <2>3 DEF HandsSafe
<1>7. ASSUME NEW f \in Names, NEW i \in DOMAIN files[f].rules, Edit(f, i, "capacity") PROVE HandsSafe'
  <2> DEFINE new == Relabelled(files[f], i, "capacity")
  <2>1. /\ UNCHANGED <<script, held>> /\ i \in DOMAIN files[f].rules
        /\ touched' = (touched \/ (At("write") /\ f = script.at))
    BY <1>7 DEF Edit
  <2>2. new \in Contents /\ HandNamed(new)
    <3>1. /\ new \in Contents /\ DOMAIN new.rules = DOMAIN files[f].rules /\ new.rules[i].kind = "capacity"
          /\ \A j \in DOMAIN files[f].rules \ {i} : new.rules[j] = files[f].rules[j]
      BY <2>1, RelabelledType, ScriptType DEF Kinds
    <3>2. HandNamed(files[f])
      BY DEF HandsSafe
    <3> HIDE DEF new
    <3> QED
      BY <3>1, <3>2 DEF HandNamed
  <2>3. files'[f] = new /\ \A g \in Names \ {f} : files'[g] = files[g]
    BY <1>7, <2>2, WriteType DEF Edit
  <2> HIDE DEF new
  <2> QED
    BY <2>1, <2>2, <2>3, ScriptType DEF HandsSafe
<1>8. CASE LoadStart \/ LoadFile \/ PromtoolTooSlow \/ LoadEnd
  <2>1. UNCHANGED <<files, script, held, touched>>
    BY <1>8 DEF LoadStart, LoadFile, PromtoolTooSlow, LoadEnd
  <2> QED
    BY <2>1 DEF HandsSafe
<1> QED
  BY <1>1, <1>2, <1>3, <1>4, <1>5, <1>6, <1>7, <1>8 DEF CatalogNext

(* Only a copy, a write cut short, and a write over somebody's back take a *)
(* kind that was written by hand away.                                     *)
LEMMA HandStays ==
  ASSUME CatalogTypeOK, HandsSafe, CatalogNext, NEW f \in Names, NEW i,
         ByHand(files[f], i), ~ByHand(files'[f], i)
  PROVE  f = script.at /\ (At("copy") \/ (At("write") /\ (touched \/ script'.step = "idle")))
<1> USE DEF disk, sync, load, routes, history, bounds
<1>1. ASSUME NEW v \in DOMAIN Releases, Pull(v) PROVE files' = files
  BY <1>1 DEF Pull
<1>2. CASE Copy
  BY <1>2, WriteType, ScriptType DEF Copy
<1>3. CASE WriteFile
  <2>1. files'[script.at] = held /\ At("write") /\ \A g \in Names \ {script.at} : files'[g] = files[g]
    BY <1>3, WriteType, ScriptType DEF WriteFile, CatalogTypeOK
  <2>2. ASSUME f = script.at, ~touched PROVE FALSE
    <3>1. held = LabelledFile(files[f]) /\ HandNamed(files[f]) /\ files[f] \in Contents
      BY <2>1, <2>2, ScriptType DEF HandsSafe
    <3>2. ByHand(held, i)
      BY <3>1, LabelledHand, LabelledFileType DEF ByHand
    <3> QED
      BY <2>1, <2>2, <3>2
  <2> QED
    BY <2>1, <2>2
<1>4. ASSUME NEW torn \in {files[script.at], Empty}, Kill(torn)
      PROVE  f = script.at /\ (At("copy") \/ (At("write") /\ script'.step = "idle"))
  BY <1>4, WriteType, ScriptType, Defaults DEF Kill, Stop, Goto
<1>5. ASSUME NEW g \in Names, NEW j \in DOMAIN files[g].rules, Edit(g, j, "capacity") PROVE FALSE
  <2>1. j \in DOMAIN files[g].rules
    BY <1>5 DEF Edit
  <2> DEFINE new == Relabelled(files[g], j, "capacity")
  <2>2. new \in Contents /\ \A k : ByHand(files[g], k) => ByHand(new, k)
    BY <2>1, RelabelledType, ScriptType DEF Kinds, ByHand
  <2>3. files'[g] = new /\ \A h \in Names \ {g} : files'[h] = files[h]
    BY <1>5, <2>2, WriteType DEF Edit
  <2> HIDE DEF new
  <2> QED
    BY <2>2, <2>3
<1>6. CASE ReadFile \/ Stamp \/ LoadStart \/ LoadFile \/ PromtoolTooSlow \/ LoadEnd
  BY <1>6 DEF ReadFile, Stamp, LoadStart, LoadFile, PromtoolTooSlow, LoadEnd
<1> QED
  BY <1>1, <1>2, <1>3, <1>4, <1>5, <1>6 DEF CatalogNext

LEMMA VersionStep == CatalogTypeOK /\ VersionTrails /\ CatalogNext => VersionTrails'
<1> SUFFICES ASSUME CatalogTypeOK, VersionTrails, CatalogNext PROVE VersionTrails'
  OBVIOUS
<1> USE DEF disk, sync, load, routes, history, bounds
<1>1. version \in Int /\ commit \in Int /\ pulled \in Int
  BY ReleaseType DEF CatalogTypeOK
<1>2. ASSUME NEW v \in DOMAIN Releases, Pull(v) PROVE VersionTrails'
  BY <1>1, <1>2, ReleaseType DEF Pull, VersionTrails
<1>3. CASE Stamp
  BY <1>1, <1>3 DEF Stamp, VersionTrails
<1>4. CASE LoadEnd
  BY <1>1, <1>4 DEF LoadEnd, VersionTrails
<1>5. ASSUME NEW torn \in {files[script.at], Empty}, Kill(torn) PROVE VersionTrails'
  BY <1>5 DEF Kill, VersionTrails
<1>6. ASSUME NEW f \in Names, NEW i \in DOMAIN files[f].rules, Edit(f, i, "capacity") PROVE VersionTrails'
  BY <1>6 DEF Edit, VersionTrails
<1>7. CASE Copy \/ ReadFile \/ WriteFile \/ LoadStart \/ LoadFile \/ PromtoolTooSlow
  BY <1>7 DEF Copy, ReadFile, WriteFile, LoadStart, LoadFile, PromtoolTooSlow, VersionTrails
<1> QED
  BY <1>2, <1>3, <1>4, <1>5, <1>6, <1>7 DEF CatalogNext

-----------------------------------------------------------------------------
(* The scan.                                                               *)

LEMMA WasteAlertsType ==
  ASSUME CatalogTypeOK, ByLabel
  PROVE  /\ WasteAlerts \in SUBSET Scanned
         /\ \A e \in WasteAlerts : e.rule.kind = "waste" /\ e.rule.alert
<1> SUFFICES ASSUME NEW f \in Names, NEW i \in DOMAIN catalog[f],
                    catalog[f][i].kind = "waste", catalog[f][i].rule.alert
             PROVE  /\ i \in Nat /\ catalog[f][i].rule \in Rules
                    /\ catalog[f][i].rule.kind = "waste"
  BY DEF WasteAlerts, Scanned
<1>1. catalog[f] \in Seq(Entry)
  BY DEF CatalogTypeOK
<1>2. DOMAIN catalog[f] = 1..Len(catalog[f]) /\ Len(catalog[f]) \in Nat /\ catalog[f][i] \in Entry
  BY <1>1, LenProperties
<1>3. Classify(catalog[f][i].rule) = "waste"
  BY DEF ByLabel
<1> QED
  BY <1>2, <1>3 DEF Classify, Entry, NoKind

LEMMA JudgeType == \A r, series : Judge(r, series) \in Outcomes
BY DEF Judge, Outcomes

LEMMA SayType ==
  ASSUME ScanTypeOK, ScansTheLabelled, NEW e \in scanning, NEW outcome \in Outcomes, NEW series,
         Say(e, outcome, series)
  PROVE  /\ scanning' \in SUBSET Scanned /\ attempt' \in 1..Attempts /\ last'.outcome \in Outcomes
         /\ ScansTheLabelled'
BY DEF Say, ScanTypeOK, Attempts, ScansTheLabelled

LEMMA AskStep ==
  ASSUME ScanTypeOK, ScansTheLabelled, Ask
  PROVE  /\ scanning' \in SUBSET Scanned /\ attempt' \in 1..Attempts
         /\ last' = Nothing \/ last'.outcome \in Outcomes
         /\ ScansTheLabelled'
<1>1. PICK e \in scanning :
        TryAgain(e) \/ Refused(e) \/ \E series \in Series(Days(e.rule)) : Answer(e, series)
  BY DEF Ask
<1>2. CASE TryAgain(e) /\ attempt < Attempts
  BY <1>2 DEF TryAgain, Attempts, ScanTypeOK, ScansTheLabelled
<1>3. CASE TryAgain(e) /\ ~(attempt < Attempts)
  BY <1>3, SayType DEF TryAgain, Outcomes
<1>4. CASE Refused(e)
  BY <1>4, SayType DEF Refused, Outcomes
<1>5. CASE \E series \in Series(Days(e.rule)) : Answer(e, series)
  BY <1>5, SayType, JudgeType DEF Answer
<1> QED
  BY <1>1, <1>2, <1>3, <1>4, <1>5

-----------------------------------------------------------------------------
(* The theorems.                                                           *)

LEMMA InvInit == ScanInit => RulesInv
<1> SUFFICES ASSUME ScanInit PROVE RulesInv
  OBVIOUS
<1>1. CatalogInit /\ scanning = {} /\ attempt = 1 /\ last = Nothing
  BY DEF ScanInit
<1>2. CatalogTypeOK /\ VersionTrails
  <2>1. /\ files \in [Names -> Contents] /\ held \in Contents
        /\ loaded \in [Names -> Seq(Entry)] /\ catalog \in [Names -> Seq(Entry)]
    BY <1>1, Defaults, EmptySeq DEF CatalogInit
  <2>2. /\ commit = 0 /\ pulled = 1 /\ version = 0 /\ loader = 0 /\ syncs = 0 /\ extras = 0
        /\ script = [step |-> "idle", at |-> 1] /\ ~touched /\ ~synced /\ ~current
        /\ touched \in BOOLEAN /\ synced \in BOOLEAN /\ current \in BOOLEAN
    BY <1>1 DEF CatalogInit
  <2> QED
    BY <2>1, <2>2, ReleaseType DEF CatalogTypeOK, VersionTrails, SyncSteps
<1>3. ScanTypeOK /\ ScansTheLabelled
  BY <1>1, <1>2 DEF ScanTypeOK, Attempts, ScansTheLabelled
<1> QED
  BY <1>1, <1>2, <1>3, SyncInit, LoadInit, HandInit DEF RulesInv, CatalogInv

LEMMA Kept == CatalogInv /\ UNCHANGED catalogVars => CatalogInv'
<1> SUFFICES ASSUME CatalogInv, UNCHANGED catalogVars PROVE CatalogInv'
  OBVIOUS
<1>1. UNCHANGED <<files, commit, pulled, script, held, touched, loader, loaded, catalog, version,
                  synced, current, syncs, extras>>
  BY DEF catalogVars, disk, sync, load, routes, history, bounds
<1> QED
  BY <1>1 DEF CatalogInv, CatalogTypeOK, SyncSoFar, LoadedSoFar, ByLabel, HandsSafe, VersionTrails, At

LEMMA InvStep == RulesInv /\ [ScanNext]_ruleVars => RulesInv'
<1> SUFFICES ASSUME RulesInv, [ScanNext]_ruleVars PROVE RulesInv'
  OBVIOUS
<1>1. CatalogInv /\ ScanTypeOK /\ ScansTheLabelled
  BY DEF RulesInv
<1>2. CASE CatalogNext /\ UNCHANGED scanVars
  <2>1. CatalogInv'
    BY <1>1, <1>2, CatalogTypeStep, SyncStep, LoadStep, ByLabelStep, HandStep, VersionStep DEF CatalogInv
  <2>2. UNCHANGED <<scanning, attempt, last>> /\ CatalogTypeOK'
    BY <1>2, <2>1 DEF scanVars, CatalogInv
  <2> QED
    BY <1>1, <2>1, <2>2 DEF RulesInv, ScanTypeOK, ScansTheLabelled
<1>3. CASE ScanStart
  <2>1. /\ UNCHANGED <<files, commit, pulled, script, held, touched, loader, loaded, catalog, version,
                       synced, current, syncs, attempt>>
        /\ scanning' = WasteAlerts /\ last' = Nothing /\ extras' = extras + 1
    BY <1>3 DEF ScanStart, disk, sync, load, routes, history
  <2>2. CatalogTypeOK'
    BY <1>1, <2>1 DEF CatalogInv, CatalogTypeOK
  <2>3. CatalogInv'
    BY <1>1, <2>1, <2>2 DEF CatalogInv, SyncSoFar, LoadedSoFar, ByLabel, HandsSafe, VersionTrails, At
  <2>4. WasteAlerts \in SUBSET Scanned /\ \A e \in WasteAlerts : e.rule.kind = "waste" /\ e.rule.alert
    BY <1>1, WasteAlertsType DEF CatalogInv
  <2> QED
    BY <1>1, <2>1, <2>2, <2>3, <2>4 DEF RulesInv, ScanTypeOK, ScansTheLabelled
<1>4. CASE Ask /\ UNCHANGED catalogVars
  <2>1. CatalogInv'
    BY <1>1, <1>4, Kept
  <2> QED
    BY <1>1, <1>4, <2>1, AskStep DEF RulesInv, ScanTypeOK, CatalogInv
<1>5. CASE UNCHANGED ruleVars
  <2>1. CatalogInv'
    BY <1>1, <1>5, Kept DEF ruleVars
  <2>2. UNCHANGED <<scanning, attempt, last>>
    BY <1>5 DEF ruleVars, scanVars
  <2> QED
    BY <1>1, <2>1, <2>2 DEF RulesInv, ScanTypeOK, CatalogInv, ScansTheLabelled
<1> QED
  BY <1>2, <1>3, <1>4, <1>5 DEF ScanNext

(* The invariant above holds in every state, whatever the releases, the    *)
(* number of the files and the bounds.                                     *)
THEOREM RulesInvariance == ScanSpec => []RulesInv
<1> QED
  BY InvInit, InvStep, PTL DEF ScanSpec

LEMMA SyncedIsRoutedInv == RulesInv => SyncedIsRouted
<1> SUFFICES ASSUME RulesInv, synced, At("idle"), current, loader = 0, NEW f \in Names,
                    Releases[commit][f].form = "rules"
             PROVE  /\ Len(catalog[f]) = Len(Releases[commit][f].rules)
                    /\ \A i \in DOMAIN Releases[commit][f].rules :
                         catalog[f][i].kind = Routed(Releases[commit][f].rules[i])
  BY DEF SyncedIsRouted
<1> DEFINE c == Releases[commit][f]
<1>1. commit = pulled /\ c \in Contents
  BY ScriptType DEF RulesInv, CatalogInv, SyncSoFar
<1>2. files[f] = LabelledFile(c) /\ catalog[f] = Found(LabelledFile(c))
  BY <1>1 DEF RulesInv, CatalogInv, SyncSoFar, LoadedSoFar
<1> HIDE DEF c
<1>3. LabelledFile(c) \in Contents /\ LabelledFile(c).form = c.form
  BY <1>1, LabelledFileType
<1>4. c.form = "rules"
  BY DEF c
<1>5. Len(catalog[f]) = Len(LabelledFile(c).rules) /\ Len(LabelledFile(c).rules) = Len(c.rules)
  BY <1>1, <1>2, <1>3, <1>4, FoundType, LabelledFileType
<1>6. ASSUME NEW i \in DOMAIN c.rules PROVE catalog[f][i].kind = Routed(c.rules[i])
  <2>1. /\ i \in DOMAIN LabelledFile(c).rules /\ c.rules[i] \in Rules
        /\ LabelledFile(c).rules[i] = Labelled(c.rules[i])
    BY <1>1, LabelledFileType
  <2>2. catalog[f][i].kind = Classify(LabelledFile(c).rules[i])
    BY <1>2, <1>3, <1>4, <2>1, FoundType
  <2> QED
    BY <2>1, <2>2, LabelledIsRouted
<1> QED
  BY <1>5, <1>6 DEF c

(* After a sync that ended well, with nobody else at the files, every rule *)
(* of the release that can be loaded is in the catalog with the kind it    *)
(* was meant to have; only alerts whose label on disk says waste are       *)
(* scanned; and the catalog never claims a release that was not stamped.   *)
THEOREM RulesReachTheScan == ScanSpec => []RoutedToTheScan
<1>1. RulesInv => RoutedToTheScan
  BY SyncedIsRoutedInv DEF RulesInv, CatalogInv, RoutedToTheScan
<1> QED
  BY <1>1, RulesInvariance, PTL

(* No step takes a kind that somebody wrote by hand away, except a release *)
(* that is copied over the file, a write of the tool that is cut short,    *)
(* and one of a file that was edited while the tool had it in hand.        *)
THEOREM HandsOff == ScanSpec => HandKept
<1>1. RulesInv /\ [ScanNext]_ruleVars =>
        [\A f \in Names : \A i \in DOMAIN files[f].rules :
           ByHand(files[f], i) /\ ~ByHand(files'[f], i)
             => f = script.at /\ (At("copy") \/ (At("write") /\ (touched \/ script'.step = "idle")))]_catalogVars
  <2> SUFFICES ASSUME RulesInv, [ScanNext]_ruleVars, ~ UNCHANGED catalogVars,
                      NEW f \in Names, NEW i \in DOMAIN files[f].rules,
                      ByHand(files[f], i), ~ByHand(files'[f], i)
               PROVE  f = script.at /\ (At("copy") \/ (At("write") /\ (touched \/ script'.step = "idle")))
    OBVIOUS
  <2>1. CatalogTypeOK /\ HandsSafe
    BY DEF RulesInv, CatalogInv
  <2>2. CASE CatalogNext
    BY <2>1, <2>2, HandStays
  <2>3. CASE ScanStart
    BY <2>3 DEF ScanStart, disk
  <2>4. CASE UNCHANGED ruleVars
    BY <2>4 DEF ruleVars
  <2> QED
    BY <2>2, <2>3, <2>4 DEF ScanNext
<1> QED
  BY <1>1, RulesInvariance, PTL DEF ScanSpec, HandKept

-----------------------------------------------------------------------------
(* What a duration means (PromDuration), and what the scan says of a rule  *)
(* (WasteScanner).                                                         *)

(* The parser reads the text token by token.                               *)
LEMMA ReadingIs ==
  ASSUME NEW text \in Seq(Tokens)
  PROVE  /\ Reading(text)[0] = [ok |-> TRUE, total |-> 0, num |-> None]
         /\ \A i \in 1..Len(text) : Reading(text)[i] = Take(Reading(text)[i - 1], text[i])
<1> DEFINE n == Len(text)
           Step(g, i) == IF i = 0 THEN [ok |-> TRUE, total |-> 0, num |-> None] ELSE Take(g[i - 1], text[i])
           I == {m \in Nat : \E g : g = [i \in 0..m |-> Step(g, i)]}
<1>1. 0 \in I
  <2> DEFINE g == [i \in 0..0 |-> [ok |-> TRUE, total |-> 0, num |-> None]]
  <2>1. \A i \in 0..0 : Step(g, i) = [ok |-> TRUE, total |-> 0, num |-> None]
    OBVIOUS
  <2> HIDE DEF Step
  <2>2. g = [i \in 0..0 |-> Step(g, i)]
    BY <2>1
  <2> QED
    BY <2>2
<1>2. ASSUME NEW m \in Nat, m \in I PROVE m + 1 \in I
  <2>1. PICK g : g = [i \in 0..m |-> Step(g, i)]
    BY <1>2
  <2> DEFINE h == [i \in 0..(m + 1) |-> Step(g, i)]
  <2>2. \A i \in 0..m : h[i] = g[i]
    <3>1. \A i \in 0..m : g[i] = Step(g, i)
      <4> HIDE DEF Step
      <4> QED
        BY <2>1
    <3>2. \A i \in 0..m : h[i] = Step(g, i)
      <4> HIDE DEF Step
      <4> QED
        OBVIOUS
    <3> HIDE DEF Step, h
    <3> QED
      BY <3>1, <3>2
  <2>3. \A i \in 0..(m + 1) : Step(g, i) = Step(h, i)
    <3> SUFFICES ASSUME NEW i \in 0..(m + 1), i # 0 PROVE g[i - 1] = h[i - 1]
      OBVIOUS
    <3>1. i - 1 \in 0..m
      OBVIOUS
    <3> HIDE DEF h
    <3> QED
      BY <2>2, <3>1
  <2>4. h = [i \in 0..(m + 1) |-> Step(h, i)]
    <3> HIDE DEF Step
    <3> QED
      BY <2>3
  <2> HIDE DEF h, Step
  <2> QED
    BY <2>4
<1> HIDE DEF I
<1>3. Nat \subseteq I
  BY <1>1, <1>2, SetInduction
<1>4. n \in Nat
  OBVIOUS
<1>5. \E g : g = [i \in 0..n |-> Step(g, i)]
  BY <1>3, <1>4 DEF I
<1>6. Reading(text) = [i \in 0..n |-> Step(Reading(text), i)]
  <2> DEFINE Acc == CHOOSE g : g = [i \in 0..n |-> Step(g, i)]
  <2>1. Acc = [i \in 0..n |-> Step(Acc, i)]
    <3> HIDE DEF Step
    <3> QED
      BY <1>5
  <2>2. Reading(text) = Acc
    BY Zenon DEF Reading
  <2> HIDE DEF Acc, Step
  <2> QED
    BY <2>1, <2>2
<1>7. \A i \in 0..n : Reading(text)[i] = Step(Reading(text), i)
  <2> HIDE DEF Step
  <2> QED
    BY <1>6
<1>8. Reading(text)[0] = Step(Reading(text), 0)
  <2> HIDE DEF Step
  <2> QED
    BY <1>4, <1>7
<1>9. ASSUME NEW i \in 1..n PROVE Reading(text)[i] = Step(Reading(text), i) /\ i # 0
  <2> HIDE DEF Step
  <2> QED
    BY <1>4, <1>7
<1> HIDE DEF n
<1>10. \A i \in 1..n : Reading(text)[i] = Take(Reading(text)[i - 1], text[i])
  BY <1>9
<1> QED
  BY <1>8, <1>10 DEF n

Numbers == [type : {"number"}, n : Nat \cup {-1}]
Accs    == [ok : BOOLEAN, total : Int, num : Numbers \cup {None}]
Units   == DOMAIN Seconds

(* Every unit is a number of seconds.                                      *)
LEMMA UnitsAre == \A c \in Units : Seconds[c] \in Nat
  BY DEF Units, Seconds

LEMMA TokenIs ==
  ASSUME NEW t \in Tokens
  PROVE  /\ t.type = "number" => t \in Numbers
         /\ t.type # "number" => t.type = "char"
  BY DEF Tokens, Numbers

(* What a token does to a reading that is well typed.                      *)
LEMMA TakeIs ==
  ASSUME NEW acc \in Accs, NEW t \in Tokens, NEW new, new = Take(acc, t)
  PROVE  /\ new \in Accs
         /\ t.type = "number" => new.ok = acc.ok /\ new.total = acc.total /\ new.num = t
         /\ t.type = "char" /\ (acc.num = None \/ acc.num = Malformed \/ t.c \notin Units) => ~new.ok
         /\ t.type = "char" /\ acc.num # None /\ acc.num # Malformed /\ t.c \in Units
              => /\ new.ok = acc.ok /\ new.num = None
                 /\ new.total = acc.total + acc.num.n * Seconds[t.c]
<1>1. /\ acc.ok \in BOOLEAN /\ acc.total \in Int /\ acc.num \in Numbers \cup {None}
      /\ (acc.num.type = "none" <=> acc.num = None)
      /\ acc.num # None => acc.num.n \in Int
  BY DEF Accs, Numbers, None
<1>2. CASE t.type = "number"
  <2>1. new = [acc EXCEPT !.num = t] /\ t \in Numbers
    BY <1>2, TokenIs DEF Take
  <2> QED
    BY <1>2, <2>1 DEF Accs
<1>3. CASE t.type = "char" /\ (acc.num = None \/ acc.num = Malformed \/ t.c \notin Units)
  <2>1. new = [acc EXCEPT !.ok = FALSE]
    BY <1>1, <1>3 DEF Take, Flush, Units
  <2> QED
    BY <1>3, <2>1 DEF Accs
<1>4. CASE t.type = "char" /\ acc.num # None /\ acc.num # Malformed /\ t.c \in Units
  <2>1. new = [acc EXCEPT !.total = @ + acc.num.n * Seconds[t.c], !.num = None]
    BY <1>1, <1>4 DEF Take, Flush, Units
  <2>2. PICK k : k = acc.num.n * Seconds[t.c]
    OBVIOUS
  <2>3. k \in Int
    BY <1>1, <1>4, <2>2, UnitsAre
  <2>4. new = [acc EXCEPT !.total = acc.total + k, !.num = None]
    BY <2>1, <2>2 DEF Accs
  <2>5. acc.total + k \in Int
    BY <1>1, <2>3
  <2>6. new \in Accs /\ new.ok = acc.ok /\ new.num = None /\ new.total = acc.total + k
    BY <2>4, <2>5 DEF Accs
  <2> QED
    BY <1>4, <2>2, <2>6
<1> QED
  BY <1>2, <1>3, <1>4, TokenIs

(* The first i tokens are those of quantities.                             *)
Fits(text, i) ==
  \A j \in 1..i : IF j % 2 = 1 THEN text[j].type = "number" /\ text[j] # Malformed
                              ELSE text[j].type = "char" /\ text[j].c \in Units

OddBefore(text, i) == {j \in DOMAIN text : j % 2 = 1 /\ j < i}

(* The quantities of the first i tokens, when those fit.                   *)
LEMMA QuantityIs ==
  ASSUME NEW text \in Seq(Tokens), NEW i \in 0..Len(text), Fits(text, i)
  PROVE  /\ \A j \in OddBefore(text, i) : Quantities(text)[j] \in Int
         /\ \A j \in 1..i : j % 2 = 1 /\ j < Len(text)
               => Quantities(text)[j] = text[j].n * Seconds[text[j + 1].c] /\ text[j].n \in Int
         /\ i = Len(text) /\ i % 2 = 1 => Quantities(text)[i] = text[i].n * 1 /\ text[i].n \in Int
         /\ IsFiniteSet(OddBefore(text, i))
<1>1. DOMAIN text = 1..Len(text) /\ Len(text) \in Nat /\ \A j \in DOMAIN text : text[j] \in Tokens
  OBVIOUS
<1>2. ASSUME NEW j \in 1..i, j % 2 = 1
      PROVE  /\ j \in DOMAIN text /\ text[j].n \in Int
             /\ Quantities(text)[j] = text[j].n * IF j = Len(text) THEN 1 ELSE Seconds[text[j + 1].c]
  <2>1. j \in DOMAIN text
    BY <1>1
  <2>2. text[j] \in Numbers
    BY <1>1, <1>2, <2>1, TokenIs DEF Fits
  <2>3. text[j].n \in Int
    BY <2>2 DEF Numbers
  <2>4. j \in {k \in DOMAIN text : k % 2 = 1}
    BY <1>2, <2>1
  <2> QED
    BY <2>1, <2>3, <2>4 DEF Quantities
<1>3. ASSUME NEW j \in OddBefore(text, i) PROVE Quantities(text)[j] \in Int
  <2>1. j \in 1..i /\ j % 2 = 1 /\ j + 1 \in 1..i /\ j # Len(text) /\ (j + 1) % 2 # 1
    BY <1>1 DEF OddBefore
  <2>2. Seconds[text[j + 1].c] \in Int
    BY <2>1, UnitsAre DEF Fits
  <2>3. Quantities(text)[j] = text[j].n * Seconds[text[j + 1].c] /\ text[j].n \in Int
    BY <1>2, <2>1
  <2> QED
    BY <2>2, <2>3
<1>4. IsFiniteSet(OddBefore(text, i))
  <2>1. IsFiniteSet(1..Len(text))
    BY <1>1, FS_Interval
  <2>2. OddBefore(text, i) \subseteq 1..Len(text)
    BY <1>1 DEF OddBefore
  <2> QED
    BY <2>1, <2>2, FS_Subset
<1>5. ASSUME NEW j \in 1..i, j % 2 = 1, j < Len(text)
      PROVE  Quantities(text)[j] = text[j].n * Seconds[text[j + 1].c] /\ text[j].n \in Int
  <2>1. \A a, b \in Int : a < b => a # b
    OBVIOUS
  <2>2. j \in Int /\ Len(text) \in Int
    BY <1>1
  <2>3. j # Len(text)
    BY <1>5, <2>1, <2>2
  <2> QED
    BY <1>2, <1>5, <2>3
<1>6. ASSUME i = Len(text), i % 2 = 1
      PROVE  Quantities(text)[i] = text[i].n * 1 /\ text[i].n \in Int
  <2>1. i \in 1..i
    BY <1>1, <1>6
  <2> QED
    BY <1>2, <1>6, <2>1
<1> QED
  BY <1>3, <1>4, <1>5, <1>6

(* However a text is put together, the parser (internal/promdur) makes of  *)
(* it what it means: the sum of its quantities when it is well formed, and *)
(* zero when it is not.  By induction over the tokens: as long as they     *)
(* fit, the total is the sum of the quantities so far, and once one does   *)
(* not, no later token repairs the reading.                                *)
THEOREM ParseMeans ==
  ASSUME NEW text \in Texts
  PROVE  Parse(text) = Means(text) /\ Parse(text) \in Int
<1> DEFINE n      == Len(text)
           acc(i) == Reading(text)[i]
           sum(i) == SumFunctionOnSet(Quantities(text), OddBefore(text, i))
           Good(i) == /\ acc(i) \in Accs
                      /\ Fits(text, i) => /\ acc(i).ok /\ acc(i).total = sum(i)
                                          /\ acc(i).num = IF i % 2 = 1 THEN text[i] ELSE None
                      /\ ~Fits(text, i) => \/ ~acc(i).ok
                                           \/ acc(i).num = Malformed /\ i \in 1..n /\ text[i].type = "number"
           I == {i \in Nat : i <= n => Good(i)}
<1>1. /\ text \in Seq(Tokens) /\ n \in Nat /\ DOMAIN text = 1..n
      /\ \A i \in 1..n : text[i] \in Tokens
      /\ \A i \in 1..(n - 1) : "char" \in {text[i].type, text[i + 1].type}
  BY DEF Texts
<1>2. 0 \in I
  <2>1. acc(0) = [ok |-> TRUE, total |-> 0, num |-> None]
    BY <1>1, ReadingIs
  <2>2. Fits(text, 0)
    BY DEF Fits
  <2>3. sum(0) = 0
    <3>1. OddBefore(text, 0) = {}
      BY <1>1 DEF OddBefore
    <3> QED
      BY <3>1, SumEmpty
  <2>4. acc(0) \in Accs
    BY <2>1 DEF Accs
  <2> HIDE DEF acc, sum
  <2>5. acc(0).ok /\ acc(0).total = 0 /\ acc(0).num = None
    BY <2>1
  <2> QED
    BY <2>2, <2>3, <2>4, <2>5
<1>3. ASSUME NEW i \in Nat, i \in I PROVE i + 1 \in I
  <2> SUFFICES ASSUME i + 1 <= n PROVE Good(i + 1)
    OBVIOUS
  <2>1. Good(i) /\ i \in 0..n /\ i + 1 \in 1..n
    BY <1>1, <1>3
  <2>2. PICK t : t = text[i + 1]
    OBVIOUS
  <2>3. t \in Tokens /\ (i \in 1..n => "char" \in {text[i].type, t.type})
    BY <1>1, <2>1, <2>2
  <2>4. acc(i + 1) = Take(acc(i), t)
    <3>1. (i + 1) - 1 = i
      OBVIOUS
    <3> QED
      BY <1>1, <2>1, <2>2, <3>1, ReadingIs
  <2>5. PICK old, new : old = acc(i) /\ new = acc(i + 1)
    OBVIOUS
  <2> HIDE DEF acc, sum, n
  <2>6. old \in Accs /\ new = Take(old, t)
    BY <2>1, <2>4, <2>5
  <2>7. /\ new \in Accs
        /\ t.type = "number" => new.ok = old.ok /\ new.total = old.total /\ new.num = t
        /\ t.type = "char" /\ (old.num = None \/ old.num = Malformed \/ t.c \notin Units) => ~new.ok
        /\ t.type = "char" /\ old.num # None /\ old.num # Malformed /\ t.c \in Units
              => /\ new.ok = old.ok /\ new.num = None
                 /\ new.total = old.total + old.num.n * Seconds[t.c]
        /\ t.type \in {"number", "char"}
    BY <2>3, <2>6, TakeIs, TokenIs
  <2>8. Fits(text, i + 1) <=> /\ Fits(text, i)
                             /\ IF (i + 1) % 2 = 1 THEN t.type = "number" /\ t # Malformed
                                                   ELSE t.type = "char" /\ t.c \in Units
    <3>1. 1..(i + 1) = (1..i) \cup {i + 1}
      OBVIOUS
    <3> QED
      BY <2>2, <3>1 DEF Fits
  <2>9. CASE Fits(text, i + 1) /\ (i + 1) % 2 = 1
    <3>1. Fits(text, i) /\ i % 2 # 1 /\ t.type = "number"
      BY <2>8, <2>9
    <3>2. new.ok /\ new.total = sum(i) /\ new.num = t
      BY <2>1, <2>5, <2>7, <3>1
    <3>3. OddBefore(text, i + 1) = OddBefore(text, i)
      BY <1>1, <2>9 DEF OddBefore
    <3>4. sum(i + 1) = sum(i)
      BY <3>3 DEF sum
    <3> QED
      BY <2>2, <2>5, <2>7, <2>9, <3>2, <3>4
  <2>10. CASE Fits(text, i + 1) /\ (i + 1) % 2 # 1
    <3>1. Fits(text, i) /\ i % 2 = 1 /\ t.type = "char" /\ t.c \in Units
      BY <2>8, <2>10
    <3>2. i \in 1..n /\ i \in 1..i /\ i < Len(text) /\ i \in 0..Len(text)
      BY <1>1, <2>1, <3>1 DEF n
    <3>3. old.ok /\ old.total = sum(i) /\ old.num = text[i] /\ text[i].type = "number" /\ text[i] # Malformed
      BY <2>1, <2>5, <3>1, <3>2 DEF Fits
    <3>4. old.num # None
      BY <3>3 DEF None
    <3>5. new.ok /\ new.num = None /\ new.total = sum(i) + text[i].n * Seconds[t.c]
      BY <2>7, <3>1, <3>3, <3>4
    <3>6. /\ Quantities(text)[i] = text[i].n * Seconds[text[i + 1].c] /\ text[i].n \in Int
          /\ \A j \in OddBefore(text, i) : Quantities(text)[j] \in Int
          /\ IsFiniteSet(OddBefore(text, i))
      BY <1>1, <3>1, <3>2, QuantityIs
    <3>7. Seconds[t.c] \in Int
      BY <3>1, UnitsAre
    <3>8. OddBefore(text, i + 1) = OddBefore(text, i) \cup {i} /\ i \notin OddBefore(text, i)
      BY <1>1, <3>1, <3>2 DEF OddBefore, n
    <3>9. Quantities(text)[i] = text[i].n * Seconds[t.c] /\ Quantities(text)[i] \in Int
      BY <2>2, <3>6, <3>7
    <3>10. \A j \in OddBefore(text, i) \cup {i} : Quantities(text)[j] \in Int
      BY <3>6, <3>9
    <3>11. sum(i + 1) = sum(i) + Quantities(text)[i]
      BY <3>6, <3>8, <3>10, SumAdd DEF sum
    <3> QED
      BY <2>5, <2>7, <2>10, <3>5, <3>9, <3>11
  <2>11. CASE ~Fits(text, i + 1) /\ Fits(text, i)
    <3>1. CASE (i + 1) % 2 = 1
      <4>1. i % 2 # 1 /\ (t.type # "number" \/ t = Malformed)
        BY <2>8, <2>11, <3>1
      <4>2. old.num = None
        BY <2>1, <2>5, <2>11, <4>1
      <4>3. Malformed.type = "number"
        BY DEF Malformed
      <4>4. ~new.ok \/ (new.num = Malformed /\ t.type = "number")
        BY <2>7, <4>1, <4>2, <4>3
      <4> QED
        BY <2>1, <2>2, <2>5, <2>7, <2>11, <4>4
    <3>2. CASE (i + 1) % 2 # 1
      <4>1. i % 2 = 1 /\ i \in 1..n /\ i \in 1..i
        BY <2>1, <3>2
      <4>2. text[i].type = "number"
        BY <2>11, <4>1 DEF Fits
      <4>3. t.type = "char" /\ t.c \notin Units
        BY <2>3, <2>8, <2>11, <3>2, <4>1, <4>2
      <4>4. ~new.ok
        BY <2>7, <4>3
      <4> QED
        BY <2>5, <2>7, <2>11, <4>4
    <3> QED
      BY <3>1, <3>2
  <2>12. CASE ~Fits(text, i + 1) /\ ~Fits(text, i)
    <3>1. ~old.ok \/ (old.num = Malformed /\ i \in 1..n /\ text[i].type = "number")
      BY <2>1, <2>5, <2>12
    <3>2. CASE ~old.ok
      <4>1. ~new.ok
        BY <2>7, <3>2
      <4> QED
        BY <2>5, <2>7, <2>12, <4>1
    <3>3. CASE old.num = Malformed /\ i \in 1..n /\ text[i].type = "number"
      <4>1. t.type = "char"
        BY <2>3, <3>3
      <4>2. ~new.ok
        BY <2>7, <3>3, <4>1
      <4> QED
        BY <2>5, <2>7, <2>12, <4>2
    <3> QED
      BY <3>1, <3>2, <3>3
  <2> QED
    BY <2>9, <2>10, <2>11, <2>12
<1> HIDE DEF I
<1>4. Nat \subseteq I
  BY <1>2, <1>3, SetInduction
<1>5. Good(n)
  BY <1>1, <1>4 DEF I
<1>6. WellFormed(text) <=> Fits(text, n)
  BY <1>1 DEF WellFormed, Fits, Units
<1>7. PICK end : end = acc(n)
  OBVIOUS
<1>8. Parse(text) = IF ~end.ok \/ end.num = Malformed THEN 0
                    ELSE IF end.num = None THEN end.total ELSE end.total + end.num.n
  BY <1>7 DEF Parse
<1>9. CASE ~Fits(text, n)
  <2>1. ~end.ok \/ end.num = Malformed
    BY <1>5, <1>7, <1>9
  <2> QED
    BY <1>6, <1>8, <1>9, <2>1 DEF Means
<1>10. CASE Fits(text, n)
  <2> DEFINE Odd == {j \in DOMAIN text : j % 2 = 1}
  <2>1. end.ok /\ end.total = sum(n) /\ end.num = IF n % 2 = 1 THEN text[n] ELSE None
    BY <1>5, <1>7, <1>10
  <2>2. Means(text) = SumFunctionOnSet(Quantities(text), Odd)
    BY <1>6, <1>10 DEF Means, SumFunction, Quantities
  <2>3. /\ \A j \in OddBefore(text, n) : Quantities(text)[j] \in Int
        /\ n % 2 = 1 => Quantities(text)[n] = text[n].n * 1 /\ text[n].n \in Int
        /\ IsFiniteSet(OddBefore(text, n))
    BY <1>1, <1>10, QuantityIs
  <2>4. sum(n) \in Int
    BY <2>3, SumType
  <2> HIDE DEF sum, acc
  <2>5. CASE n % 2 # 1
    <3>1. Odd = OddBefore(text, n)
      BY <1>1, <2>5 DEF OddBefore
    <3>2. Parse(text) = sum(n)
      BY <1>8, <2>1, <2>5 DEF None, Malformed
    <3> QED
      BY <2>2, <2>4, <3>1, <3>2 DEF sum
  <2>6. CASE n % 2 = 1
    <3>1. n \in 1..n
      BY <1>1, <2>6
    <3>2. end.num = text[n] /\ text[n].type = "number" /\ text[n] # Malformed
      BY <1>10, <2>1, <2>6, <3>1 DEF Fits
    <3>3. text[n] # None
      BY <3>2 DEF None
    <3>4. Parse(text) = sum(n) + text[n].n
      BY <1>8, <2>1, <3>2, <3>3
    <3>5. Odd = OddBefore(text, n) \cup {n} /\ n \notin OddBefore(text, n)
      BY <1>1, <2>6, <3>1 DEF OddBefore
    <3> HIDE DEF Odd
    <3>6. Quantities(text)[n] = text[n].n /\ Quantities(text)[n] \in Int
      BY <2>3, <2>6
    <3> HIDE DEF n
    <3>7. \A j \in OddBefore(text, n) \cup {n} : Quantities(text)[j] \in Int
      BY <2>3, <3>6
    <3>8. SumFunctionOnSet(Quantities(text), Odd) = sum(n) + Quantities(text)[n]
      BY <2>3, <3>5, <3>7, SumAdd DEF sum
    <3> QED
      BY <2>2, <2>3, <2>4, <3>4, <3>6, <3>8
  <2> QED
    BY <2>5, <2>6
<1> QED
  BY <1>9, <1>10

-----------------------------------------------------------------------------
(* The judgement.                                                          *)

LEMMA WindowIs ==
  ASSUME NEW r \in Rules
  PROVE  Window(r) = ExpectedWindow(r) /\ Days(r) \in Nat \ {0}
<1>1. r.for \in Texts
  BY DEF Rules
<1>2. Parse(r.for) = Means(r.for) /\ Parse(r.for) \in Int
  BY <1>1, ParseMeans
<1>3. Seconds["d"] = 86400
  BY DEF Seconds
<1>4. Window(r) = ExpectedWindow(r)
  BY <1>2 DEF Window, ExpectedWindow, Day
<1>5. Window(r) \in Nat
  BY <1>2, <1>3 DEF Window, Day
<1>6. Days(r) \in Nat \ {0}
  <2>1. Window(r) \div 86400 \in Nat
    BY <1>5
  <2> QED
    BY <1>3, <2>1 DEF Days, Day
<1> QED
  BY <1>4, <1>6

(* What Judge says of an answer, for every window and any series.          *)
LEMMA JudgeIs ==
  ASSUME NEW r, NEW n \in Nat \ {0}, NEW series \in Seq([1..n -> Truths])
  PROVE  LET outcome == Judge(r, series) IN
         /\ outcome # "failed"
         /\ outcome = "candidate" => \E i \in DOMAIN series : \E d \in DOMAIN series[i] : series[i][d] = "idle"
         /\ r.form = "bool" /\ Len(series) = 1 /\ (\A d \in DOMAIN series[1] : series[1][d] # "gap")
              => (outcome = "candidate" <=> \A d \in DOMAIN series[1] : series[1][d] = "idle")
<1> DEFINE there == Answered(r, series)
           first == Min(there)
           samples == Samples(r, series[first])
<1>1. there \in SUBSET Int /\ there \subseteq DOMAIN series /\ DOMAIN series = 1..Len(series) /\ Len(series) \in Nat
  BY DEF Answered
<1>2. Judge(r, series) = IF there = {} THEN "nothing"
                         ELSE IF \A d \in DOMAIN samples : samples[d] >= 1 THEN "candidate" ELSE "busy"
  BY DEF Judge
<1>3. ASSUME there # {} PROVE first \in there /\ DOMAIN samples # {}
  <2>1. IsFiniteSet(there)
    <3>1. IsFiniteSet(1..Len(series))
      BY <1>1, FS_Interval
    <3> QED
      BY <1>1, <3>1, FS_Subset
  <2> HIDE DEF there
  <2>2. \E m \in there : \A x \in there : m <= x
    BY <1>1, <1>3, <2>1, Extremes
  <2>3. first \in there
    BY <2>2 DEF Min
  <2> QED
    BY <2>3 DEF Answered, there
<1>4. ASSUME NEW i \in DOMAIN series
      PROVE  /\ DOMAIN series[i] = 1..n /\ \A d \in 1..n : series[i][d] \in Truths
             /\ DOMAIN Samples(r, series[i]) =
                  {d \in 1..n : series[i][d] # "gap" /\ (series[i][d] = "idle" \/ r.form = "bool")}
             /\ r.form = "bool" => \A d \in DOMAIN Samples(r, series[i]) :
                                    Samples(r, series[i])[d] = IF series[i][d] = "idle" THEN 1 ELSE 0
  <2>1. series[i] \in [1..n -> Truths]
    BY <1>4
  <2> QED
    BY <2>1 DEF Samples
<1> HIDE DEF there, samples, first
<1>5. ASSUME Judge(r, series) = "candidate"
      PROVE  \E i \in DOMAIN series : \E d \in DOMAIN series[i] : series[i][d] = "idle"
  <2>1. there # {} /\ first \in DOMAIN series /\ DOMAIN samples # {} /\ \A d \in DOMAIN samples : samples[d] >= 1
    BY <1>1, <1>2, <1>3, <1>5
  <2>2. PICK d : d \in DOMAIN samples
    BY <2>1
  <2>3. d \in 1..n /\ DOMAIN series[first] = 1..n /\ (series[first][d] = "idle" \/ r.form = "bool")
    BY <1>4, <2>1, <2>2 DEF samples
  <2>4. r.form = "bool" => samples[d] = IF series[first][d] = "idle" THEN 1 ELSE 0
    BY <1>4, <2>1, <2>2 DEF samples
  <2> QED
    BY <2>1, <2>2, <2>3, <2>4
<1>6. ASSUME r.form = "bool", Len(series) = 1, \A d \in DOMAIN series[1] : series[1][d] # "gap"
      PROVE  Judge(r, series) = "candidate" <=> \A d \in DOMAIN series[1] : series[1][d] = "idle"
  <2>1. 1 \in DOMAIN series /\ DOMAIN series[1] = 1..n /\ 1 \in 1..n
    BY <1>1, <1>4, <1>6
  <2>2. DOMAIN Samples(r, series[1]) = 1..n
    BY <1>4, <1>6, <2>1
  <2>3. 1 \in there
    BY <2>1, <2>2 DEF there, Answered
  <2>4. first = 1
    <3>1. first \in there
      BY <1>3, <2>3
    <3>2. there \subseteq 1..Len(series)
      BY <1>1
    <3>3. first \in 1..1
      BY <1>6, <3>1, <3>2
    <3> QED
      BY <3>3
  <2>5. \A d \in 1..n : samples[d] = IF series[1][d] = "idle" THEN 1 ELSE 0
    BY <1>4, <1>6, <2>1, <2>2, <2>4 DEF samples
  <2>6. DOMAIN samples = 1..n
    BY <2>2, <2>4 DEF samples
  <2> QED
    BY <1>2, <2>1, <2>3, <2>5, <2>6
<1>7. Judge(r, series) # "failed"
  BY <1>2
<1> QED
  BY <1>5, <1>6, <1>7

(* Every step of the scan says the right thing.                            *)
LEMMA JudgedStep ==
  ASSUME ScanTypeOK, JudgedRight, [ScanNext]_ruleVars
  PROVE  JudgedRight'
<1> DEFINE Right(l) ==
      /\ l.window = ExpectedWindow(l.rule)
      /\ l.outcome = "failed" => l.attempt = 3
      /\ l.outcome = "candidate" =>
           \E i \in DOMAIN l.series : \E d \in DOMAIN l.series[i] : l.series[i][d] = "idle"
      /\ /\ l.rule.form = "bool" /\ Len(l.series) = 1
         /\ \A d \in DOMAIN l.series[1] : l.series[1][d] # "gap"
         => (l.outcome = "candidate" <=> \A d \in DOMAIN l.series[1] : l.series[1][d] = "idle")
<1>1. JudgedRight' <=> (last' # Nothing => Right(last'))
  BY DEF JudgedRight, Nothing, ExpectedWindow
<1>2. ASSUME NEW e \in scanning, NEW outcome, NEW series, Say(e, outcome, series),
             Right([rule |-> e.rule, window |-> Window(e.rule), outcome |-> outcome,
                    series |-> series, attempt |-> attempt])
      PROVE  JudgedRight'
  <2>1. last' = [rule |-> e.rule, window |-> Window(e.rule), outcome |-> outcome,
                 series |-> series, attempt |-> attempt]
    BY <1>2 DEF Say
  <2> HIDE DEF Right
  <2> QED
    BY <1>1, <1>2, <2>1
<1>3. \A e \in scanning : Window(e.rule) = ExpectedWindow(e.rule) /\ Days(e.rule) \in Nat \ {0}
  <2>1. \A e \in scanning : e.rule \in Rules
    BY DEF ScanTypeOK, Scanned
  <2> QED
    BY <2>1, WindowIs
<1>4. CASE (CatalogNext /\ UNCHANGED scanVars) \/ UNCHANGED ruleVars
  <2>1. last' = last
    BY <1>4 DEF scanVars, ruleVars
  <2> QED
    BY <2>1 DEF JudgedRight
<1>5. CASE ScanStart
  <2>1. last' = Nothing
    BY <1>5 DEF ScanStart
  <2> QED
    BY <1>1, <2>1
<1>6. CASE Ask
  <2>1. PICK e \in scanning :
          TryAgain(e) \/ Refused(e) \/ \E series \in Series(Days(e.rule)) : Answer(e, series)
    BY <1>6 DEF Ask
  <2>2. CASE TryAgain(e) /\ attempt < Attempts
    <3>1. last' = Nothing
      BY <2>2 DEF TryAgain
    <3> QED
      BY <1>1, <3>1
  <2>3. CASE TryAgain(e) /\ ~(attempt < Attempts)
    <3>1. Say(e, "failed", <<>>) /\ attempt = 3
      BY <2>3 DEF TryAgain, ScanTypeOK, Attempts
    <3>2. Len(<<>>) # 1
      OBVIOUS
    <3>3. Window(e.rule) = ExpectedWindow(e.rule)
      BY <1>3
    <3> QED
      BY <1>2, <3>1, <3>2, <3>3
  <2>4. CASE Refused(e)
    <3>1. Say(e, "refused", <<>>)
      BY <2>4 DEF Refused
    <3>2. Len(<<>>) # 1
      OBVIOUS
    <3>3. Window(e.rule) = ExpectedWindow(e.rule)
      BY <1>3
    <3> QED
      BY <1>2, <3>1, <3>2, <3>3
  <2>5. CASE \E series \in Series(Days(e.rule)) : Answer(e, series)
    <3>1. PICK series \in Series(Days(e.rule)) : Answer(e, series)
      BY <2>5
    <3>2. PICK n, r, outcome : n = Days(e.rule) /\ r = e.rule /\ outcome = Judge(r, series)
      OBVIOUS
    <3>3. n \in Nat \ {0} /\ series \in Seq([1..n -> Truths]) /\ Window(r) = ExpectedWindow(r)
      BY <1>3, <3>1, <3>2 DEF Series
    <3>4. /\ outcome # "failed"
          /\ outcome = "candidate" => \E i \in DOMAIN series : \E d \in DOMAIN series[i] : series[i][d] = "idle"
          /\ r.form = "bool" /\ Len(series) = 1 /\ (\A d \in DOMAIN series[1] : series[1][d] # "gap")
               => (outcome = "candidate" <=> \A d \in DOMAIN series[1] : series[1][d] = "idle")
      BY <3>2, <3>3, JudgeIs
    <3>5. Say(e, outcome, series)
      BY <3>1, <3>2 DEF Answer
    <3>6. Right([rule |-> r, window |-> Window(r), outcome |-> outcome, series |-> series, attempt |-> attempt])
      BY <3>3, <3>4
    <3> HIDE DEF Right
    <3> QED
      BY <1>2, <3>2, <3>5, <3>6
  <2> QED
    BY <2>1, <2>2, <2>3, <2>4, <2>5
<1> QED
  BY <1>4, <1>5, <1>6 DEF ScanNext

LEMMA JudgedInit == ScanInit => JudgedRight
BY DEF ScanInit, JudgedRight

(* Whatever a rule's "for" is, whatever series Prometheus answers with and *)
(* however often it fails: the scan looks at the days that the text means  *)
(* (fourteen when it means none), gives up at the third attempt only, and  *)
(* calls nothing a candidate that was busy on every day; where every day   *)
(* of the one series of a comparison with bool is known, a candidate is    *)
(* what was idle on all of them.                                           *)
THEOREM VerdictsOnRules == ScanSpec => []JudgedRight
<1>1. RulesInv => ScanTypeOK
  BY DEF RulesInv
<1>2. ScanTypeOK /\ JudgedRight /\ [ScanNext]_ruleVars => JudgedRight'
  BY JudgedStep
<1> QED
  BY <1>1, <1>2, JudgedInit, RulesInvariance, PTL DEF ScanSpec

=============================================================================
