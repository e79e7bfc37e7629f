--------------------------- MODULE WasteLifecycle ---------------------------
(***************************************************************************)
(* The life of a waste candidate: the Tracker of the daemon (internal/     *)
(* waste/tracker.go), the scan that feeds it and writes it back            *)
(* (runWasteScan, cmd/sentinel/daemon.go), its rows in SQLite              *)
(* (internal/store/waste.go), and the command line (cmd/sentinel/          *)
(* waste_cli.go), a process of its own that loads the rows, changes one    *)
(* entry and writes all of them back.                                      *)
(*                                                                         *)
(* Time is kept as ages: an entry holds the days since it was last         *)
(* notified and the days left of its dismissal instead of two time stamps, *)
(* and Tick lets every copy of every entry age by a day.                   *)
(***************************************************************************)
EXTENDS Integers, FiniteSets

CONSTANTS
  NumEntries,   \* entries are numbered in the order of their key
  Resource,     \* the ResourceID of an entry, which several may share
  Renotify,     \* label notify_every in days; 0 = not set
  DismissDays,  \* values of -days the operator uses; none above 0 = for good
  MaxAge        \* ages saturate here; no longer Renotify ever falls due

Entries == 1..NumEntries

ASSUME WasteConstantsOK ==
  /\ NumEntries \in Nat \ {0}
  /\ Renotify \in [Entries -> Nat]
  /\ DismissDays \subseteq Int
  /\ MaxAge \in Nat

VARIABLES
  mem,        \* entries of the daemon's Tracker
  rows,       \* table waste_entries
  pc,         \* where the scan is
  cands,      \* candidates it has still to observe
  cur,        \* the candidate it notifies
  unsaved,    \* entries it has still to write
  cli,        \* the command in progress: its own Tracker, what it has to write
  told,       \* world: the entry a message about which has just arrived
  decision,   \* history: the last lasting decision the CLI acknowledged
  promise,    \* history: days of silence the rows held when the daemon started
  forgotten   \* history: promised entries at a start that could not read them

scan    == <<pc, cands, cur, unsaved>>
silence == <<promise, forgotten>>
vars    == <<mem, rows, scan, cli, told, decision, silence>>

NoDeadline == -1    \* the zero time of DismissUntil
Nobody     == 0     \* no entry

States == {"absent", "notified", "renoted", "dismissed", "resolved"}
Steps  == {"wait", "observe", "send", "save"}

Record == [state : States,
           age   : 0..MaxAge,                    \* since LastNotified
           left  : Nat \cup {NoDeadline}]        \* until DismissUntil

Absent == [state |-> "absent", age |-> 0, left |-> NoDeadline]
Idle   == [busy |-> FALSE, key |-> 1, copy |-> [k \in Entries |-> Absent], todo |-> {}]

Cap(n, max) == IF n > max THEN max ELSE n
First(k, S) == k \in S /\ \A j \in S : k <= j
Present(es) == {k \in Entries : es[k].state # "absent"}

TypeOK ==
  /\ mem \in [Entries -> Record]
  /\ rows \in [Entries -> Record]
  /\ pc \in Steps
  /\ cands \subseteq Entries
  /\ cur \in Entries
  /\ unsaved \subseteq Entries
  /\ cli \in [busy : BOOLEAN, key : Entries, copy : [Entries -> Record],
              todo : SUBSET Entries]
  /\ told \in Entries \cup {Nobody}
  /\ decision \in [Entries -> States \cup {"none"}]
  /\ promise \in [Entries -> Nat \cup {NoDeadline}]
  /\ forgotten \subseteq Entries

Init ==
  /\ mem = [k \in Entries |-> Absent]
  /\ rows = [k \in Entries |-> Absent]
  /\ pc = "wait"
  /\ cands = {}
  /\ cur = 1
  /\ unsaved = {}
  /\ cli = Idle
  /\ told = Nobody
  /\ decision = [k \in Entries |-> "none"]
  /\ promise = [k \in Entries |-> 0]
  /\ forgotten = {}

-----------------------------------------------------------------------------
(* Tracker.Observe.                                                        *)

Due(e, k) == Renotify[k] > 0 /\ e.age >= Renotify[k]

Announced(e) == [e EXCEPT !.state = "renoted", !.age = 0]

Expired(e) == e.left = 0

(* Mutant: a dismissal with a deadline behind it stays dismissed.          *)
ObservedNoRevival(e, k) ==
  CASE e.state = "absent" -> [Absent EXCEPT !.state = "notified"]
    [] e.state = "dismissed" -> [e EXCEPT !.age = 0]
    [] e.state \in {"notified", "renoted", "resolved"} /\ Due(e, k) -> Announced(e)
    [] e.state \in {"notified", "renoted", "resolved"} /\ ~Due(e, k) -> e

Observed(e, k) ==
  CASE e.state = "absent" -> [Absent EXCEPT !.state = "notified"]
    [] e.state = "dismissed" /\ Expired(e) ->
         [Announced(e) EXCEPT !.left = NoDeadline]
    [] e.state = "dismissed" /\ ~Expired(e) ->
         [e EXCEPT !.age = 0]
    [] e.state \in {"notified", "renoted", "resolved"} /\ Due(e, k) -> Announced(e)
    [] e.state \in {"notified", "renoted", "resolved"} /\ ~Due(e, k) -> e

(* Mutants: a dismissed entry is due like any other; reminders are not     *)
(* repeated.                                                               *)
ShouldNotifyDismissed(e, k) ==
  e.state = "absent" \/ (e.state = "dismissed" /\ Expired(e)) \/ Due(e, k)
ShouldNotifyOnce(e, k) ==
  e.state = "absent" \/ (e.state = "dismissed" /\ Expired(e))

ShouldNotify(e, k) ==
  \/ e.state = "absent"
  \/ e.state = "dismissed" /\ Expired(e)
  \/ e.state \in {"notified", "renoted", "resolved"} /\ Due(e, k)

-----------------------------------------------------------------------------
(* The daemon's scan.                                                      *)

(* Scanner.Scan: the rules that hold over their whole window and whose     *)
(* query succeeds, any of them at any scan.                                *)
StartScan ==
  /\ pc = "wait"
  /\ pc' = "observe"
  /\ cands' \in SUBSET Entries
  /\ UNCHANGED <<mem, rows, cur, unsaved, cli, told, decision, silence>>

Observe(k) ==
  /\ pc = "observe" /\ k \in cands
  /\ cands' = cands \ {k}
  /\ cur' = k
  /\ told' = Nobody
  /\ mem' = [mem EXCEPT ![k] = Observed(mem[k], k)]
  /\ pc' = IF ShouldNotify(mem[k], k) THEN "send" ELSE "observe"
  /\ UNCHANGED <<rows, unsaved, cli, decision, silence>>

(* The copies that one Send may deliver (Post, DaemonLoop) count as one.    *)
SendOK ==
  /\ pc = "send"
  /\ pc' = "observe"
  /\ told' = cur
  /\ UNCHANGED <<mem, rows, cands, cur, unsaved, cli, decision, silence>>

(* The error is logged: the entry stays registered as notified.            *)
SendError(delivered) ==
  /\ pc = "send"
  /\ pc' = "observe"
  /\ told' = IF delivered THEN cur ELSE Nobody
  /\ UNCHANGED <<mem, rows, cands, cur, unsaved, cli, decision, silence>>

ScanDone ==
  /\ pc = "observe" /\ cands = {}
  /\ pc' = "save"
  /\ unsaved' = Present(mem)
  /\ told' = Nobody
  /\ UNCHANGED <<mem, rows, cands, cur, cli, decision, silence>>

(* SetWasteEntry binds NULL for a zero renotify_sec, which the table's     *)
(* NOT NULL refuses: such a row is never written.                          *)
Writable(k) == Renotify[k] > 0

SaveOK(k) ==
  /\ pc = "save" /\ First(k, unsaved)
  /\ Writable(k)
  /\ rows' = [rows EXCEPT ![k] = mem[k]]
  /\ unsaved' = unsaved \ {k}
  /\ UNCHANGED <<mem, pc, cands, cur, cli, told, decision, silence>>

(* Mutant: the first entry that cannot be written ends the loop.           *)
SaveErrorReturns(k) ==
  /\ pc = "save" /\ First(k, unsaved)
  /\ unsaved' = {}
  /\ UNCHANGED <<mem, rows, pc, cands, cur, cli, told, decision, silence>>

(* The daemon logs a failed write and goes on with the next entry.         *)
SaveError(k) ==
  /\ pc = "save" /\ First(k, unsaved)
  /\ unsaved' = unsaved \ {k}
  /\ UNCHANGED <<mem, rows, pc, cands, cur, cli, told, decision, silence>>

SaveDone ==
  /\ pc = "save" /\ unsaved = {}
  /\ pc' = "wait"
  /\ UNCHANGED <<mem, rows, cands, cur, unsaved, cli, told, decision, silence>>

-----------------------------------------------------------------------------
(* The daemon stops anywhere and starts again: the dismissals in the rows  *)
(* are what it owes the operator from then on.                             *)

Promised(k) ==
  CASE rows[k].state = "dismissed" -> rows[k].left
    [] rows[k].state = "resolved"  -> 0
    [] OTHER                       -> promise[k]

Restart ==
  /\ mem' = rows
  /\ promise' = [k \in Entries |-> Promised(k)]
  /\ forgotten' = {k \in forgotten : rows[k].state \notin {"dismissed", "resolved"}}
  /\ pc' = "wait"
  /\ cands' = {}
  /\ unsaved' = {}
  /\ told' = Nobody
  /\ UNCHANGED <<rows, cur, cli, decision>>

(* The rows cannot be read: a warning, and a Tracker that knows nothing of *)
(* what they promise.                                                      *)
RestartUnread ==
  /\ mem' = [k \in Entries |-> Absent]
  /\ promise' = [k \in Entries |-> Promised(k)]
  /\ forgotten' = forgotten \cup {k \in Entries : Promised(k) # 0}
  /\ pc' = "wait"
  /\ cands' = {}
  /\ unsaved' = {}
  /\ told' = Nobody
  /\ UNCHANGED <<rows, cur, cli, decision>>

-----------------------------------------------------------------------------
(* The command line, beside a daemon that may be anywhere in a scan.       *)

Command(k, e) ==
  /\ cli' = [busy |-> TRUE, key |-> k, copy |-> [rows EXCEPT ![k] = e],
             todo |-> Present(rows)]
  /\ decision' = [decision EXCEPT ![k] = "none"]

(* Dismiss takes any one entry of the resource, as map iteration has it.   *)
CliDismiss(r, days) ==
  /\ ~cli.busy
  /\ \E k \in Present(rows) :
       /\ Resource[k] = r
       /\ Command(k, [rows[k] EXCEPT !.state = "dismissed",
                                     !.left = IF days > 0 THEN days ELSE NoDeadline])
  /\ UNCHANGED <<mem, rows, scan, told, silence>>

CliResolve(r) ==
  /\ ~cli.busy
  /\ \E k \in Present(rows) :
       /\ Resource[k] = r /\ rows[k].state # "resolved"
       /\ Command(k, [rows[k] EXCEPT !.state = "resolved"])
  /\ UNCHANGED <<mem, rows, scan, told, silence>>

CliWrite(k) ==
  /\ cli.busy /\ First(k, cli.todo)
  /\ Writable(k)
  /\ rows' = [rows EXCEPT ![k] = cli.copy[k]]
  /\ cli' = [cli EXCEPT !.todo = @ \ {k}]
  /\ UNCHANGED <<mem, scan, told, decision, silence>>

(* A write fails or the command is interrupted: it exits, the other rows   *)
(* stay as they are.                                                       *)
CliStops ==
  /\ cli.busy
  /\ cli' = Idle
  /\ UNCHANGED <<mem, rows, scan, told, decision, silence>>

Lasting(e) == IF e.state = "dismissed" /\ e.left # NoDeadline THEN "none" ELSE e.state

(* All rows written: the command confirms to the operator.                 *)
CliConfirms ==
  /\ cli.busy /\ cli.todo = {}
  /\ cli' = Idle
  /\ decision' = [decision EXCEPT ![cli.key] = Lasting(cli.copy[cli.key])]
  /\ UNCHANGED <<mem, rows, scan, told, silence>>

-----------------------------------------------------------------------------
(* The world.                                                              *)

DaysLeft(n) == IF n > 0 THEN n - 1 ELSE n

Older(e) ==
  IF e.state = "absent" THEN e
  ELSE [e EXCEPT !.age = Cap(@ + 1, MaxAge), !.left = DaysLeft(@)]

Tick ==
  /\ mem' = [k \in Entries |-> Older(mem[k])]
  /\ rows' = [k \in Entries |-> Older(rows[k])]
  /\ cli' = [cli EXCEPT !.copy = [k \in Entries |-> Older(@[k])]]
  /\ promise' = [k \in Entries |-> DaysLeft(promise[k])]
  /\ forgotten' = {k \in forgotten : promise'[k] # 0}
  /\ UNCHANGED <<scan, told, decision>>

Scan == \/ StartScan
        \/ \E k \in Entries : Observe(k)
        \/ SendOK
        \/ \E delivered \in BOOLEAN : SendError(delivered)
        \/ ScanDone
        \/ \E k \in Entries : SaveOK(k) \/ SaveError(k)
        \/ SaveDone

Cli == \/ \E k \in Entries, d \in DismissDays : CliDismiss(Resource[k], d)
       \/ \E k \in Entries : CliResolve(Resource[k])
       \/ \E k \in Entries : CliWrite(k)
       \/ CliStops
       \/ CliConfirms

Next == \/ Scan
        \/ Cli
        \/ Restart
        \/ RestartUnread
        \/ Tick

Spec == Init /\ [][Next]_vars

(* Days pass, the ticker keeps starting scans and a scan always ends.  A   *)
(* query, a send and the write of a row that are tried for ever succeed    *)
(* for ever.  Nothing is assumed of the operator or of restarts.           *)
Fairness ==
  /\ WF_vars(Tick)
  /\ WF_vars(Scan)
  /\ \A k \in Entries :
       /\ SF_vars(SendOK /\ cur = k)
       /\ SF_vars(SaveOK(k))

LiveSpec == Spec /\ Fairness

-----------------------------------------------------------------------------
(* Safety.                                                                 *)

(* A message about entry k reaches the operator.                           *)
Delivered(k) == told # k /\ told' = k

(* A silence the rows held when the daemon started is kept: until the      *)
(* deadline no message goes out about the entry, across scans, other       *)
(* commands and further restarts (TestWasteDismissSurvivesRestartAnd-      *)
(* RevivesAfterDeadline in waste_wiring_test.go tries one such sequence).  *)
(* Except for a restart that cannot read the rows: contrary to "重啟不丟   *)
(* dismiss/resolve" (daemon.go:450) it goes on with an empty Tracker, so   *)
(* the next scan announces a dismissed entry and writes over its row.  It  *)
(* forgets every promise then running, until a later start reads the row   *)
(* and finds it dismissed still.                                           *)
PromiseKept == pc = "send" => promise[cur] = 0 \/ cur \in forgotten

(* Whatever the daemon and a command in progress still have to write, a    *)
(* crash never loses a dismissal the daemon had taken over: its row says   *)
(* dismissed, or resolved since.                                           *)
DismissalSurvivesCrash ==
  \A k \in Entries : mem[k].state = "dismissed"
                       => rows[k].state \in {"dismissed", "resolved"}

-----------------------------------------------------------------------------
(* The inductive invariant behind the properties above.                    *)

(* What a command in progress will write cannot undo a dismissal that the  *)
(* daemon or the table knows of: it was loaded after it.                   *)
CommandIsCurrent ==
  cli.busy => \A k \in cli.todo :
    "dismissed" \in {mem[k].state, rows[k].state}
      => cli.copy[k].state \in {"dismissed", "resolved"}

(* A promise still running and not forgotten is the dismissal in the       *)
(* daemon's memory.                                                        *)
PromiseInMemory ==
  \A k \in Entries \ forgotten : promise[k] # 0
                       => mem[k].state = "dismissed" /\ mem[k].left = promise[k]

SendInv == pc = "send" => mem[cur].state \in {"notified", "renoted"}

IInv == TypeOK /\ DismissalSurvivesCrash /\ CommandIsCurrent /\ PromiseInMemory
        /\ SendInv

-----------------------------------------------------------------------------
(* Liveness, once the daemon no longer restarts and the operator is quiet. *)

Calm == <>[][~Restart /\ ~RestartUnread]_vars /\ <>[]~cli.busy

(* A candidate with notify_every that every scan finds is brought up again *)
(* and again: a lost message, a dismissal that has run out and days of     *)
(* failed sends only delay it.  Only a dismissal for good ends it.         *)
RemindedAgain ==
  \A k \in Entries :
    /\ Renotify[k] > 0
    /\ Calm
    /\ <>[][StartScan => k \in cands']_vars
    /\ <>[]~(mem[k].state = "dismissed" /\ mem[k].left = NoDeadline)
    => []<><<Delivered(k)>>_vars

(* The table catches up with the Tracker, although a write may fail in any *)
(* scan and rows before it may never be written at all.                    *)
RowsCatchUp ==
  \A k \in Entries :
    Renotify[k] > 0 /\ Calm /\ <>[](mem[k].state # "absent")
      => []<>(rows[k] = mem[k])

-----------------------------------------------------------------------------
(* What the documents and comments say and the code does not do.           *)

(* waste_cli.go: dismiss and resolve are written back, "daemon 重啟後狀態  *)
(* 一致".  A running daemon does not see them; its next scan writes its    *)
(* own entries over them, and after the restart the decision is gone.      *)
DecisionSurvivesRestart ==
  [][Restart => \A k \in Entries :
       decision[k] \in {"none", mem'[k].state}]_vars

=============================================================================
