----------------------------- MODULE SentinelGen -----------------------------
(***************************************************************************)
(* The command line tool sentinel-gen (cmd/sentinel-gen): generate writes  *)
(* a definition file with the help of a language model, review and verify  *)
(* judge one, fix has the model rewrite it until it passes.  They work on  *)
(* a file somebody may have open in an editor, read it again at each step, *)
(* write it in place, and may be killed at any point.                      *)
(*                                                                         *)
(* A text is what the code can tell of it: the family its header names,    *)
(* whether the loader of that family accepts it, who wrote it, and whether *)
(* it is whole.                                                            *)
(***************************************************************************)
EXTENDS Naturals

CONSTANTS
  Family,      \* the family of the file: capacity, slo or waste
  MaxRounds,   \* -rounds
  MaxRuns,     \* commands (bound)
  MaxSaves     \* times the file is saved by hand (bound)

ASSUME GenConstantsOK ==
  /\ Family \in {"capacity", "slo", "waste"}
  /\ MaxRounds \in Nat \ {0} /\ MaxRuns \in Nat /\ MaxSaves \in Nat

VARIABLES
  file,     \* the definition file
  bak,      \* the file with .bak appended
  command,  \* the last command
  flag,     \* its -kind
  pc,       \* where it is; idle when it has ended
  round,    \* round of fix
  kind,     \* k of the code: the family the text is taken for
  held,     \* content: the text read at the beginning of the round
  fixed,    \* yamlOut, fixed: the text of the model
  verdict,  \* what the command reported
  began,    \* history: the file at the beginning of the command
  touched,  \* history: somebody else saved the file during the command
  runs,     \* bound: commands so far
  saves     \* bound: saves so far

memory  == <<kind, held, fixed>>
bounds  == <<runs, saves>>
genVars == <<file, bak, command, flag, pc, round, memory, verdict, began, touched, bounds>>

AutoKind  == "auto"                        \* -kind not given
Commands  == {"generate", "review", "verify", "fix"}
GenLabels == {"idle", "read", "validate", "ask", "backup", "copy", "open", "write",
              "final", "opinion", "collect", "live"}
Verdicts  == {"none", "written", "reviewed", "ready", "passed", "failed", "still bad"}

Text(by, whole) == [family : {Family, "none"}, sound : BOOLEAN, by : by, whole : whole]

Whole == Text({"user", "model"}, {TRUE})
Empty == [family |-> "none", sound |-> TRUE, by |-> "nobody", whole |-> FALSE]
Torn  == {Empty, [Empty EXCEPT !.family = Family, !.sound = FALSE]}
NoFile == [Empty EXCEPT !.sound = FALSE]
Texts == Whole \cup Torn \cup {NoFile}

GenTypeOK ==
  /\ file \in Texts /\ bak \in Texts
  /\ command \in Commands
  /\ flag \in {AutoKind, Family}
  /\ pc \in GenLabels
  /\ round \in 0..(MaxRounds + 1)
  /\ kind \in {AutoKind, Family, "waste"}
  /\ held \in Texts /\ fixed \in Texts
  /\ verdict \in Verdicts
  /\ began \in Texts
  /\ touched \in BOOLEAN
  /\ runs \in 0..MaxRuns /\ saves \in 0..MaxSaves

GenInit ==
  /\ file \in {t \in Whole : t.by = "user"} \cup {NoFile}
  /\ bak = NoFile
  /\ command = "review"
  /\ flag = AutoKind
  /\ pc = "idle"
  /\ round = 0
  /\ kind = AutoKind
  /\ held = NoFile /\ fixed = NoFile
  /\ verdict = "none"
  /\ began = NoFile
  /\ touched = FALSE
  /\ runs = 0 /\ saves = 0

-----------------------------------------------------------------------------
(* Judging a text.                                                         *)

(* A text without the header of another family is taken for waste rules.   *)
DetectKind(t) == IF t.family = "none" THEN "waste" ELSE t.family

(* Whether staticValidate finds no error: the family's loader accepts the  *)
(* text and finds something in it; without waste rules there is but a      *)
(* warning.  A family it does not know is an error.                        *)
Accepts(t, k) == /\ k # AutoKind
                 /\ t.sound
                 /\ t.family = k \/ k = "waste"

(* Mutant: a text without anything to verify is taken for verified.        *)
HasExprsAlways(t, k) == TRUE

HasExprs(t, k) == t.family = k

-----------------------------------------------------------------------------
(* The commands.                                                           *)

Goto(label) == pc' = label /\ UNCHANGED verdict
Report(v)   == pc' = "idle" /\ verdict' = v

Start(c, f) ==
  /\ pc = "idle" /\ runs < MaxRuns
  /\ command' = c
  /\ flag' = f
  /\ pc' = IF c = "generate" THEN "ask" ELSE "read"
  /\ round' = 1
  /\ kind' = AutoKind /\ held' = NoFile /\ fixed' = NoFile
  /\ verdict' = "none"
  /\ began' = file
  /\ touched' = FALSE
  /\ runs' = runs + 1
  /\ UNCHANGED <<file, bak, saves>>

Read ==
  /\ pc = "read" /\ file # NoFile
  /\ Goto("validate")
  /\ held' = file
  /\ kind' = IF flag = AutoKind THEN DetectKind(file) ELSE flag
  /\ UNCHANGED <<file, bak, command, flag, round, fixed, began, touched, bounds>>

(* staticValidate reads the file once more.                                *)
Validate ==
  /\ pc = "validate"
  /\ LET ok == Accepts(file, kind) IN
     \/ command = "fix"    /\ ok  /\ Report("passed")
     \/ command = "fix"    /\ ~ok /\ Goto("ask")
     \/ command = "review" /\ ok  /\ Goto("opinion")
     \/ command = "verify" /\ ok  /\ Goto("collect")
     \/ command # "fix"    /\ ~ok /\ Report("failed")
  /\ UNCHANGED <<file, bak, command, flag, round, memory, began, touched, bounds>>

(* The second opinion of review, which may be missing.                     *)
Opinion(needsFix) ==
  /\ pc = "opinion"
  /\ Report(IF needsFix THEN "failed" ELSE "reviewed")
  /\ UNCHANGED <<file, bak, command, flag, round, memory, began, touched, bounds>>

(* verify reads the expressions, in a third reading of the file, ...       *)
Collect ==
  /\ pc = "collect"
  /\ IF HasExprs(file, kind) /\ file.sound THEN Goto("live") ELSE Report("failed")
  /\ UNCHANGED <<file, bak, command, flag, round, memory, began, touched, bounds>>

(* ... and asks Prometheus for every one.                                  *)
LiveCheck(allVectors) ==
  /\ pc = "live"
  /\ Report(IF allVectors THEN "ready" ELSE "failed")
  /\ UNCHANGED <<file, bak, command, flag, round, memory, began, touched, bounds>>

(* The model answers, within two minutes, with any text.                   *)
Answer(t) ==
  /\ pc = "ask"
  /\ Goto(IF command = "generate" THEN "open" ELSE "backup")
  /\ fixed' = t
  /\ UNCHANGED <<file, bak, command, flag, round, kind, held, began, touched, bounds>>

(* A call fails, or the answer is empty: the command ends where it is.     *)
Fails ==
  /\ pc \in {"read", "ask", "backup", "copy", "open", "write"}
  /\ Report("failed")
  /\ UNCHANGED <<file, bak, command, flag, round, memory, began, touched, bounds>>

-----------------------------------------------------------------------------
(* Writing: WriteFile truncates, then writes.                              *)

BackupOpen ==
  /\ pc = "backup"
  /\ Goto("copy")
  /\ bak' \in Torn
  /\ UNCHANGED <<file, command, flag, round, memory, began, touched, bounds>>

(* Mutant: the model's text is what is kept as .bak.                       *)
BackupFixed ==
  /\ pc = "copy"
  /\ Goto("open")
  /\ bak' = fixed
  /\ UNCHANGED <<file, command, flag, round, memory, began, touched, bounds>>

BackupWrite ==
  /\ pc = "copy"
  /\ Goto("open")
  /\ bak' = held
  /\ UNCHANGED <<file, command, flag, round, memory, began, touched, bounds>>

FileOpen ==
  /\ pc = "open"
  /\ Goto("write")
  /\ file' \in Torn
  /\ UNCHANGED <<bak, command, flag, round, memory, began, touched, bounds>>

(* Mutant: the round is not counted.                                       *)
FileWriteUncounted ==
  /\ pc = "write"
  /\ file' = fixed
  /\ \/ command = "generate" /\ Report("written")
     \/ command = "fix" /\ Goto("read")
  /\ UNCHANGED <<bak, command, flag, round, memory, began, touched, bounds>>

FileWrite ==
  /\ pc = "write"
  /\ file' = fixed
  /\ round' = round + 1
  /\ \/ command = "generate" /\ Report("written")
     \/ command = "fix" /\ round < MaxRounds /\ Goto("read")
     \/ command = "fix" /\ round >= MaxRounds /\ Goto("final")
  /\ UNCHANGED <<bak, command, flag, memory, began, touched, bounds>>

(* The check after the last round passes -kind, given or not.              *)
FinalCheck ==
  /\ pc = "final"
  /\ Report(IF Accepts(file, flag) THEN "passed" ELSE "still bad")
  /\ UNCHANGED <<file, bak, command, flag, round, memory, began, touched, bounds>>

-----------------------------------------------------------------------------
(* Around the commands.                                                    *)

(* The command is killed.                                                  *)
Killed ==
  /\ pc # "idle"
  /\ Report("none")
  /\ UNCHANGED <<file, bak, command, flag, round, memory, began, touched, bounds>>

(* Somebody saves the file in an editor.                                   *)
Save(t) ==
  /\ saves < MaxSaves
  /\ t.by = "user"
  /\ file' = t
  /\ saves' = saves + 1
  /\ touched' = TRUE
  /\ UNCHANGED <<bak, command, flag, pc, round, memory, verdict, began, runs>>

Step == \/ Read \/ Validate
        \/ \E needsFix \in BOOLEAN : Opinion(needsFix)
        \/ Collect
        \/ \E allVectors \in BOOLEAN : LiveCheck(allVectors)
        \/ \E t \in {t \in Whole : t.by = "model"} : Answer(t)
        \/ Fails
        \/ BackupOpen \/ BackupWrite \/ FileOpen \/ FileWrite
        \/ FinalCheck

GenNext ==
  \/ \E c \in Commands, f \in {AutoKind, Family} : Start(c, f)
  \/ Step
  \/ Killed
  \/ \E t \in Whole : Save(t)

GenSpec == GenInit /\ [][GenNext]_genVars

(* Every call of a command returns: those to the model and to Prometheus   *)
(* have a timeout.                                                         *)
GenLiveSpec == GenSpec /\ WF_genVars(Step)

-----------------------------------------------------------------------------
(* Safety.                                                                 *)

(* While a command runs it has reported nothing; the checks of a file that *)
(* nobody else saves are of the text they were made for.                   *)
InCommand ==
  pc # "idle" =>
    /\ verdict = "none"
    /\ pc # "final" => round \in 1..MaxRounds
    /\ pc \in {"backup", "copy", "final"} => command = "fix"
    /\ pc = "ask" => command \in {"generate", "fix"}
    /\ ~touched =>
         /\ pc = "validate" => kind = IF flag = AutoKind THEN DetectKind(file) ELSE flag
         /\ pc = "opinion" => Accepts(file, IF flag = AutoKind THEN DetectKind(file) ELSE flag)
         /\ pc = "live" => HasExprs(file, kind) /\ file.sound

(* Where the whole text is while fix rewrites a file that was whole.       *)
CopySoFar ==
  command = "fix" /\ began.whole /\ pc # "idle" =>
    /\ pc # "write" => file.whole
    /\ pc \in {"backup", "copy", "open", "write"} => fixed.whole
    /\ pc \in {"validate", "ask", "backup", "copy", "open", "write"} => held.whole
    /\ pc \in {"open", "write"} => bak = held

(* Wherever fix stops, killed or failed between truncating a file and      *)
(* writing it, and whoever saves the file meanwhile, the file is whole, or *)
(* its .bak has the text the round began with (cmdFix); a fix that begins  *)
(* with what a killed one left has no whole text to keep.                  *)
WholeCopyLeft ==
  command = "fix" /\ began.whole => file.whole \/ (bak = held /\ held.whole)

(* "READY TO APPLY" is said only of a file that the family's loader        *)
(* accepts and that defines something, not of one a killed command left    *)
(* empty or the model wrote without a header, although detectKind takes    *)
(* both for waste rules and staticValidate passes them (cmdVerify).        *)
ReadyIsLoadable ==
  verdict = "ready" /\ ~touched => file.family = kind /\ file.sound

(* What fix and review call sound is accepted by the loader of the family, *)
(* after any number of rewrites (cmdFix, cmdReview).                       *)
PassedIsAccepted ==
  verdict \in {"passed", "reviewed"} /\ ~touched
    => Accepts(file, IF flag = AutoKind THEN DetectKind(file) ELSE flag)

GenInv ==
  GenTypeOK /\ InCommand /\ CopySoFar /\ WholeCopyLeft /\ ReadyIsLoadable /\ PassedIsAccepted

-----------------------------------------------------------------------------
(* Liveness.                                                               *)

(* Every command ends, whatever the model answers.                         *)
CommandsEnd == []<>(pc = "idle")

=============================================================================
