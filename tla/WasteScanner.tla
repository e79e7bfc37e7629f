---------------------------- MODULE WasteScanner ----------------------------
(***************************************************************************)
(* The scan for idle resources (internal/waste Scanner.Scan), with the     *)
(* client it asks Prometheus through (internal/query), on the catalog that *)
(* the loader leaves to the daemon.  For every alert of the kind waste it  *)
(* asks for the series of the rule's expression, a sample a day over the   *)
(* window of the rule, and judges the first series of the answer.          *)
(*                                                                         *)
(* What a resource really did on a day is "idle" or "busy", or nobody      *)
(* knows ("gap").  What Prometheus makes of it depends on the form of the  *)
(* expression: a comparison with bool has the sample 1 or 0; a comparison  *)
(* without it has the measured value as its sample when it holds, and none *)
(* when it does not.                                                       *)
(***************************************************************************)
EXTENDS RuleCatalog

CONSTANTS
  Answers(_)  \* some answers for a window of n days (bound)

Truths   == {"idle", "busy", "gap"}
ExprForms == {"bool", "high", "low"}
Day      == Seconds["d"]
Attempts == 3                       \* New

VARIABLES
  scanning,  \* the rules the scan has yet to ask for, with their places in one catalog
  attempt,   \* the attempt that is under way
  last       \* what was said last of a rule, and on which grounds

scanVars == <<scanning, attempt, last>>
ruleVars == <<catalogVars, scanVars>>

Nothing == [rule |-> "none"]

ScanInit == CatalogInit /\ scanning = {} /\ attempt = 1 /\ last = Nothing

-----------------------------------------------------------------------------
(* RulesOfKind, and only the alerts of them: each with its place.          *)
WasteAlerts ==
  UNION {{[file |-> f, index |-> i, rule |-> catalog[f][i].rule] :
            i \in {j \in DOMAIN catalog[f] : catalog[f][j].kind = "waste" /\ catalog[f][j].rule.alert}} :
         f \in Names}

Window(r) == IF Parse(r.for) > 0 THEN Parse(r.for) ELSE 14 * Day

(* A sample a day from the first instant of the window to the last.        *)
Days(r) == (Window(r) \div Day) + 1

(* The samples of a series, by their days.                                 *)
Samples(r, truths) ==
  LET sample(t) == CASE r.form = "bool" -> IF t = "idle" THEN 1 ELSE 0
                     [] r.form = "high" -> 1
                     [] r.form = "low"  -> 0
      present == {d \in DOMAIN truths : truths[d] # "gap" /\ (truths[d] = "idle" \/ r.form = "bool")}
  IN [d \in present |-> sample(truths[d])]

(* Series without samples are not in the answer.                           *)
Answered(r, series) == {i \in DOMAIN series : DOMAIN Samples(r, series[i]) # {}}

(* Mutant: the newest sample decides.                                      *)
JudgeNewest(r, series) ==
  LET first == Samples(r, series[Min(Answered(r, series))]) IN
  IF Answered(r, series) = {} THEN "nothing"
  ELSE IF first[Max(DOMAIN first)] >= 1 THEN "candidate" ELSE "busy"

(* The first series decides; a sample is true from 0.5.                    *)
Judge(r, series) ==
  LET first == Samples(r, series[Min(Answered(r, series))]) IN
  IF Answered(r, series) = {} THEN "nothing"
  ELSE IF \A d \in DOMAIN first : first[d] >= 1 THEN "candidate" ELSE "busy"

-----------------------------------------------------------------------------
NoScan == scanning = {}

(* The scan goes through the files, and through each from top to bottom.   *)
IsNext(e) ==
  e \in scanning /\ \A g \in scanning \ {e} : e.file < g.file \/ (e.file = g.file /\ e.index < g.index)

Say(e, outcome, series) ==
  /\ last' = [rule |-> e.rule, window |-> Window(e.rule), outcome |-> outcome,
               series |-> series, attempt |-> attempt]
  /\ scanning' = scanning \ {e} /\ attempt' = 1

ScanStart ==
  /\ NoScan /\ extras < MaxExtras
  /\ scanning' = WasteAlerts
  /\ last' = Nothing
  /\ extras' = extras + 1
  /\ UNCHANGED <<disk, sync, load, routes, history, syncs, attempt>>

(* get: a transport error or a 5xx is tried again.                         *)
TryAgain(e) ==
  IF attempt < Attempts
  THEN attempt' = attempt + 1 /\ last' = Nothing /\ UNCHANGED scanning
  ELSE Say(e, "failed", <<>>)

(* A 4xx, a body that is no JSON, a status other than success.             *)
Refused(e) == Say(e, "refused", <<>>)

(* Series with a truth for every day of the window.                        *)
Series(n) == Answers(n) \cap Seq([1..n -> Truths])

Answer(e, series) == Say(e, Judge(e.rule, series), series)

Ask ==
  \E e \in scanning :
    /\ IsNext(e)
    /\ TryAgain(e) \/ Refused(e) \/ \E series \in Series(Days(e.rule)) : Answer(e, series)

ScanNext == (CatalogNext /\ UNCHANGED scanVars) \/ ScanStart \/ (Ask /\ UNCHANGED catalogVars)
ScanSpec == ScanInit /\ [][ScanNext]_ruleVars

-----------------------------------------------------------------------------
(* Properties.                                                             *)

Outcomes == {"candidate", "busy", "nothing", "failed", "refused"}

Scanned == [file : Names, index : Nat, rule : Rules]

ScanTypeOK ==
  /\ CatalogTypeOK
  /\ scanning \in SUBSET Scanned
  /\ attempt \in 1..Attempts
  /\ last = Nothing \/ last.outcome \in Outcomes

(* A rule is scanned only if it is an alert and its label says waste: what *)
(* the heuristics make of a rule counts once it is on disk as a label, and *)
(* never because the daemon guessed.                                       *)
ScansTheLabelled == \A e \in scanning : e.rule.kind = "waste" /\ e.rule.alert

(* The catalog never claims a release that has not been stamped, and no    *)
(* stamp is of a release that was not fetched.                             *)
VersionTrails == version <= commit /\ commit <= pulled

(* From the release to the scan: a rule keeps the kind it was meant to     *)
(* have (RuleCatalog), and no other rule is scanned.                       *)
RoutedToTheScan == ScanTypeOK /\ SyncedIsRouted /\ ScansTheLabelled /\ VersionTrails

(* A rule is judged over the days that its text means, fourteen when it    *)
(* means none.  Where every day of one series of a comparison with bool is *)
(* known, the resource is a candidate if and only if it was idle on every  *)
(* one of them; and no rule is given up before three attempts, unless it   *)
(* was refused.  Whatever the form of the expression, no candidate was     *)
(* busy on every day.                                                      *)
ExpectedWindow(r) == IF Means(r.for) > 0 THEN Means(r.for) ELSE 14 * Seconds["d"]

JudgedRight ==
  last # Nothing =>
    /\ last.window = ExpectedWindow(last.rule)
    /\ last.outcome = "failed" => last.attempt = 3
    /\ last.outcome = "candidate" =>
         \E i \in DOMAIN last.series : \E d \in DOMAIN last.series[i] : last.series[i][d] = "idle"
    /\ /\ last.rule.form = "bool" /\ Len(last.series) = 1
       /\ \A d \in DOMAIN last.series[1] : last.series[1][d] # "gap"
       => (last.outcome = "candidate" <=> \A d \in DOMAIN last.series[1] : last.series[1][d] = "idle")

=============================================================================
