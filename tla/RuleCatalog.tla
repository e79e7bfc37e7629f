----------------------------- MODULE RuleCatalog -----------------------------
(***************************************************************************)
(* Where the rules come from and how they get their kind                   *)
(* (internal/catalog, cmd/ruleclassify, scripts/sync-community.sh): the    *)
(* script copies the files of the selected services over those of          *)
(* rules.d/community, a tool labels the rules in them, one file after the  *)
(* other; people edit the same files; the daemon loads the directory, one  *)
(* file after the other, whenever something in it has changed.             *)
(*                                                                         *)
(* A rule is what the code can tell of it: the marks that the heuristics   *)
(* look for, the value of its label sentinel_kind and who wrote it, and    *)
(* what the scan needs to know.                                            *)
(***************************************************************************)
EXTENDS PromDuration

CONSTANTS
  Releases,   \* versions of the upstream repository: a file for each name
  Promtool,   \* promtool is installed
  HasGo,      \* Go is installed where the script runs
  MaxSyncs,   \* runs of the script (bound)
  MaxExtras   \* edits by hand, faults, and scans of the daemon (bound)

Kinds == {"budget", "capacity", "waste"}
NoKind == "none"                          \* KindNone
Marks == {"sloth expr", "sloth_ label", "sloth label", "sentinel_ record", "sentinel_sensor",
          "idle text", "day window", "idle metric", "null labels"}

N == Len(Releases[1])
Names == 1..N                             \* in the order of WalkDir

NoFile == [form |-> "none", rules |-> <<>>]
Empty  == [form |-> "empty", rules |-> <<>>]

(* "invalid" is what only promtool rejects.                                *)
Forms == {"none", "empty", "broken", "rules", "invalid"}

(* The label of a rule is missing, blank, a kind, or any other text.       *)
Rules == [marks : SUBSET Marks, kind : Kinds \cup {"absent", "blank", "other"},
          by : {"upstream", "tool", "hand"}, for : Texts, alert : BOOLEAN, form : STRING]

Contents == [form : Forms, rules : Seq(Rules)]

ASSUME CatalogConstantsOK ==
  /\ Releases \in Seq([Names -> Contents]) /\ Releases # <<>> /\ N \in Nat \ {0}
  /\ \A v \in DOMAIN Releases, f \in Names :
       \A i \in DOMAIN Releases[v][f].rules : Releases[v][f].rules[i].by = "upstream"
  /\ Promtool \in BOOLEAN /\ HasGo \in BOOLEAN
  /\ MaxSyncs \in Nat /\ MaxExtras \in Nat

VARIABLES
  files,    \* rules.d/community
  commit,   \* the version in UPSTREAM_COMMIT, 0 for none
  pulled,   \* the version of .community-upstream
  script,   \* where the script is: its step, and the file it is at
  held,     \* the file as the tool will write it
  touched,  \* history: somebody wrote that file since the tool read it
  loader,   \* the file Load is at, 0 when it does not run
  loaded,   \* what Load has found so far
  catalog,  \* d.lastCatalog: the rules of each file, with their kinds
  version,  \* its Version
  synced,   \* history: no fault and no other writer since the script began
  current,  \* history: nobody wrote to them since the last Load began
  syncs,    \* bound
  extras    \* bound

disk    == <<files, commit>>
sync    == <<pulled, script, held, touched>>
load    == <<loader, loaded>>
routes  == <<catalog, version>>
history == <<synced, current>>
bounds  == <<syncs, extras>>
catalogVars == <<disk, sync, load, routes, history, bounds>>

SyncSteps == {"idle", "copy", "read", "write", "stamp"}

CatalogInit ==
  /\ files = [f \in Names |-> NoFile]
  /\ commit = 0 /\ pulled = 1
  /\ script = [step |-> "idle", at |-> 1] /\ held = NoFile /\ touched = FALSE
  /\ loader = 0 /\ loaded = [f \in Names |-> <<>>]
  /\ catalog = [f \in Names |-> <<>>] /\ version = 0
  /\ synced = FALSE /\ current = FALSE
  /\ syncs = 0 /\ extras = 0

-----------------------------------------------------------------------------
(* Kinds.                                                                  *)

Has(r, marks) == r.marks \cap marks # {}

(* SuggestKind.                                                            *)
SuggestKind(r) ==
  IF Has(r, {"sloth expr", "sloth_ label"}) THEN "budget"
  ELSE IF Has(r, {"idle text", "day window", "idle metric"}) \/ Parse(r.for) >= 7 * Seconds["d"]
  THEN "waste"
  ELSE NoKind

(* Mutant: the first that applies, the label last.                         *)
ClassifyByContent(r) ==
  IF Has(r, {"sloth_ label", "sloth label"}) THEN "budget"
  ELSE IF Has(r, {"sentinel_ record", "sentinel_sensor"}) THEN "capacity"
  ELSE IF r.kind \in Kinds THEN r.kind ELSE NoKind

(* A label that says nothing known, but is not blank, means no kind.       *)
Classify(r) ==
  IF r.kind \notin {"absent", "blank"} THEN IF r.kind \in Kinds THEN r.kind ELSE NoKind
  ELSE IF Has(r, {"sloth_ label", "sloth label"}) THEN "budget"
  ELSE IF Has(r, {"sentinel_ record", "sentinel_sensor"}) THEN "capacity"
  ELSE NoKind

(* Mutant: a label that is there already is written again.                 *)
LabelsAnyway(r) == SuggestKind(r) # NoKind

(* classifyRuleNode: a label that is there, even a blank one, stays.       *)
Labels(r) == r.kind = "absent" /\ SuggestKind(r) # NoKind

(* A null node under labels counts as labelled, and loses the label.       *)
Labelled(r) ==
  IF ~Labels(r) \/ Has(r, {"null labels"}) THEN r
  ELSE [r EXCEPT !.kind = SuggestKind(r), !.by = "tool"]

LabelledFile(c) == [c EXCEPT !.rules = [i \in DOMAIN c.rules |-> Labelled(c.rules[i])]]

-----------------------------------------------------------------------------
(* sync-community.sh and ruleclassify.                                     *)

At(step)         == script.step = step
Goto(step, f)    == script' = [step |-> step, at |-> f]
NextFile(step, after) == IF script.at = N THEN Goto(after, 1) ELSE Goto(step, script.at + 1)
Stop             == Goto("idle", 1)

Write(f, c) ==
  /\ files' = [files EXCEPT ![f] = c]
  /\ current' = (current /\ c = files[f])

Pull(v) ==
  /\ At("idle") /\ syncs < MaxSyncs
  /\ v \in pulled..Len(Releases)
  /\ pulled' = v
  /\ Goto("copy", 1)
  /\ synced' = HasGo
  /\ syncs' = syncs + 1
  /\ UNCHANGED <<disk, held, touched, load, routes, current, extras>>

(* cp -f; a file that has left the release stays where it is.              *)
Copy ==
  /\ At("copy")
  /\ LET c == Releases[pulled][script.at] IN
     IF c = NoFile THEN UNCHANGED <<files, current>> ELSE Write(script.at, c)
  /\ NextFile("copy", IF HasGo THEN "read" ELSE "stamp")
  /\ UNCHANGED <<commit, pulled, held, touched, load, routes, synced, bounds>>

(* AutoClassifyFile up to the Marshal: a text that is no YAML, or empty,   *)
(* ends the tool, and the script with it.                                  *)
ReadFile ==
  /\ At("read")
  /\ LET c == files[script.at] IN
     \/ /\ c.form \in {"broken", "empty"}
        /\ Stop /\ synced' = FALSE /\ UNCHANGED <<held, touched>>
     \/ /\ c.form \in {"rules", "invalid"} /\ \E i \in DOMAIN c.rules : Labels(c.rules[i])
        /\ held' = LabelledFile(c)
        /\ touched' = FALSE
        /\ Goto("write", script.at) /\ UNCHANGED synced
     \/ /\ c.form \in {"none", "rules", "invalid"} /\ \A i \in DOMAIN c.rules : ~Labels(c.rules[i])
        /\ NextFile("read", "stamp") /\ UNCHANGED <<held, touched, synced>>
  /\ UNCHANGED <<disk, pulled, load, routes, current, bounds>>

WriteFile ==
  /\ At("write")
  /\ Write(script.at, held)
  /\ NextFile("read", "stamp")
  /\ held' = NoFile /\ touched' = FALSE
  /\ UNCHANGED <<commit, pulled, load, routes, synced, bounds>>

Stamp ==
  /\ At("stamp")
  /\ commit' = pulled
  /\ Stop
  /\ UNCHANGED <<files, pulled, held, touched, load, routes, history, bounds>>

(* The file the script was writing is left as it is.                       *)
Kill(torn) ==
  /\ ~At("idle") /\ extras < MaxExtras
  /\ torn = files[script.at] \/ At("copy") \/ At("write")
  /\ Write(script.at, torn)
  /\ Stop /\ held' = NoFile /\ touched' = FALSE
  /\ synced' = FALSE
  /\ extras' = extras + 1
  /\ UNCHANGED <<commit, pulled, load, routes, syncs>>

(* Somebody writes a label.                                                *)
Relabelled(c, i, k) ==
  LET r == [c.rules[i] EXCEPT !.kind = k, !.by = "hand"]
  IN [c EXCEPT !.rules = [c.rules EXCEPT ![i] = r]]

Edit(f, i, k) ==
  /\ extras < MaxExtras
  /\ Write(f, Relabelled(files[f], i, k))
  /\ touched' = (touched \/ (At("write") /\ f = script.at))
  /\ synced' = FALSE
  /\ extras' = extras + 1
  /\ UNCHANGED <<commit, pulled, script, held, load, routes, syncs>>

-----------------------------------------------------------------------------
(* Load.                                                                   *)

LoadStart ==
  /\ loader = 0
  /\ loader' = 1
  /\ loaded' = [f \in Names |-> <<>>]
  /\ current' = TRUE
  /\ UNCHANGED <<disk, sync, routes, synced, bounds>>

ParseFile(c) == [i \in DOMAIN c.rules |-> [rule |-> c.rules[i], kind |-> Classify(c.rules[i])]]

Accepted(c) == c.form = "rules" \/ (c.form = "invalid" /\ ~Promtool)

NextLoad == loader' = loader + 1

(* A file that cannot be parsed, or does not pass promtool, contributes    *)
(* nothing.                                                                *)
Found(c) == IF Accepted(c) THEN ParseFile(c) ELSE <<>>

LoadFile ==
  /\ loader \in Names
  /\ loaded' = [loaded EXCEPT ![loader] = Found(files[loader])]
  /\ NextLoad
  /\ UNCHANGED <<disk, sync, routes, history, bounds>>

(* promtool is given thirty seconds.                                       *)
PromtoolTooSlow ==
  /\ loader \in Names /\ Promtool /\ extras < MaxExtras
  /\ NextLoad
  /\ current' = FALSE
  /\ extras' = extras + 1
  /\ UNCHANGED <<disk, sync, loaded, routes, synced, syncs>>

LoadEnd ==
  /\ loader = N + 1
  /\ loader' = 0
  /\ catalog' = loaded /\ version' = commit
  /\ loaded' = [f \in Names |-> <<>>]
  /\ UNCHANGED <<disk, sync, history, bounds>>

CatalogNext ==
  \/ \E v \in DOMAIN Releases : Pull(v)
  \/ Copy \/ ReadFile \/ WriteFile \/ Stamp
  \/ \E torn \in {files[script.at], Empty} : Kill(torn)
  \/ \E f \in Names : \E i \in DOMAIN files[f].rules : Edit(f, i, "capacity")
  \/ LoadStart \/ LoadFile \/ PromtoolTooSlow \/ LoadEnd

-----------------------------------------------------------------------------
(* Properties.                                                             *)

Entry == [rule : Rules, kind : Kinds \cup {NoKind}]

CatalogTypeOK ==
  /\ files \in [Names -> Contents] /\ held \in Contents
  /\ commit \in 0..Len(Releases) /\ pulled \in DOMAIN Releases
  /\ script \in [step : SyncSteps, at : Names]
  /\ loader \in 0..(N + 1)
  /\ loaded \in [Names -> Seq(Entry)] /\ catalog \in [Names -> Seq(Entry)]
  /\ version \in 0..Len(Releases)
  /\ touched \in BOOLEAN /\ synced \in BOOLEAN /\ current \in BOOLEAN
  /\ syncs \in Nat /\ extras \in Nat

(* A kind somebody wrote by hand stays: the tool leaves it alone.  It goes *)
(* when a release is copied over the file, when the writing of the file is *)
(* cut short, or when it was written while the tool had the file in hand.  *)
ByHand(c, i) == i \in DOMAIN c.rules /\ c.rules[i].by = "hand"

HandKept ==
  [][\A f \in Names : \A i \in DOMAIN files[f].rules :
       ByHand(files[f], i) /\ ~ByHand(files'[f], i)
         => f = script.at /\ (At("copy") \/ (At("write") /\ (touched \/ script'.step = "idle")))]_catalogVars

(* After a sync that ended well, with nobody else at the files, a catalog  *)
(* loaded from them has every rule of the release that can be loaded, and  *)
(* each has the kind its label asks for or, without one, the one its       *)
(* content suggests; whatever is wrong with the other files.               *)
Routed(r) ==
  IF r.kind \in Kinds THEN r.kind
  ELSE IF r.kind = "absent" /\ ~Has(r, {"null labels"}) /\ SuggestKind(r) # NoKind THEN SuggestKind(r)
  ELSE IF r.kind \in {"absent", "blank"} /\ Has(r, {"sloth_ label", "sloth label"}) THEN "budget"
  ELSE IF r.kind \in {"absent", "blank"} /\ Has(r, {"sentinel_ record", "sentinel_sensor"}) THEN "capacity"
  ELSE NoKind

SyncedIsRouted ==
  synced /\ At("idle") /\ current /\ loader = 0 =>
    \A f \in Names :
      LET c == Releases[commit][f] IN
      c.form = "rules" =>
        /\ Len(catalog[f]) = Len(c.rules)
        /\ \A i \in DOMAIN c.rules : catalog[f][i].kind = Routed(c.rules[i])

=============================================================================
