------------------------------- MODULE MCRules -------------------------------
(* Instances of the rule catalog and the waste scanner for TLC.            *)
EXTENDS WasteScanner

Rule(marks, kind, for) ==
  [marks |-> marks, kind |-> kind, by |-> "upstream", for |-> for, alert |-> TRUE, form |-> "bool"]

(* A rule for every way to a kind, or to none.                             *)
WeekRule  == Rule({}, "absent", Quantity(1, "w"))
IdleRule  == [Rule({"idle text"}, "absent", <<>>) EXCEPT !.form = "high"]
OddRule   == [Rule({"sloth label"}, "waste", <<Num(7), Char("q")>>) EXCEPT !.form = "low"]
BlankRule == Rule({"idle metric"}, "blank", <<>>)
SlothRule == Rule({"sloth label"}, "absent", <<>>)
NullRule  == Rule({"null labels", "idle text"}, "absent", <<>>)
OtherRule == Rule({"sloth expr"}, "other", <<>>)
Recording == [Rule({"day window", "sentinel_ record"}, "absent", <<>>) EXCEPT !.alert = FALSE]

File(form, rules) == [form |-> form, rules |-> rules]

SomeReleases ==
  <<<<File("rules", <<WeekRule, IdleRule>>), File("rules", <<OddRule, SlothRule>>)>>,
    <<File("invalid", <<BlankRule, OtherRule>>), File("rules", <<NullRule, Recording>>)>>,
    <<Empty, NoFile>>>>

(* The same every day, but for one at either end; and a second series.     *)
But(n, t, odd) == [d \in 1..n |-> IF d \in odd THEN t ELSE "idle"]

SomeAnswers(n) ==
  LET idle == But(n, "idle", {}) IN
  {<<idle>>, <<But(n, "busy", {1})>>, <<But(n, "busy", {n})>>, <<But(n, "gap", {n})>>,
   <<But(n, "busy", 1..n)>>, <<But(n, "gap", 1..n), idle>>}
=============================================================================
