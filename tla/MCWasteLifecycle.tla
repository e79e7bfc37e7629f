-------------------------- MODULE MCWasteLifecycle --------------------------
(* Instances of WasteLifecycle for TLC.                                     *)
EXTENDS WasteLifecycle

(* All entries carry the same ResourceID: a command picks one of them.      *)
OneResource == [k \in Entries |-> "elb"]

(* notify_every, in days; or not set, for the first entry only.             *)
EveryDay  == [k \in Entries |-> 1]
FirstOnce == [k \in Entries |-> k - 1]

(* -days: a deadline, and a negative number, which means for good.          *)
TwoDaysOrForGood == {-3, 2}

=============================================================================
