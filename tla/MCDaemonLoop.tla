---------------------------- MODULE MCDaemonLoop ----------------------------
(* Instances of DaemonLoop for TLC.                                        *)
EXTENDS DaemonLoop

\* Day 0 is a Sunday, day 1 a Monday.
SundayMonday == [d \in Days |-> d]

\* Summary and pruning; digest and pruning; a scan that is switched off.
SomeConfigs ==
  {[billing |-> TRUE,  digest |-> FALSE, scan |-> TRUE,  retention |-> 1],
   [billing |-> FALSE, digest |-> TRUE,  scan |-> TRUE,  retention |-> 1],
   [billing |-> TRUE,  digest |-> TRUE,  scan |-> FALSE, retention |-> 0]}

=============================================================================
