--------------------------- MODULE NotifyContract ---------------------------
(***************************************************************************)
(* What the notification path of the sentinel daemon promises to the       *)
(* operator, independent of retries, backoff, the triage gate, silence by  *)
(* AlertManager and the order of calls inside a poll round.                *)
(*                                                                         *)
(*   told[s]      what the operator last heard about sensor s, by whatever *)
(*                channel;                                                 *)
(*   believed[s]  what the daemon thinks the operator last heard;          *)
(*   inDoubt      the sensors for which the two may differ: a message went *)
(*                out without being confirmed, or the daemon restarted and *)
(*                forgot.                                                  *)
(*                                                                         *)
(* A message is sent only when it is news against what the daemon          *)
(* believes: a first incident, an escalation, or a recovery.               *)
(***************************************************************************)
EXTENDS Naturals

CONSTANT Sensors

VARIABLES told, believed, inDoubt

vars == <<told, believed, inDoubt>>

States == {"healthy", "warning", "critical"}

Severity == [st \in States |-> IF st = "healthy" THEN 0
                               ELSE IF st = "warning" THEN 1 ELSE 2]

(* The only changes of state an operator is told about.                    *)
IsNews(from, to) == \/ to = "healthy" /\ from # "healthy"
                    \/ Severity[to] > Severity[from]

TypeOK == /\ told \in [Sensors -> States]
          /\ believed \in [Sensors -> States]
          /\ inDoubt \subseteq Sensors

Init == /\ told = [s \in Sensors |-> "healthy"]
        /\ believed = [s \in Sensors |-> "healthy"]
        /\ inDoubt = {}

(* A message reaches the operator, but the daemon does not know it (yet).  *)
Deliver(s, st) == /\ IsNews(believed[s], st)
                  /\ told' = [told EXCEPT ![s] = st]
                  /\ inDoubt' = inDoubt \cup {s}
                  /\ UNCHANGED believed

(* The daemon learns that the last message was delivered.                  *)
Confirm(s) == /\ s \in inDoubt
              /\ IsNews(believed[s], told[s])
              /\ believed' = [believed EXCEPT ![s] = told[s]]
              /\ inDoubt' = inDoubt \ {s}
              /\ UNCHANGED told

(* Both at once: the call that delivers also acknowledges.                 *)
DeliverConfirmed(s, st) == /\ IsNews(believed[s], st)
                           /\ told' = [told EXCEPT ![s] = st]
                           /\ believed' = [believed EXCEPT ![s] = st]
                           /\ inDoubt' = inDoubt \ {s}

(* The daemon restarts: what it believed was only in memory.               *)
Forget == /\ believed' = [s \in Sensors |-> "healthy"]
          /\ inDoubt' = inDoubt \cup {s \in Sensors : told[s] # "healthy"}
          /\ UNCHANGED told

Next == \/ \E s \in Sensors, st \in States : Deliver(s, st)
        \/ \E s \in Sensors : Confirm(s)
        \/ \E s \in Sensors, st \in States : DeliverConfirmed(s, st)
        \/ Forget

Spec == Init /\ [][Next]_vars

(* Outside doubt the operator's picture is the daemon's: nothing is        *)
(* registered as told that was not delivered, and nothing delivered goes   *)
(* unregistered (Peek, Send and only then Commit, daemon.go).              *)
InSync == \A s \in Sensors \ inDoubt : told[s] = believed[s]

(* Outside doubt the operator never hears of a downgrade or of the same    *)
(* state twice (TestDedupeTransitions, internal/alert/alert_test.go).      *)
OnlyNews == [][\A s \in Sensors \ inDoubt :
                  told'[s] # told[s] => IsNews(told[s], told'[s])]_vars

=============================================================================
