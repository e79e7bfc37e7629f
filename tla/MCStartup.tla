------------------------------- MODULE MCStartup -------------------------------
(* Instances of Startup for TLC.                                           *)
EXTENDS Startup

Plain == [form |-> "yaml", poll |-> Absent, waste |-> Absent, retention |-> Absent,
          digest |-> Absent, format |-> Absent]

(* Every way to write a key: as a number, as zero, below zero, without a   *)
(* value, with a wrong one, next to another key or alone.                  *)
SomeFiles ==
  {[Plain EXCEPT !.retention = 0],
   [Plain EXCEPT !.waste = 0,    !.retention = 0],
   [Plain EXCEPT !.waste = Null, !.retention = 7, !.poll = 0, !.format = Null],
   [Plain EXCEPT !.waste = 30,   !.retention = -1, !.digest = "18:30"],
   [Plain EXCEPT !.waste = -1,   !.retention = Null, !.digest = ""],
   [Plain EXCEPT !.poll = -1, !.format = ""],
   [Plain EXCEPT !.waste = Word],
   [Plain EXCEPT !.format = Word],
   [Plain EXCEPT !.form = "missing"]}

SomeEnvironments ==
  {[waste |-> Absent, digest |-> Absent],
   [waste |-> 0,      digest |-> Word],
   [waste |-> 40,     digest |-> ""],
   [waste |-> Word,   digest |-> "18:30"]}

=============================================================================
