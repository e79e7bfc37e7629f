-------------------------------- MODULE Config --------------------------------
(***************************************************************************)
(* The settings of a process (config/config.go, and the environment in     *)
(* newDaemon): defaults, then the file, then the environment.  Of the many *)
(* keys these are the ones the code treats in a way of their own; every    *)
(* other string key goes the way of log_format without its check.          *)
(***************************************************************************)
EXTENDS Integers

CONSTANTS
  Absent,   \* the key is not in the file, the variable is not set
  Null,     \* a key without a value
  Word      \* a value that is no number, no time of day, no log format

ASSUME ConfigConstantsOK ==
  \A x \in {Absent, Null, Word} : x \notin Int \cup {"", "json", "text", "09:00"}

Numbers == {"poll", "waste", "retention"}
Texts   == {"digest", "format"}

Default == [poll |-> 60, waste |-> 21600, retention |-> 90,
            digest |-> "09:00", format |-> "json"]

Written(f, k) == f[k] \notin {Absent, Null}

(* A key that is not written, or without a value, unmarshals to zero.      *)
Over(f, k) == IF Written(f, k) THEN f[k] ELSE IF k \in Numbers THEN 0 ELSE ""

(* apply: nothing below one, and no empty string, overrides a default.     *)
Apply(f) == [k \in Numbers \cup Texts |->
               IF k \in Numbers THEN IF Over(f, k) > 0 THEN Over(f, k) ELSE Default[k]
                                ELSE IF Over(f, k) # "" THEN Over(f, k) ELSE Default[k]]

Explicit(f, k) == f[k] # Null /\ f[k] >= 0

(* Mutant: zero is taken for a key that is not written.                    *)
OverrideUnlessZero(f, c) ==
  IF f.waste = Absent THEN c
  ELSE [c EXCEPT !.waste     = IF Explicit(f, "waste") /\ f.waste > 0 THEN f.waste ELSE @,
                 !.retention = IF f.retention # Absent /\ Explicit(f, "retention")
                               THEN f.retention ELSE @]

(* An explicit zero switches a job off; the retention is only looked at    *)
(* when the file has the other key too.                                    *)
OverrideWasteInterval(f, c) ==
  IF f.waste = Absent THEN c
  ELSE [c EXCEPT !.waste     = IF Explicit(f, "waste") THEN f.waste ELSE @,
                 !.retention = IF f.retention # Absent /\ Explicit(f, "retention")
                               THEN f.retention ELSE @]

Settings(f) ==
  IF f.form = "missing" THEN Default ELSE OverrideWasteInterval(f, Apply(f))

(* Whether Load returns no error: the file can be read and parsed, with    *)
(* numbers where numbers belong, and validate finds nothing.               *)
Loads(f) ==
  \/ f.form = "missing"
  \/ /\ f.form = "yaml"
     /\ \A k \in Numbers : f[k] # Word
     /\ LET c == Settings(f) IN
        c.poll > 0 /\ c.waste >= 0 /\ c.retention >= 0 /\ c.format \in {"json", "text"}

(* WASTE_SCAN_INTERVAL_SEC and DAILY_DIGEST, where "off" is 0 and "".      *)
Heard(e, k) == e[k] \notin {Absent, Word} /\ (k = "waste" => e[k] >= 0)

OverrideFromEnv(c, e) ==
  [c EXCEPT !.waste  = IF Heard(e, "waste") THEN e.waste ELSE @,
            !.digest = IF Heard(e, "digest") THEN e.digest ELSE @]

-----------------------------------------------------------------------------
(* What the comments of the code promise (config.go:24-31, 113-123).       *)

(* Where the code does not hear what the file says.                        *)
Unheard(f) ==
  {k \in Numbers : Written(f, k) /\ f[k] < 0}
    \cup {k \in {"poll"} : f[k] = 0}
    \cup {k \in {"retention"} : f[k] = 0 /\ f.waste = Absent}
    \cup {k \in Texts : f[k] = ""}

(* The environment before the file, the file before the default.           *)
Meaning(f, e, k) ==
  IF k \in {"waste", "digest"} /\ Heard(e, k) THEN e[k]
  ELSE IF f.form = "yaml" /\ Written(f, k) THEN f[k] ELSE Default[k]

Honoured(f, e, c) ==
  \A k \in Numbers \cup Texts :
    \/ c[k] = Meaning(f, e, k)
    \/ f.form = "yaml" /\ k \in Unheard(f) /\ c[k] = Default[k]

=============================================================================
