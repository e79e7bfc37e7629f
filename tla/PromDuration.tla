----------------------------- MODULE PromDuration -----------------------------
(***************************************************************************)
(* Durations as Prometheus writes them (internal/promdur), in seconds.  A  *)
(* text is the sequence of its numbers and of the characters between them; *)
(* a number with two points in it is a number all the same, and two        *)
(* numbers never follow each other.                                        *)
(***************************************************************************)
EXTENDS Integers, SequencesExt, FiniteSetsExt

Seconds == [s |-> 1, m |-> 60, h |-> 3600, d |-> 86400, w |-> 7 * 86400, y |-> 365 * 86400]

Num(n)    == [type |-> "number", n |-> n]
Malformed == [type |-> "number", n |-> -1]
Char(c)   == [type |-> "char", c |-> c]
Tokens    == [type : {"number"}, n : Nat \cup {-1}] \cup [type : {"char"}, c : STRING]
Texts     == {t \in Seq(Tokens) : \A i \in 1..(Len(t) - 1) : "char" \in {t[i].type, t[i + 1].type}}

Quantity(n, unit) == <<Num(n), Char(unit)>>

None == [type |-> "none"]

(* flush: no unit without a number before it, no number that is none.      *)
Flush(acc, c) ==
  IF acc.num.type = "none" \/ acc.num = Malformed \/ c \notin DOMAIN Seconds
  THEN [acc EXCEPT !.ok = FALSE]
  ELSE [acc EXCEPT !.total = @ + acc.num.n * Seconds[c], !.num = None]

Take(acc, token) ==
  IF token.type = "number" THEN [acc EXCEPT !.num = token] ELSE Flush(acc, token.c)

Reading(text) ==
  LET acc[i \in 0..Len(text)] ==
        IF i = 0 THEN [ok |-> TRUE, total |-> 0, num |-> None] ELSE Take(acc[i - 1], text[i])
  IN acc

(* What cannot be read is zero; a number at the end is in seconds.         *)
Parse(text) ==
  LET end == Reading(text)[Len(text)] IN
  IF ~end.ok \/ end.num = Malformed THEN 0
  ELSE IF end.num = None THEN end.total ELSE end.total + end.num.n

(* Reference: quantities one after the other, the last perhaps bare.       *)
WellFormed(text) ==
  \A i \in DOMAIN text :
    IF i % 2 = 1 THEN text[i].type = "number" /\ text[i] # Malformed
                 ELSE text[i].type = "char" /\ text[i].c \in DOMAIN Seconds

Quantities(text) ==
  [i \in {j \in DOMAIN text : j % 2 = 1} |->
     text[i].n * IF i = Len(text) THEN 1 ELSE Seconds[text[i + 1].c]]

Means(text) == IF WellFormed(text) THEN SumFunction(Quantities(text)) ELSE 0

=============================================================================
