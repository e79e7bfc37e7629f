----------------------------- MODULE MCCostReport -----------------------------
(* Instances of CostReport for TLC.                                        *)
EXTENDS CostReport

SomeMonths == <<31, 28, 31, 30, 31>>

(* One service costs the same every day, one costs more and more, one only *)
(* now and then.                                                           *)
SomeCharge(d, s) ==
  CASE s = "steady" -> 4 [] s = "rising" -> d \div 10 [] s = "rare" -> IF d % 5 = 0 THEN 3 ELSE 0

(* The middle and the ends of the months.                                  *)
SomeDays == {20, 28, 31, 32, 59}
=============================================================================
