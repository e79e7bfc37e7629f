---------------------------- MODULE MCPriceCache ----------------------------
(* Instances of PriceCache for TLC.                                         *)
EXTENDS PriceCache

TwoKeys  == [k \in {"m5", "ecs"} |-> IF k = "m5" THEN "ec2bulk" ELSE "alicloud"]
InDollars == [k \in DOMAIN TwoKeys |-> IF k = "m5" THEN "USD" ELSE "CNY"]

TwoAndOne == [k \in DOMAIN TwoKeys |-> IF k = "m5" THEN {1, 2} ELSE {3}]

Machine    == <<"m5">>
BothClouds == <<"m5", "ecs">>
OneEach    == <<1, 1>>

(* With Reserved terms, as AWS publishes them, and without.                 *)
OfferFiles == {<<"products", "OnDemand">>, <<"products", "OnDemand", "Reserved">>}

=============================================================================
