------------------------------ MODULE MCReadApi ------------------------------
(* Instances of ReadApi for TLC.                                           *)
EXTENDS ReadApi

SomeVerdicts == {<<"healthy", {}>>, <<"critical", Horizons>>}
=============================================================================
