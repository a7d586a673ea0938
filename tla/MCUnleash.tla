------------------------------ MODULE MCUnleash ------------------------------
(* The thresholds, one as the flag gives it and one as a YAML file does.   *)
EXTENDS Unleash

MCET == [type |-> "float64", n |-> 40]
MCCT == [type |-> "int", n |-> 40]
=============================================================================
