----------------------------- MODULE MCTestRun ------------------------------
EXTENDS TestRun

Setting(elapsed, tCoefficient) == [elapsed |-> elapsed, tCoefficient |-> tCoefficient]

(* A coverage run of half a second, the default, a negative coefficient,   *)
(* one whose -timeout overflows, one whose deadline does, and one whose    *)
(* deadline is positive again.                                             *)
MCSettings ==
    {Setting(1, 1), Setting(6, 0), Setting(6, -1),
     Setting(6, 21), Setting(6, 22), Setting(6, 43)}
=============================================================================
