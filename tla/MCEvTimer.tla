------------------------------- MODULE MCEvTimer -------------------------------
(* Instances of EvTimer for TLC: one client restarts its timer every        *)
(* millisecond, the other one every two.                                    *)
EXTENDS EvTimer

CONSTANTS a, b

Periods == [c \in {a, b} |-> IF c = a THEN {1} ELSE {2}]
=============================================================================
