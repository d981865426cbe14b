------------------------------ MODULE MCButton ------------------------------
(* Small instances of Button for TLC.  The buttons are interchangeable: the *)
(* loop polls them in a fixed order, which Poll(i) leaves open.             *)
EXTENDS Button, TLC

Symmetry == Permutations(Buttons)
=============================================================================
