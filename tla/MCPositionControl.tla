-------------------------- MODULE MCPositionControl --------------------------
(* A small instance of PositionControl: two contracts long in one           *)
(* instrument, one contract short in the other.                             *)
EXTENDS PositionControl

CONSTANTS i1, i2

LongAndShort == {[i \in {i1, i2} |-> IF i = i1 THEN 2 ELSE -1]}
=============================================================================
