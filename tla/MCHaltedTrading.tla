--------------------------- MODULE MCHaltedTrading ---------------------------
(* A small instance of HaltedTrading: one order of two contracts.           *)
EXTENDS HaltedTrading

CONSTANT o1

TwoContracts == [o \in {o1} |-> 2]

\* After the crash the run follows the gateway and the operator only: what a
\* sweep leaves open is a question of the system without crashes.
NoSweepAfterCrash == crashes > 0 => sweep = Idle /\ canceler = Idle
=============================================================================
