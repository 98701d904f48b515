----------------------------- MODULE MCOrderFlow -----------------------------
(***************************************************************************)
(* Small instances of OrderFlow and of the books it keeps.                 *)
(***************************************************************************)
EXTENDS OrderBooks, TLC

CONSTANTS o1, o2

OneOrder == [o \in {o1} |-> 2]
TwoOrders == (o1 :> 2) @@ (o2 :> 1)
=============================================================================
