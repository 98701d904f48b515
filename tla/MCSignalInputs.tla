---------------------------- MODULE MCSignalInputs ----------------------------
(* A small instance of SignalInputs: two builds, one over three contracts and *)
(* two rolls and one over a contract that both fetch.                         *)
EXTENDS SignalInputs

CONSTANTS a1, a2, a3, b1, b2

Symmetry == Permutations(Builds)

Segment(contract, first, last) == [instrument |-> contract, days |-> first..last]

MCRequests ==
  {<<Segment(a1, 1, 2), Segment(a2, 2, 3), Segment(a3, 3, 4)>>,
   <<Segment(a2, 1, 4)>>}

Traded == ({a1} \X (1..2)) \cup ({a2} \X (1..4)) \cup ({a3} \X (3..4))

\* A day without a bar: no price at a roll, a later roll, rolls out of order.
Gaps == {{}, {<<a1, 2>>}, {<<a2, 2>>}, {<<a2, 3>>}}

\* Closes around both rolls that differ or do not; the others are fixed.
MCQuotes ==
  UNION {{q \in [Traded \ gap -> [close : Closes, version : {0}]] :
            q[<<a2, 1>>].close = 1 /\ q[<<a2, 4>>].close = 3 /\ q[<<a3, 4>>].close = 3} :
         gap \in Gaps}

MCStrays ==
  {[instrument |-> a1, day |-> 2, bar |-> [close |-> 1, version |-> 0]]}
=============================================================================
