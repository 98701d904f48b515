---------------------------- MODULE OrderPlanning ----------------------------
(***************************************************************************)
(* application/order_planning.py: the orders that take positions to their  *)
(* targets.  An intent is also its client order ID, which the code formats *)
(* from the very fields an intent has here; type and price come from the   *)
(* configuration of the plan and are LimitPrice for all of its orders; a   *)
(* market order is configured without a price.                             *)
(***************************************************************************)
EXTENDS Integers

CONSTANT LimitPrice   \* the price of limit orders; NoPrice for market orders

\* A price that is absent.  Prices are positive.
NoPrice == 0

ASSUME PriceAssumption == LimitPrice \in Nat

Abs(n) == IF n < 0 THEN -n ELSE n

\* The position an order leads to when it is filled (Position.quantity_after).
QuantityAfter(quantity, side, orderQuantity) ==
  IF side = "buy" THEN quantity + orderQuantity ELSE quantity - orderQuantity

BuildOrderIntent(prefix, instrument, side, quantity, suffix) ==
  [prefix |-> prefix, instrument |-> instrument, side |-> side,
   quantity |-> quantity, suffix |-> suffix, price |-> LimitPrice]

IsPositionReversal(current, target) ==
  \/ current > 0 /\ target < 0
  \/ current < 0 /\ target > 0

IsRiskReducingDelta(current, target) ==
  \/ current > 0 /\ 0 =< target /\ target < current
  \/ current < 0 /\ current < target /\ target =< 0

\* Mutant: the sides are swapped.
PlanOrderAway(prefix, instrument, current, target) ==
  BuildOrderIntent(prefix, instrument,
                   IF target > current THEN "sell" ELSE "buy",
                   Abs(target - current), "")

PlanOrderToTarget(prefix, instrument, current, target) ==
  BuildOrderIntent(prefix, instrument,
                   IF target > current THEN "buy" ELSE "sell",
                   Abs(target - current), "")

\* Both orders of a reversal are on the side that leaves the position.
ReversalSide(current) == IF current > 0 THEN "sell" ELSE "buy"

FlattenIntent(prefix, instrument, current) ==
  BuildOrderIntent(prefix, instrument, ReversalSide(current), Abs(current),
                   "flatten")

OpenIntent(prefix, instrument, current, target) ==
  BuildOrderIntent(prefix, instrument, ReversalSide(current), Abs(target),
                   "open")

\* What one target contributes to each of the two phases: the order that
\* reduces risk ...
ReducingIntents(prefix, instrument, current, target) ==
  IF IsPositionReversal(current, target)
  THEN {FlattenIntent(prefix, instrument, current)}
  ELSE IF IsRiskReducingDelta(current, target)
       THEN {PlanOrderToTarget(prefix, instrument, current, target)}
       ELSE {}

\* ... and the one that adds to it.  A target at the current quantity has none.
OpeningIntents(prefix, instrument, current, target) ==
  IF IsPositionReversal(current, target)
  THEN {OpenIntent(prefix, instrument, current, target)}
  ELSE IF current = target \/ IsRiskReducingDelta(current, target)
       THEN {}
       ELSE {PlanOrderToTarget(prefix, instrument, current, target)}

\* Instruments are numbered in the order of their targets; start and target
\* are functions on them.  An empty phase, which the code leaves out of its
\* tuple, is an empty set here.
PlanRebalanceOrderPhases(prefix, start, target) ==
  << UNION {ReducingIntents(prefix, i, start[i], target[i]) : i \in DOMAIN target},
     UNION {OpeningIntents(prefix, i, start[i], target[i]) : i \in DOMAIN target} >>
=============================================================================
