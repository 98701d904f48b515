----------------------------- MODULE PositionLedger -----------------------------
(***************************************************************************)
(* What a fill makes of a position: PositionLedgerService.                 *)
(*                                                                         *)
(* A fill is signed, positive when it buys, and its price is positive.  An *)
(* average price is the exact fraction cost / contracts; the code has a    *)
(* Decimal of 28 digits, and raises if it is negative.                     *)
(***************************************************************************)
EXTENDS Integers

Averages == [cost : Nat, contracts : Nat \ {0}]

Positions == [quantity : Int, average : Averages]

Flat == [quantity |-> 0, average |-> [cost |-> 0, contracts |-> 1]]

SameSide(x, y) == (x > 0 /\ y > 0) \/ (x < 0 /\ y < 0)

Size(x) == IF x < 0 THEN -x ELSE x

WeightedAverage(previous, fill, price) ==
  [cost |-> Size(previous.quantity) * previous.average.cost
              + Size(fill) * price * previous.average.contracts,
   contracts |-> Size(previous.quantity + fill) * previous.average.contracts]

Grows(quantity, fill) == quantity = 0 \/ SameSide(quantity, fill)

\* Mutant: a fill past zero keeps the average of the position it closed.
AverageOfTheOldSide(previous, fill, price) ==
  IF previous.quantity + fill = 0 THEN Flat.average
  ELSE IF Grows(previous.quantity, fill) THEN WeightedAverage(previous, fill, price)
  ELSE previous.average

\* A position that is closed has no average; one that is opened or grows gets the
\* weighted one; a reduction keeps the average, and a fill past zero sets its own.
UpdatedAverage(previous, fill, price) ==
  IF previous.quantity + fill = 0 THEN Flat.average
  ELSE IF Grows(previous.quantity, fill) THEN WeightedAverage(previous, fill, price)
  ELSE IF SameSide(previous.quantity, previous.quantity + fill) THEN previous.average
  ELSE [cost |-> price, contracts |-> 1]

\* _apply_fill_to_position
ApplyFill(previous, fill, price) ==
  [quantity |-> previous.quantity + fill,
   average |-> UpdatedAverage(previous, fill, price)]

-----------------------------------------------------------------------------
\* The contracts of a position that a fill closes, signed as the position.
Closed(quantity, fill) ==
  IF ~SameSide(quantity, -fill) THEN 0
  ELSE IF Size(fill) < Size(quantity) THEN -fill ELSE quantity

\* A fill moves the value of the position at its average price by the money it
\* moves, but for what is gained on the contracts it closes:
\*   q' * a'  =  q * a  +  fill * price  +  closed * (price - a).
Accounted(previous, fill, price) ==
  LET next == ApplyFill(previous, fill, price)
      a == previous.average
  IN next.quantity * next.average.cost * a.contracts =
       next.average.contracts *
         (previous.quantity * a.cost + fill * price * a.contracts
            + Closed(previous.quantity, fill) * (price * a.contracts - a.cost))
=============================================================================
