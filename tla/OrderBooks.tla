------------------------------ MODULE OrderBooks ------------------------------
(***************************************************************************)
(* What the order path does to the books: the properties of OrderFlow that *)
(* need a sum over fills.                                                  *)
(***************************************************************************)
EXTENDS OrderFlow, PositionLedger, FiniteSetsExt, SequencesExt

CONSTANT Prices  \* the prices fills have

ASSUME PricesAssumption == Prices \subseteq Nat

Total(weight, S) == MapThenSumSet(LAMBDA x : weight[x], S)

ProcessedFills(o) == {f \in processed : f.order = o}

\* Single-threaded and without faults: whenever no update is being applied,
\* the persisted filled quantity of an order is the sum of the fills of that
\* order the ledger has processed: no fill reached the one and not the other.
LifecycleMatchesLedger ==
  stream = Idle =>
    \A o \in Orders :
      lifecycle[o].filled = Total([f \in Fills |-> f.qty], ProcessedFills(o))

BookedFills == {f \in Fills : positions[f] > 0}

\* The positions after each of a sequence of fills.
Book(fills, signed, price) ==
  LET book[k \in 0..Len(fills)] ==
        IF k = 0 THEN Flat
        ELSE ApplyFill(book[k - 1], signed[fills[k]], price[fills[k]])
  IN book

\* In whatever order the fills were booked, on whatever sides and at whatever
\* prices: the position is the sum of them, and no money is lost or made up in
\* its average price, through reductions, closings and changes of side.
BooksBalance ==
  \A fills \in SetToSeqs(BookedFills), side \in [Orders -> {-1, 1}],
     price \in [BookedFills -> Prices] :
    LET signed == [f \in BookedFills |-> side[f.order] * f.qty]
        book == Book(fills, signed, price)
    IN /\ book[Len(fills)].quantity = Total(signed, BookedFills)
       /\ \A k \in 1..Len(fills) :
            Accounted(book[k - 1], signed[fills[k]], price[fills[k]])
=============================================================================
