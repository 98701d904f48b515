--------------------------- MODULE PositionControl ---------------------------
(***************************************************************************)
(* The broker's positions, the account books beside them, and what stands  *)
(* between the two:                                                        *)
(*                                                                         *)
(*   - BrokerConnectionService.connect takes a snapshot of the broker;     *)
(*   - ReconcilePositionsUseCase compares its positions with the books;    *)
(*   - TradingReadinessService turns both into the readiness that          *)
(*     OrderGatewayService.submit asks for;                                *)
(*   - PositionFlatteningService, run by the operator's flatten command,   *)
(*     sends a closing order for every position, past gateway, risk check, *)
(*     lifecycle and activity log.                                         *)
(*                                                                         *)
(* An order that trades passes the modules OrderFlow and HaltedTrading;    *)
(* here it only appears at the broker.  Fills arrive contract by contract. *)
(* Quantities are signed: what an order still adds to the position.        *)
(***************************************************************************)
EXTENDS Integers, Sequences, FiniteSets

CONSTANTS
  Instruments,     \* the instrument IDs
  StartPositions,  \* the broker's positions the model may start with
  MaxCommands      \* bound on trading orders and flatten commands together

ASSUME ControlAssumption ==
  /\ StartPositions \subseteq [Instruments -> Int]
  /\ MaxCommands \in Nat

VARIABLES
  broker,      \* the positions at the broker
  orders,      \* the orders sent to the broker, in the order of arrival
  bought,      \* contracts bought by trading orders and not yet booked
  sold,        \* contracts sold by trading orders and not yet booked
  rows,        \* positions.json: the instruments it has a row for
  books,       \* ... and their quantities
  session,     \* the trading process: how far its readiness has come
  flatten,     \* the flatten command in progress, or its outcome
  flattens,    \* flatten commands that have read the positions
  moved,       \* instruments filled or booked since the snapshot (history)
  unseen,      \* contracts that no fill will ever bring to the books (history)
  start,       \* what the last flatten command read (history)
  undisturbed, \* nobody else's order has worked since it read (history)
  ended        \* instruments whose flatten order the broker ended (history)

pipeline == <<session, moved>>
flattening == <<flatten, flattens, start, undisturbed, ended>>
ledger == <<rows, books>>
market == <<broker, orders, bought, sold, unseen>>
vars == <<pipeline, flattening, ledger, market>>

Idle == [pc |-> "idle"]

Order == [instrument : Instruments, left : Int, owner : {"trader", "flatten"}]

\* reported: the instruments the broker has a row for.  A broker may list a
\* closed position with quantity zero, or leave it out.
SessionStates ==
  {Idle} \cup [pc : {"snapshot"}, connected : BOOLEAN, stale : BOOLEAN,
               reported : SUBSET Instruments, seen : [Instruments -> Int]]
         \cup {[pc |-> "ready"]}

FlattenStates ==
  {Idle} \cup [pc : {"submitting"}, todo : SUBSET Instruments,
               failed : SUBSET Instruments, sent : SUBSET Instruments]
         \cup [pc : {"done"}, todo : {{}},
               failed : SUBSET Instruments, sent : SUBSET Instruments]

Live(k) == orders[k].left # 0

LiveOrders == {k \in DOMAIN orders : Live(k)}

Trades == {k \in DOMAIN orders : orders[k].owner = "trader"}

Commands == Cardinality(Trades) + flattens

\* A change is of interest to a session in progress only.
Noted(i) == IF session = Idle THEN moved ELSE moved \cup {i}

\* The books need not agree with the broker when the system is first started:
\* positions.json, which must exist, may still be an empty list.
Init ==
  /\ broker \in StartPositions
  /\ orders = <<>>
  /\ bought = [i \in Instruments |-> 0]
  /\ sold = [i \in Instruments |-> 0]
  /\ \/ rows = {} /\ books = [i \in Instruments |-> 0]
     \/ rows = Instruments /\ books = broker
  /\ session = Idle
  /\ flatten = Idle
  /\ flattens = 0
  /\ moved = {}
  /\ unseen = [i \in Instruments |-> broker[i] - books[i]]
  /\ start = broker
  /\ undisturbed = FALSE
  /\ ended = {}

-----------------------------------------------------------------------------
(* LiveTradingGuard: the gateway and the flatten command ask it first.     *)

Environments == {"paper", "live", "unsupported"}

LiveTradingAllowed(environment, activated) ==
  environment = "paper" \/ (environment = "live" /\ activated)

Permitted ==
  \E environment \in Environments, activated \in BOOLEAN :
     LiveTradingAllowed(environment, activated)

-----------------------------------------------------------------------------
(* The trading process: snapshot, reconciliation, readiness, order.        *)

Connected ==
  /\ session = Idle
  /\ \E closed \in SUBSET {i \in Instruments : broker[i] = 0} :
       session' = [pc |-> "snapshot", connected |-> TRUE, stale |-> FALSE,
                   reported |-> {i \in Instruments : broker[i] # 0} \cup closed,
                   seen |-> broker]
  /\ moved' = {}
  /\ UNCHANGED <<flattening, ledger, market>>

\* A broker that cannot be reached yields a result without positions.
ConnectFailed ==
  /\ session = Idle
  /\ session' = [pc |-> "snapshot", connected |-> FALSE, stale |-> FALSE,
                 reported |-> {}, seen |-> [i \in Instruments |-> 0]]
  /\ moved' = {}
  /\ UNCHANGED <<flattening, ledger, market>>

\* Mutant: open positions of the books that the broker has no row for pass.
MismatchesOfBrokerRows(reported, seen) ==
  {i \in reported : i \notin rows \/ books[i] # seen[i]}

\* The instruments a reconciliation reports: a broker row without a row in the
\* books, even of quantity zero; another quantity; an open position of the books
\* that the broker has no row for.
Mismatches(reported, seen) ==
  {i \in reported : i \notin rows \/ books[i] # seen[i]}
     \cup {i \in rows \ reported : books[i] # 0}

\* Mutant: a connection that failed does not make the result negative.
EvaluateUnconnected ==
  /\ session.pc = "snapshot"
  /\ session' = IF /\ ~session.stale
                   /\ Mismatches(session.reported, session.seen) = {}
                THEN [pc |-> "ready"] ELSE Idle
  /\ UNCHANGED <<moved, flattening, ledger, market>>

\* The books are loaded and compared with the snapshot, and the readiness is
\* evaluated from the result: it asks for a broker that was connected, an account
\* snapshot that is not stale, and agreement.
Evaluate ==
  /\ session.pc = "snapshot"
  /\ session' = IF /\ session.connected
                   /\ ~session.stale
                   /\ Mismatches(session.reported, session.seen) = {}
                THEN [pc |-> "ready"] ELSE Idle
  /\ UNCHANGED <<moved, flattening, ledger, market>>

\* More than account_stale_after passes before the readiness is evaluated.
GrowStale ==
  /\ session.pc = "snapshot"
  /\ ~session.stale
  /\ session' = [session EXCEPT !.stale = TRUE]
  /\ UNCHANGED <<moved, flattening, ledger, market>>

\* The gateway takes the readiness it is given, however old: one result serves
\* any number of orders.
Trade(i, quantity) ==
  /\ session.pc = "ready"
  /\ Permitted
  /\ Commands < MaxCommands
  /\ orders' = Append(orders, [instrument |-> i, left |-> quantity,
                               owner |-> "trader"])
  /\ undisturbed' = FALSE
  /\ UNCHANGED <<session, moved, flatten, flattens, start, ended, ledger,
                 broker, bought, sold, unseen>>

\* The caller drops what it has, crashes, or cannot load the books.
Restart ==
  /\ session # Idle
  /\ session' = Idle
  /\ moved' = {}
  /\ UNCHANGED <<flattening, ledger, market>>

\* The fill of a trading order is applied to the books (module OrderFlow).
BookBought(i) ==
  /\ bought[i] > 0
  /\ bought' = [bought EXCEPT ![i] = @ - 1]
  /\ books' = [books EXCEPT ![i] = @ + 1]
  /\ rows' = rows \cup {i}
  /\ moved' = Noted(i)
  /\ UNCHANGED <<session, flattening, broker, orders, sold, unseen>>

BookSold(i) ==
  /\ sold[i] > 0
  /\ sold' = [sold EXCEPT ![i] = @ - 1]
  /\ books' = [books EXCEPT ![i] = @ - 1]
  /\ rows' = rows \cup {i}
  /\ moved' = Noted(i)
  /\ UNCHANGED <<session, flattening, broker, orders, bought, unseen>>

-----------------------------------------------------------------------------
(* The flatten command.  It is confirmed, permitted, and reads the broker's *)
(* positions once; reading may raise, which ends it before any order.      *)

ReadPositions ==
  /\ flatten.pc # "submitting"
  /\ Commands < MaxCommands
  /\ Permitted
  /\ flatten' = [pc |-> "submitting", todo |-> {i \in Instruments : broker[i] # 0},
                 failed |-> {}, sent |-> {}]
  /\ flattens' = flattens + 1
  /\ start' = broker
  /\ undisturbed' = (LiveOrders = {})
  /\ ended' = {}
  /\ UNCHANGED <<pipeline, ledger, market>>

\* Mutant: the side of a short position is not reversed.
OrderAgainstSize(i) ==
  [instrument |-> i, left |-> IF start[i] > 0 THEN -start[i] ELSE start[i],
   owner |-> "flatten"]

\* The market order against the position that was read.
FlattenOrder(i) ==
  [instrument |-> i, left |-> -start[i], owner |-> "flatten"]

FlattenAccepted(i) ==
  /\ flatten.pc = "submitting" /\ i \in flatten.todo
  /\ orders' = Append(orders, FlattenOrder(i))
  /\ flatten' = [flatten EXCEPT !.todo = @ \ {i}, !.sent = @ \cup {i}]
  /\ UNCHANGED <<pipeline, ledger, flattens, start, undisturbed, ended,
                 broker, bought, sold, unseen>>

\* Mutant: the loop ends at the first order that fails.
FlattenRefusedBreaks(i) ==
  /\ flatten.pc = "submitting" /\ i \in flatten.todo
  /\ flatten' = [flatten EXCEPT !.todo = {}, !.failed = @ \cup {i}]
  /\ UNCHANGED <<pipeline, ledger, flattens, start, undisturbed, ended, market>>

\* A BrokerSubmissionError is recorded, and the loop goes on ...
FlattenRefused(i) ==
  /\ flatten.pc = "submitting" /\ i \in flatten.todo
  /\ flatten' = [flatten EXCEPT !.todo = @ \ {i}, !.failed = @ \cup {i}]
  /\ UNCHANGED <<pipeline, ledger, flattens, start, undisturbed, ended, market>>

\* ... even when the broker had taken the order and only its reply was lost or
\* unreadable.
FlattenReplyLost(i) ==
  /\ flatten.pc = "submitting" /\ i \in flatten.todo
  /\ orders' = Append(orders, FlattenOrder(i))
  /\ flatten' = [flatten EXCEPT !.todo = @ \ {i}, !.failed = @ \cup {i},
                                !.sent = @ \cup {i}]
  /\ UNCHANGED <<pipeline, ledger, flattens, start, undisturbed, ended,
                 broker, bought, sold, unseen>>

\* An error no adapter translates ends the command in the middle, as a crash
\* does: with or without the order at the broker.
FlattenBreaksOff(i) ==
  /\ flatten.pc = "submitting" /\ i \in flatten.todo
  /\ orders' \in {orders, Append(orders, FlattenOrder(i))}
  /\ flatten' = Idle
  /\ UNCHANGED <<pipeline, ledger, flattens, start, undisturbed, ended,
                 broker, bought, sold, unseen>>

FlattenCompletes ==
  /\ flatten.pc = "submitting" /\ flatten.todo = {}
  /\ flatten' = [flatten EXCEPT !.pc = "done"]
  /\ UNCHANGED <<pipeline, ledger, flattens, start, undisturbed, ended, market>>

-----------------------------------------------------------------------------
(* The broker.                                                             *)

Direction(k) == IF orders[k].left > 0 THEN 1 ELSE -1

Filled(k) ==
  /\ k \in LiveOrders
  /\ orders' = [orders EXCEPT ![k].left = @ - Direction(k)]
  /\ broker' = [broker EXCEPT ![orders[k].instrument] = @ + Direction(k)]
  /\ moved' = Noted(orders[k].instrument)
  /\ UNCHANGED <<session, flattening, ledger>>

\* The fill of a trading order is reported, and will be booked.
TradeFills(k) ==
  /\ Filled(k)
  /\ orders[k].owner = "trader"
  /\ IF Direction(k) > 0
     THEN bought' = [bought EXCEPT ![orders[k].instrument] = @ + 1] /\ sold' = sold
     ELSE sold' = [sold EXCEPT ![orders[k].instrument] = @ + 1] /\ bought' = bought
  /\ UNCHANGED unseen

\* A flatten order has no activity record: OrderUpdateService refuses its fill.
FlattenFills(k) ==
  /\ Filled(k)
  /\ orders[k].owner = "flatten"
  /\ unseen' = [unseen EXCEPT ![orders[k].instrument] = @ + Direction(k)]
  /\ UNCHANGED <<bought, sold>>

\* The rest of an order is canceled, rejected or expires.
OrderEnds(k) ==
  /\ k \in LiveOrders
  /\ orders' = [orders EXCEPT ![k].left = 0]
  /\ ended' = IF orders[k].owner = "flatten"
              THEN ended \cup {orders[k].instrument} ELSE ended
  /\ UNCHANGED <<pipeline, ledger, flatten, flattens, start, undisturbed,
                 broker, bought, sold, unseen>>

-----------------------------------------------------------------------------
Quantities == {-1, 1}

Trading ==
  \/ Connected \/ ConnectFailed \/ Evaluate \/ GrowStale \/ Restart
  \/ \E i \in Instruments, quantity \in Quantities : Trade(i, quantity)
  \/ \E i \in Instruments : BookBought(i) \/ BookSold(i)

FlattenAnswered(i) == FlattenAccepted(i) \/ FlattenRefused(i) \/ FlattenReplyLost(i)

Flattening ==
  \/ ReadPositions \/ FlattenCompletes
  \/ \E i \in Instruments : FlattenAnswered(i) \/ FlattenBreaksOff(i)

Market == \E k \in DOMAIN orders : TradeFills(k) \/ FlattenFills(k) \/ OrderEnds(k)

Next == Trading \/ Flattening \/ Market

\* A command that has read the positions goes on to its end, and a market order
\* that stays at the broker is filled sooner or later.
Fairness ==
  /\ WF_vars(\E i \in Instruments : FlattenAnswered(i))
  /\ WF_vars(FlattenCompletes)
  /\ WF_vars(\E k \in DOMAIN orders : FlattenFills(k))

Spec == Init /\ [][Next]_vars

FairSpec == Spec /\ Fairness

-----------------------------------------------------------------------------
TypeOK ==
  /\ broker \in [Instruments -> Int]
  /\ orders \in Seq(Order)
  /\ bought \in [Instruments -> Nat]
  /\ sold \in [Instruments -> Nat]
  /\ rows \subseteq Instruments
  /\ books \in [Instruments -> Int]
  /\ session \in SessionStates
  /\ flatten \in FlattenStates
  /\ flattens \in Nat
  /\ moved \subseteq Instruments
  /\ unseen \in [Instruments -> Int]
  /\ start \in [Instruments -> Int]
  /\ undisturbed \in BOOLEAN
  /\ ended \subseteq Instruments

\* Position x is what is left of position y, neither grown nor reversed.
Within(x, y) == (0 =< x /\ x =< y) \/ (y =< x /\ x =< 0)

\* While no order of anybody else works, a flatten command never opens, grows or
\* reverses a position: not after refusals, lost replies, partial fills or a
\* crash in the middle of it.
FlattenStaysOnCourse ==
  undisturbed => \A i \in Instruments : Within(broker[i], start[i])

\* Trading that was found ready found the books and the broker in agreement: an
\* instrument on which they differ has been filled or booked since the snapshot.
ReadyInAgreement ==
  session.pc = "ready" =>
     \A i \in Instruments : broker[i] = books[i] \/ i \in moved

\* After a flatten order has filled, the books are wrong for good, and trading is
\* not found ready on a later snapshot of that instrument unless fills that are
\* still to be booked make up for the difference.
FlattenBlocksTrading ==
  session.pc = "ready" =>
     \A i \in Instruments :
        i \in moved \/ unseen[i] = sold[i] - bought[i]

\* A command that is alone at the broker and does not break off comes to an end
\* at which every position is closed, except those it reports as failed and
\* did not reach the broker with, and those whose order the broker ended.
FlattenClosesOrReports ==
  (flatten.pc = "submitting" /\ undisturbed) ~>
     \/ ~undisturbed
     \/ flatten = Idle
     \/ /\ flatten.pc = "done"
        /\ \A i \in Instruments :
              \/ broker[i] = 0
              \/ i \in flatten.failed \ flatten.sent
              \/ i \in ended
=============================================================================
