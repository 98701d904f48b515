----------------------------- MODULE MCRebalance -----------------------------
(***************************************************************************)
(* Small instances of Rebalance: two instruments, market orders.           *)
(***************************************************************************)
EXTENDS Rebalance

CONSTANTS p1, p2

\* Long one contract of the first instrument and two of the second: reverse
\* the first and reduce the second, or add to the first and flatten the second.
OneAndTwo == {<<1, 2>>}
ReverseOrAdd == {<<-1, 1>>, <<2, 0>>}

\* Long two contracts and one: reverse the first and flatten the second, or
\* stay with the first and take the second beyond the position limit.
TwoAndOne == {<<2, 1>>}
ReverseOrExceed == {<<-1, 0>>, <<2, 3>>}

\* Nothing in the account or the market stands against an order, or the quote
\* is too wide.
Benign ==
  [killSwitchActive |-> FALSE,
   account |-> [age |-> 1, equity |-> 1000, initialMargin |-> 0,
                maintenanceMargin |-> 0, buyingPower |-> 1000],
   market |-> [age |-> 1, bid |-> 99, ask |-> 101, last |-> 100],
   instrument |-> [multiplier |-> 1, tick |-> 1, tradable |-> TRUE],
   realizedPnl |-> 0, initialMargin |-> 10, maintenanceMargin |-> 8]

WideQuote == [Benign EXCEPT !.market.bid = 50]

BenignOnly == {Benign}
BenignOrWide == {Benign, WideQuote}

OnePerWindow ==
  [maxOrderQuantity |-> 2, maxPositionAbs |-> 2, maxMarginUsage |-> 500,
   maxMaintenanceMarginUsage |-> 400, maxDailyLoss |-> 100,
   maxOrderNotional |-> 500, maxPositionNotional |-> 500,
   maxBidAskSpread |-> 30, maxOrdersPerWindow |-> 1,
   accountStaleAfter |-> 5, marketDataStaleAfter |-> 5, priceCollar |-> 50]
=============================================================================
