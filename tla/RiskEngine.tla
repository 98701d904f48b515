----------------------------- MODULE RiskEngine -----------------------------
(***************************************************************************)
(* risk/engine.py: when the pre-trade check approves an order.  Prices,    *)
(* margins and profit are integers in some small unit; the fractions among *)
(* the limits are in thousandths, and comparisons of quotients are         *)
(* multiplied out.  Which of several reasons is reported is left out.      *)
(***************************************************************************)
EXTENDS OrderPlanning

\* An order and a working one could be matched with each other.
CouldMatch(intent, working) ==
  /\ intent.instrument = working.instrument
  /\ intent.side # working.side
  /\ \/ intent.price = NoPrice \/ working.price = NoPrice
     \/ intent.side = "buy" /\ intent.price >= working.price
     \/ intent.side = "sell" /\ working.price >= intent.price

HasPotentialSelfMatch(intent, working) ==
  \E w \in working : CouldMatch(intent, w)

\* Mutant: the window may fill up and then takes one order more.
RateExceeded(limits, recent) == recent > limits.maxOrdersPerWindow

RateLimitReached(limits, recent) == recent >= limits.maxOrdersPerWindow

\* The quote has both sides, is not crossed, and is not too wide.
QuoteUsable(limits, market) ==
  /\ market.bid # NoPrice /\ market.ask # NoPrice
  /\ market.bid =< market.ask
  /\ 2 * 1000 * (market.ask - market.bid)
       =< limits.maxBidAskSpread * (market.bid + market.ask)

Notional(quantity, price, multiplier) == quantity * price * multiplier

ReferencePrice(intent, market) ==
  IF intent.price = NoPrice THEN market.last ELSE intent.price

\* Mutant: only the size of the order is held against the position limit.
OrderWithinPositionLimit(limits, intent, resulting) ==
  intent.quantity =< limits.maxPositionAbs

\* The position that results if nothing else is filled is within the limit.
PositionWithinLimit(limits, intent, resulting) ==
  Abs(resulting) =< limits.maxPositionAbs

\* Order and position, in contracts and in money.
SizesWithinLimits(limits, intent, resulting, context) ==
  LET price == ReferencePrice(intent, context.market)
      multiplier == context.instrument.multiplier
  IN
  /\ intent.quantity =< limits.maxOrderQuantity
  /\ Notional(intent.quantity, price, multiplier) =< limits.maxOrderNotional
  /\ PositionWithinLimit(limits, intent, resulting)
  /\ Notional(Abs(resulting), price, multiplier)
       =< limits.maxPositionNotional

MarginsWithinLimits(limits, account, margin) ==
  /\ 1000 * (account.initialMargin + margin.initial)
       =< limits.maxMarginUsage * account.equity
  /\ 1000 * (account.maintenanceMargin + margin.maintenance)
       =< limits.maxMaintenanceMarginUsage * account.equity
  /\ margin.initial =< account.buyingPower

RoundToTick(price, tick) == ((2 * price + tick) \div (2 * tick)) * tick

LimitPriceAcceptable(limits, intent, context) ==
  intent.price # NoPrice =>
    /\ RoundToTick(intent.price, context.instrument.tick) = intent.price
    /\ 1000 * Abs(intent.price - context.market.last)
         =< limits.priceCollar * context.market.last

\* resulting is context.current_position.quantity_after the order.
Approves(limits, intent, resulting, context) ==
  /\ ~context.killSwitchActive
  /\ context.positionsReconciled
  /\ context.account.age =< limits.accountStaleAfter
  /\ context.market.age =< limits.marketDataStaleAfter
  /\ intent.instrument = context.instrumentId
  /\ context.realizedPnl > -limits.maxDailyLoss
  /\ ~RateLimitReached(limits, context.recent)
  /\ ~HasPotentialSelfMatch(intent, context.working)
  /\ QuoteUsable(limits, context.market)
  /\ SizesWithinLimits(limits, intent, resulting, context)
  /\ MarginsWithinLimits(limits, context.account, context.margin)
  /\ context.instrument.tradable
  /\ intent \notin context.used
  /\ LimitPriceAcceptable(limits, intent, context)
=============================================================================
