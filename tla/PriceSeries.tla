------------------------------ MODULE PriceSeries ------------------------------
(***************************************************************************)
(* Prices of a future over several contracts: the back-adjusted series     *)
(* that market/continuous.py joins from the contracts' own prices, and the *)
(* trend score that strategies/trend_following.py computes from a series.  *)
(*                                                                         *)
(* The prices of a contract are a function from days to closes, a series   *)
(* is a sequence of points.                                                *)
(***************************************************************************)
EXTENDS Integers, Sequences, SequencesExt, FiniteSets, FiniteSetsExt

FirstDay(prices) == Min(DOMAIN prices)

\* Mutant: an adjustment is that of the contract's own roll only.
LastRollOnly(contracts) ==
  [i \in 1..Len(contracts) |->
     IF i = Len(contracts) THEN 0
     ELSE LET roll == FirstDay(contracts[i + 1])
          IN contracts[i + 1][roll] - contracts[i][roll]]

\* What is added to the prices of each contract: it makes up for the difference
\* at its own roll and at every later one.
Adjustments(contracts) ==
  LET adjustment[i \in 1..Len(contracts)] ==
        IF i = Len(contracts) THEN 0
        ELSE LET roll == FirstDay(contracts[i + 1])
             IN (contracts[i + 1][roll] + adjustment[i + 1]) - contracts[i][roll]
  IN adjustment

Chronological(contracts) ==
  \A i \in 2..Len(contracts) : FirstDay(contracts[i - 1]) < FirstDay(contracts[i])

\* Each contract has a price on the day of the roll into the next.
Overlapping(contracts) ==
  \A i \in 2..Len(contracts) : FirstDay(contracts[i]) \in DOMAIN contracts[i - 1]

\* A contract counts up to the day before the roll into the next.
CountedDays(contracts, i) ==
  {d \in DOMAIN contracts[i] :
     i < Len(contracts) => d < FirstDay(contracts[i + 1])}

\* The elements of a set of integers, from the least to the greatest.
Ascending(S) ==
  CHOOSE s \in [1..Cardinality(S) -> S] : \A m, n \in DOMAIN s : m < n => s[m] < s[n]

AdjustedPoints(contracts) ==
  FlattenSeq([i \in 1..Len(contracts) |->
    LET days == Ascending(CountedDays(contracts, i))
    IN [n \in 1..Len(days) |->
          [day |-> days[n], close |-> contracts[i][days[n]] + Adjustments(contracts)[i]]]])

\* Mutant: a price need not be positive.
SeriesOfAnyPrices(contracts) ==
  IF Chronological(contracts) /\ Overlapping(contracts)
  THEN AdjustedPoints(contracts) ELSE << >>

\* build_back_adjusted_continuous_series; empty where it raises, which a price
\* point does too that is not positive.
ContinuousSeries(contracts) ==
  IF /\ Chronological(contracts)
     /\ Overlapping(contracts)
     /\ \A n \in DOMAIN AdjustedPoints(contracts) : AdjustedPoints(contracts)[n].close > 0
  THEN AdjustedPoints(contracts) ELSE << >>

-----------------------------------------------------------------------------
Sign(x) == IF x > 0 THEN 1 ELSE IF x < 0 THEN -1 ELSE 0

\* The lookbacks that a series is long enough for.
Active(series, lookbacks) == {k \in lookbacks : k < Len(series)}

\* calculate_trend_signal: the mean of the directions over the lookbacks, as the
\* sum of them and their number.
TrendScore(series, lookbacks) ==
  LET active == Active(series, lookbacks)
      directions == [k \in active |-> Sign(series[Len(series)].close - series[Len(series) - k].close)]
  IN [sum |-> SumFunction(directions), count |-> Cardinality(active)]
=============================================================================
