----------------------------- MODULE PositionSizing -----------------------------
(***************************************************************************)
(* Target positions from scores: portfolio/position_sizing.py and          *)
(* application/strategy_targets.py.                                        *)
(*                                                                         *)
(* The result of every Decimal operation is rounded to a number of         *)
(* significant digits, half to even: here Digits of them, where the code   *)
(* has 28.  A Decimal is an integer, in units of 10^-Places.  Amounts of   *)
(* money are whole.                                                        *)
(***************************************************************************)
EXTENDS Integers, FiniteSets, FiniteSetsExt

CONSTANTS
  Digits,
  Places,        \* enough for Digits of the smallest scale and score
  Budget,        \* account_equity * target_risk_fraction
  MaxGross,      \* account_equity * max_gross_risk_fraction
  MaxContracts   \* of one instrument

ASSUME SizingAssumption == {Digits, Places, Budget, MaxGross, MaxContracts} \subseteq Nat \ {0}

Magnitude(x) == IF x < 0 THEN -x ELSE x

Signed(x, n) == IF x < 0 THEN -n ELSE n

\* n / d, rounded to an integer, half to even.
Rounded(n, d) ==
  LET q == n \div d
      r == 2 * (n % d)
  IN IF r > d \/ (r = d /\ q % 2 = 1) THEN q + 1 ELSE q

\* The powers of ten, as a table.
TenTo ==
  LET power[j \in 0..(Places + Digits)] == IF j = 0 THEN 1 ELSE 10 * power[j - 1]
  IN [j \in 0..(Places + Digits) |-> power[j]]

\* n / d as the context rounds it.
Decimal(n, d) ==
  LET step == Min({TenTo[j] : j \in {j \in 0..Places : n \div d < TenTo[j + Digits]}})
  IN step * Rounded(n, d * step)

Unit == TenTo[Places]

\* The magnitude of the mean that a score is.
ScoreMagnitude(score) == Decimal(Magnitude(score.sum) * Unit, score.count)

\* calculate_volatility_target_position, for a positive volatility.
SizedTarget(score, volatility) ==
  LET budget == Decimal(Budget * ScoreMagnitude(score), 1)
      contracts == Decimal(budget, volatility) \div Unit
  IN Signed(score.sum, Min({contracts, MaxContracts}))

GrossRisk(targets, volatilities) ==
  SumFunction([i \in DOMAIN targets |-> Magnitude(targets[i]) * volatilities[i]])

\* Mutant: the scaled quantities are rounded to the nearest.
CappedNearest(targets, volatilities) ==
  LET gross == GrossRisk(targets, volatilities)
      scale == Decimal(MaxGross * Unit, gross)
  IN IF gross <= MaxGross THEN targets
     ELSE [i \in DOMAIN targets |->
             Signed(targets[i], Rounded(Magnitude(targets[i]) * scale, Unit))]

\* cap_position_targets_by_gross_risk: one rounded scale for all targets.
Capped(targets, volatilities) ==
  LET gross == GrossRisk(targets, volatilities)
      scale == Decimal(MaxGross * Unit, gross)
  IN IF gross <= MaxGross THEN targets
     ELSE [i \in DOMAIN targets |->
             Signed(targets[i], Decimal(Magnitude(targets[i]) * scale, 1) \div Unit)]

-----------------------------------------------------------------------------
\* The targets before the cap; flat without a direction or past the last safe
\* trade date.
RawTargets(scores, volatilities, tradable) ==
  [i \in DOMAIN scores |->
     IF scores[i].sum = 0 \/ i \notin tradable THEN 0
     ELSE SizedTarget(scores[i], volatilities[i])]

\* Every instrument that needs a volatility has a positive one; 0 stands for none
\* and for one that is not positive.
Sizable(scores, volatilities, tradable) ==
  \A i \in DOMAIN scores :
     scores[i].sum # 0 /\ i \in tradable => volatilities[i] > 0

\* build_strategy_position_targets, where it does not raise: the targets that are
\* not flat are capped together.
StrategyTargets(scores, volatilities, tradable) ==
  LET raw == RawTargets(scores, volatilities, tradable)
      nonzero == {i \in DOMAIN raw : raw[i] # 0}
      capped == Capped([i \in nonzero |-> raw[i]], volatilities)
  IN [i \in DOMAIN raw |-> IF i \in nonzero THEN capped[i] ELSE raw[i]]
=============================================================================
