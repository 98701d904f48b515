------------------------------ MODULE SignalInputs ------------------------------
(***************************************************************************)
(* From daily bars to target positions.  Several builds of a historical    *)
(* signal input (application/historical_signal_inputs.py) run over one     *)
(* cache file (storage/historical_bars.py): each fetches the bars of its   *)
(* contracts one after the other, merges them into the cache, which is     *)
(* loaded and then written in place without a lock, and joins them to one  *)
(* series.  Their caller scores the series and sizes target positions.     *)
(*                                                                         *)
(* A bar is its close; version, which counts the provider's corrections of *)
(* it, is history.  The provider is external.                              *)
(***************************************************************************)
EXTENDS PriceSeries, PositionSizing

CONSTANTS
  Builds,         \* runs of fetch_continuous_prices
  Contracts,
  Days,           \* a set of integers
  Closes,         \* of bars, positive
  Requests,       \* sequences of segments to build from
  Quotes,         \* what the provider may start with
  Strays,         \* bars that it may send without having been asked for them
  Lookbacks,
  Volatilities,   \* per contract, in money; 0 for none
  Missing,        \* no such file
  Torn,           \* a file that is not a whole cache: every load of it raises
  MaxRevisions    \* bound: corrections of bars

ASSUME InputsAssumption ==
  /\ Days \subseteq Int /\ IsFiniteSet(Days)
  /\ Closes \subseteq Nat \ {0}
  /\ Requests \subseteq Seq([instrument : Contracts, days : SUBSET Days]) \ {<< >>}
  /\ Lookbacks \subseteq Nat \ {0} /\ IsFiniteSet(Lookbacks)
  /\ Volatilities \subseteq Nat
  /\ MaxRevisions \in Nat

\* The provider's bars are uncorrected at first.
ASSUME ProviderAssumption ==
  /\ Strays \subseteq [instrument : Contracts, day : Days, bar : [close : Closes, version : {0}]]
  /\ \A q \in Quotes :
       DOMAIN q \subseteq Contracts \X Days /\ q \in [DOMAIN q -> [close : Closes, version : {0}]]

VARIABLES
  quotes,     \* the provider's bars
  revisions,
  pc,         \* what each build is doing
  segments,   \* its request
  fetched,    \* the bars it has fetched, for each segment
  merged,     \* what it is about to save
  cache,      \* the file
  series,     \* its result
  plan,       \* the inputs of the sizing and its targets
  \* History.
  damaged,    \* the file may hold bytes of a save that was not the last
  since,      \* for each build, those that saved since it began
  outdated    \* builds whose save another one, begun before it, replaced

cacheVars == <<merged, cache, damaged, since, outdated>>
vars == <<quotes, revisions, pc, segments, fetched, cacheVars, series, plan>>

Keys == Contracts \X Days

Bars == [close : Closes, version : 0..MaxRevisions]

\* A partial function from keys to bars.
IsBars(f) == DOMAIN f \subseteq Keys /\ \A k \in DOMAIN f : f[k] \in Bars

\* No file, and one that is not whole, hold no bars.
ASSUME FileAssumption ==
  /\ Missing # Torn
  /\ \A keys \in SUBSET Keys : {Missing, Torn} \cap [keys -> Bars] = {}

NoBars == [k \in {} |-> k]

NoPlan == [scores |-> NoBars, volatilities |-> NoBars, tradable |-> {}, targets |-> NoBars]

Init ==
  /\ quotes \in Quotes
  /\ revisions = 0
  /\ pc = [b \in Builds |-> "idle"]
  /\ segments = [b \in Builds |-> << >>]
  /\ fetched = [b \in Builds |-> << >>]
  /\ merged = [b \in Builds |-> NoBars]
  /\ cache = Missing
  /\ series = [b \in Builds |-> << >>]
  /\ plan = NoPlan
  /\ damaged = FALSE
  /\ since = [b \in Builds |-> {}]
  /\ outdated = {}

-----------------------------------------------------------------------------
(* Fetching.                                                               *)

Begin(b, request) ==
  /\ pc[b] = "idle"
  /\ pc' = [pc EXCEPT ![b] = "fetching"]
  /\ segments' = [segments EXCEPT ![b] = request]
  /\ UNCHANGED <<quotes, revisions, fetched, cacheVars, series, plan>>

\* The bars the provider has for a segment.
Quoted(segment) ==
  {[instrument |-> k[1], day |-> k[2], bar |-> quotes[k]] :
     k \in {k \in DOMAIN quotes : k[1] = segment.instrument /\ k[2] \in segment.days}}

\* get_daily_bars: no bars, one of another instrument, one outside the range and
\* two of a day are all rejected, and the build raises.
Accepted(segment, bars) ==
  /\ bars # {}
  /\ \A x \in bars : x.instrument = segment.instrument /\ x.day \in segment.days
  /\ \A x, y \in bars : x.day = y.day => x = y

Fetch(b, stray) ==
  LET segment == segments[b][Len(fetched[b]) + 1]
      bars == Quoted(segment) \cup stray
      days == {x.day : x \in bars}
      barOf(d) == (CHOOSE x \in bars : x.day = d).bar
  IN
  /\ pc[b] = "fetching"
  /\ Accepted(segment, bars)
  /\ fetched' = [fetched EXCEPT ![b] = Append(@, [d \in days |-> barOf(d)])]
  /\ pc' = [pc EXCEPT ![b] = IF Len(fetched'[b]) = Len(segments[b]) THEN "loading" ELSE @]
  /\ UNCHANGED <<quotes, revisions, segments, cacheVars, series, plan>>

\* The provider fails or its bars are rejected, a file operation fails, or the
\* process is killed; a write cut short leaves its part of the file.
GiveUp(b) ==
  /\ pc[b] \in {"fetching", "loading", "saving", "writing"}
  /\ pc' = [pc EXCEPT ![b] = "failed"]
  /\ merged' = [merged EXCEPT ![b] = NoBars]
  /\ damaged' = (damaged \/ pc[b] = "writing")
  /\ cache' = IF pc[b] = "writing" THEN Torn ELSE cache
  /\ UNCHANGED <<quotes, revisions, segments, fetched, since, outdated, series, plan>>

\* The provider corrects a close.
Revise(k, close) ==
  /\ revisions < MaxRevisions
  /\ \E b \in Builds : pc[b] = "idle" \/ pc[b] = "fetching"
  /\ close # quotes[k].close
  /\ revisions' = revisions + 1
  /\ quotes' = [quotes EXCEPT ![k] = [close |-> close, version |-> @.version + 1]]
  /\ UNCHANGED <<pc, segments, fetched, cacheVars, series, plan>>

-----------------------------------------------------------------------------
(* Caching.                                                                *)

\* The bars a build fetched, the later segment's where two have the same one.
FetchedBars(b) ==
  LET of(k) == {i \in DOMAIN fetched[b] :
                  segments[b][i].instrument = k[1] /\ k[2] \in DOMAIN fetched[b][i]}
  IN [k \in {k \in Keys : of(k) # {}} |-> fetched[b][Max(of(k))][k[2]]]

\* Mutant: a bar that is cached already is kept.
MergedOld(b, cached) ==
  [k \in DOMAIN cached \cup DOMAIN FetchedBars(b) |->
     IF k \in DOMAIN cached THEN cached[k] ELSE FetchedBars(b)[k]]

\* _merge_bars: a fetched bar replaces the cached one.
Merged(b, cached) ==
  [k \in DOMAIN cached \cup DOMAIN FetchedBars(b) |->
     IF k \in DOMAIN FetchedBars(b) THEN FetchedBars(b)[k] ELSE cached[k]]

\* A file that is not a whole cache raises (GiveUp).
Load(b) ==
  /\ pc[b] = "loading"
  /\ cache # Torn
  /\ merged' = [merged EXCEPT ![b] = Merged(b, IF cache = Missing THEN NoBars ELSE cache)]
  /\ pc' = [pc EXCEPT ![b] = "saving"]
  /\ UNCHANGED <<quotes, revisions, segments, fetched, cache, damaged, since, outdated,
                 series, plan>>

\* write_text empties the file,
Truncate(b) ==
  /\ pc[b] = "saving"
  /\ pc' = [pc EXCEPT ![b] = "writing"]
  /\ cache' = Torn
  /\ damaged' = FALSE
  /\ UNCHANGED <<quotes, revisions, segments, fetched, merged, since, outdated, series, plan>>

Writing(b) == pc[b] = "writing"

\* The closes of each segment, as fetched.
ContractPrices(b) ==
  [i \in DOMAIN fetched[b] |-> [d \in DOMAIN fetched[b][i] |-> fetched[b][i][d].close]]

\* ... and writes from its beginning, over what others may have written since.
\* The build then joins the series, or raises.
Write(b) ==
  LET result == ContinuousSeries(ContractPrices(b))
  IN
  /\ Writing(b)
  /\ \/ cache' = merged[b] /\ damaged' = FALSE
     \/ (cache # Torn \/ damaged) /\ cache' = Torn /\ damaged' = TRUE
  /\ merged' = [merged EXCEPT ![b] = NoBars]
  /\ since' = [c \in Builds |->
       IF c # b /\ pc[c] \in {"fetching", "loading", "saving", "writing"}
       THEN since[c] \cup {b} ELSE since[c]]
  /\ outdated' = outdated \cup since[b]
  /\ series' = [series EXCEPT ![b] = result]
  /\ pc' = [pc EXCEPT ![b] = IF result = << >> THEN "unusable" ELSE "delivered"]
  /\ UNCHANGED <<quotes, revisions, segments, fetched, plan>>

-----------------------------------------------------------------------------
(* Sizing.                                                                 *)

Delivered == {b \in Builds : pc[b] = "delivered"}

Ended(b) == pc[b] \in {"delivered", "unusable", "failed"}

\* A build is for the contract it ends with.
Instrument(b) == Last(segments[b]).instrument

\* Two signals for an instrument, or a volatility that is missing where it is
\* needed, raise: there are no targets.
Size(volatilities, tradable) ==
  LET instruments == {Instrument(b) : b \in Delivered}
      build(i) == CHOOSE b \in Delivered : Instrument(b) = i
      scores == [i \in instruments |-> TrendScore(series[build(i)], Lookbacks)]
  IN
  /\ plan = NoPlan
  /\ Delivered # {}
  /\ \A b \in Builds : Ended(b)
  /\ Cardinality(instruments) = Cardinality(Delivered)
  /\ Sizable(scores, volatilities, tradable)
  /\ plan' = [scores |-> scores, volatilities |-> volatilities, tradable |-> tradable,
              targets |-> StrategyTargets(scores, volatilities, tradable)]
  /\ UNCHANGED <<quotes, revisions, pc, segments, fetched, cacheVars, series>>

Build(b) ==
  \/ \E request \in Requests : Begin(b, request)
  \/ \E stray \in {{}} \cup {{x} : x \in Strays} : Fetch(b, stray)
  \/ Load(b) \/ Truncate(b) \/ Write(b) \/ GiveUp(b)

Next ==
  \/ \E b \in Builds : Build(b)
  \/ \E k \in DOMAIN quotes, close \in Closes : Revise(k, close)
  \/ \E tradable \in SUBSET {Instrument(b) : b \in Delivered},
        volatilities \in [{Instrument(b) : b \in Delivered} -> Volatilities] :
        Size(volatilities, tradable)

Spec == Init /\ [][Next]_vars

-----------------------------------------------------------------------------
\* What is cached and in hand are bars, a series has positive closes, and a build
\* that was not told to fetch has nothing.
TypeOK ==
  /\ IsBars(quotes)
  /\ revisions \in 0..MaxRevisions
  /\ pc \in [Builds -> {"idle", "fetching", "loading", "saving", "writing",
                        "delivered", "unusable", "failed"}]
  /\ segments \in [Builds -> Requests \cup {<< >>}]
  /\ cache \in {Missing, Torn} \/ IsBars(cache)
  /\ damaged \in BOOLEAN
  /\ since \in [Builds -> SUBSET Builds]
  /\ outdated \subseteq Builds
  /\ \A b \in Builds :
       /\ IsBars(merged[b])
       /\ Len(fetched[b]) <= Len(segments[b])
       /\ \A i \in DOMAIN fetched[b] :
            /\ DOMAIN fetched[b][i] \subseteq Days
            /\ \A d \in DOMAIN fetched[b][i] : fetched[b][i][d] \in Bars
       /\ \A n \in DOMAIN series[b] :
            series[b][n].day \in Days /\ series[b][n].close \in Nat \ {0}

\* Every bar that a build fetched stays in the cache once it has saved it, in that
\* version or a later one, unless a build that began before the save saves after
\* it; and the file is a whole cache unless somebody is writing it, or a write
\* failed or fell into another one.
CacheKeepsFetched ==
  /\ cache = Torn => damaged \/ \E b \in Builds : Writing(b)
  /\ \A b \in Builds \ outdated :
       pc[b] \in {"delivered", "unusable"} /\ cache # Torn =>
         \A k \in DOMAIN FetchedBars(b) :
           k \in DOMAIN cache /\ cache[k].version >= FetchedBars(b)[k].version

\* The contract held into a day: the last one with an earlier price.  A roll day's
\* change is still that of the old contract.
HeldInto(prices, day) == Max({i \in DOMAIN prices : FirstDay(prices[i]) < day})

\* A series changes from each of its days to the next by what the held contract
\* changed, whatever the rolls; it leaves out no day of that contract, and it ends
\* with the last contract's own last close.
SeriesKeepsChanges ==
  \A b \in Delivered :
    LET prices == ContractPrices(b)
        last == prices[Len(prices)]
        s == series[b]
    IN
    /\ s[1].day = FirstDay(prices[1])
    /\ s[Len(s)] = [day |-> Max(DOMAIN last), close |-> last[Max(DOMAIN last)]]
    /\ \A n \in 2..Len(s) :
         LET held == prices[HeldInto(prices, s[n].day)]
         IN /\ {s[n - 1].day, s[n].day} \subseteq DOMAIN held
            /\ DOMAIN held \cap (s[n - 1].day)..(s[n].day) = {s[n - 1].day, s[n].day}
            /\ s[n].close - s[n - 1].close = held[s[n].day] - held[s[n - 1].day]

\* n, or one less where there is one: what is lost by rounding before the floor.
NearlyAll(n) == {n, Max({n - 1, 0})}

\* The targets together risk no more than the cap.  Each is in the direction of its
\* score and only in what may be traded; its size is the exact one, rounded down
\* when it is sized and again when it is capped, or one contract less each time.
TargetsWithinRisk ==
  plan # NoPlan =>
    LET volatility == plan.volatilities
        raw == RawTargets(plan.scores, volatility, plan.tradable)
        gross == GrossRisk(raw, volatility)
    IN
    /\ GrossRisk(plan.targets, volatility) <= MaxGross
    /\ \A i \in DOMAIN plan.targets :
         LET target == plan.targets[i]
             score == plan.scores[i]
         IN IF i \notin plan.tradable \/ score.sum = 0 THEN target = 0
            ELSE
            /\ target # 0 => Sign(target) = Sign(score.sum)
            /\ Magnitude(raw[i]) \in
                 NearlyAll(Min({MaxContracts, (Budget * Magnitude(score.sum)) \div
                                                (score.count * volatility[i])}))
            /\ Magnitude(target) \in
                 IF gross <= MaxGross THEN {Magnitude(raw[i])}
                 ELSE NearlyAll((Magnitude(raw[i]) * MaxGross) \div gross)

=============================================================================
