-------------------------- MODULE SignalInputsProofs --------------------------
(***************************************************************************)
(* Proofs about SignalInputs, for any number of builds, contracts, days,   *)
(* segments, revisions and interleavings of the builds' saves, and for any *)
(* amounts that the digits of the arithmetic suffice for.                  *)
(***************************************************************************)
EXTENDS SignalInputs, FiniteSetTheorems, SequenceTheorems, FunctionTheorems, TLAPS

-----------------------------------------------------------------------------
(* Finite sets of integers.                                                *)

LEMMA NatSet ==
  ASSUME NEW S, 0 \in S, \A n \in Nat : n \in S => n + 1 \in S
  PROVE  \A n \in Nat : n \in S
<1> SUFFICES ASSUME NEW n \in Nat, n \notin S PROVE FALSE
  OBVIOUS
<1> DEFINE A == {i \in 0..n : i \in S}
           f == [i \in A |-> i + 1]
<1>1. IsFiniteSet(0..n)
  BY FS_Interval
<1>2. IsFiniteSet(A)
  BY <1>1, FS_Subset
<1>3. \A i \in A : i + 1 \in A
  OBVIOUS
<1>4. f \in Injection(A, A)
  BY <1>3 DEF Injection, IsInjective
<1>5. f \in Surjection(A, A)
  <2> HIDE DEF A, f
  <2> QED
    BY <1>2, <1>4, FS_Injection
<1>6. 0 \in A
  OBVIOUS
<1>7. PICK i \in A : f[i] = 0
  BY <1>5, <1>6 DEF Surjection
<1> QED
  BY <1>7

LEMMA OneLess ==
  ASSUME NEW s, IsFiniteSet(s), NEW n \in Nat, Cardinality(s) = n + 1, NEW x \in s
  PROVE  Cardinality(s \ {x}) = n
<1>1. Cardinality(s \ {x}) = Cardinality(s) - 1
  BY FS_RemoveElement
<1> QED
  BY <1>1

\* A finite set of integers has a greatest and a least one.
LEMMA BoundsExist ==
  ASSUME NEW S, IsFiniteSet(S), S \subseteq Int, S # {}
  PROVE  /\ \E m \in S : \A x \in S : m >= x
         /\ \E m \in S : \A x \in S : m =< x
<1> DEFINE Bounded(T) == /\ \E m \in T : \A x \in T : m >= x
                         /\ \E m \in T : \A x \in T : m =< x
           Sized(n) == {T \in SUBSET S : Cardinality(T) = n + 1}
           Good == {n \in Nat : \A T \in Sized(n) : Bounded(T)}
<1>0. \A T \in SUBSET S : IsFiniteSet(T) /\ Cardinality(T) \in Nat
  BY FS_Subset, FS_CardinalityType
<1>1. 0 \in Good
  <2> SUFFICES ASSUME NEW T \in Sized(0) PROVE Bounded(T)
    OBVIOUS
  <2>1. PICK x : T = {x}
    BY <1>0, FS_Singleton
  <2>2. x \in Int
    BY <2>1
  <2>3. x >= x /\ x =< x
    BY <2>2
  <2> QED
    BY <2>1, <2>3
<1>2. ASSUME NEW n \in Nat, n \in Good PROVE n + 1 \in Good
  <2> SUFFICES ASSUME NEW T \in Sized(n + 1) PROVE Bounded(T)
    OBVIOUS
  <2>1. T # {} /\ IsFiniteSet(T) /\ Cardinality(T) = n + 1 + 1
    BY <1>0, FS_EmptySet
  <2>2. PICK x : x \in T
    BY <2>1
  <2>3. Cardinality(T \ {x}) = n + 1
    BY <2>1, <2>2, OneLess
  <2>4. T \ {x} \in Sized(n)
    BY <2>3
  <2>5. Bounded(T \ {x})
    BY <1>2, <2>4
  <2>6. PICK m \in T \ {x} : \A y \in T \ {x} : m >= y
    BY <2>5
  <2>7. PICK l \in T \ {x} : \A y \in T \ {x} : l =< y
    BY <2>5
  <2>8. x \in Int /\ m \in Int /\ l \in Int /\ \A y \in T : y \in Int
    BY <2>2
  <2>9. \E k \in T : \A y \in T : k >= y
    <3>1. CASE m >= x
      BY <2>6, <3>1
    <3>2. CASE ~(m >= x)
      <4>1. \A y \in T : x >= y
        BY <2>6, <2>8, <3>2
      <4> QED
        BY <2>2, <4>1
    <3> QED
      BY <3>1, <3>2
  <2>10. \E k \in T : \A y \in T : k =< y
    <3>1. CASE l =< x
      BY <2>7, <3>1
    <3>2. CASE ~(l =< x)
      <4>1. \A y \in T : x =< y
        BY <2>7, <2>8, <3>2
      <4> QED
        BY <2>2, <4>1
    <3> QED
      BY <3>1, <3>2
  <2> QED
    BY <2>9, <2>10
<1>3. \A n \in Nat : n \in Good
  <2> HIDE DEF Good
  <2> QED
    BY <1>1, <1>2, NatSet
<1>4. PICK n \in Nat : Cardinality(S) = n + 1
  <2>1. Cardinality(S) \in Nat /\ Cardinality(S) # 0
    BY <1>0, FS_EmptySet
  <2>2. Cardinality(S) - 1 \in Nat /\ Cardinality(S) = (Cardinality(S) - 1) + 1
    BY <2>1
  <2> QED
    BY <2>2
<1>5. S \in Sized(n)
  BY <1>4
<1>6. Bounded(S)
  BY <1>3, <1>5
<1> QED
  BY <1>6

LEMMA Bounds ==
  ASSUME NEW S, IsFiniteSet(S), S \subseteq Int, S # {}
  PROVE  /\ Max(S) \in S /\ \A x \in S : Max(S) >= x
         /\ Min(S) \in S /\ \A x \in S : Min(S) =< x
BY BoundsExist DEF Max, Min

LEMMA LastPlace ==
  ASSUME NEW n \in Nat, NEW S \in SUBSET (1..n), S # {}
  PROVE  Max(S) \in S
<1>1. IsFiniteSet(1..n)
  BY FS_Interval
<1>2. S \subseteq Int
  OBVIOUS
<1>3. IsFiniteSet(S)
  BY <1>1, FS_Subset
<1> QED
  BY <1>2, <1>3, Bounds

-----------------------------------------------------------------------------
(* Types.                                                                  *)

Segments == [instrument : Contracts, days : SUBSET Days]

\* What is fetched for a segment, and what a file holds.
Prices == UNION {[days -> Bars] : days \in (SUBSET Days) \ {{}}}

Files == UNION {[keys -> Bars] : keys \in SUBSET Keys}

States == {"idle", "fetching", "loading", "saving", "writing", "delivered", "unusable",
           "failed"}

QuotesTyped ==
  /\ IsBars(quotes)
  /\ revisions \in 0..MaxRevisions
  /\ \A k \in DOMAIN quotes : quotes[k].version =< revisions

BuildsTyped ==
  /\ pc \in [Builds -> States]
  /\ segments \in [Builds -> Seq(Segments)]
  /\ fetched \in [Builds -> Seq(Prices)]
  /\ \A b \in Builds : segments[b] \in Requests \cup {<< >>}

FilesTyped ==
  /\ merged \in [Builds -> Files]
  /\ cache \in {Missing, Torn} \cup Files
  /\ damaged \in BOOLEAN
  /\ since \in [Builds -> SUBSET Builds]
  /\ outdated \subseteq Builds

\* A build fetches its segments in order, and all of them before it loads.
Progress ==
  \A b \in Builds :
    /\ pc[b] = "idle" => segments[b] = << >> /\ fetched[b] = << >>
    /\ pc[b] = "fetching" => Len(fetched[b]) < Len(segments[b])
    /\ Len(fetched[b]) =< Len(segments[b])
    /\ pc[b] \in {"loading", "saving", "writing", "delivered", "unusable"} =>
         segments[b] # << >> /\ Len(fetched[b]) = Len(segments[b])

InputsTyped == QuotesTyped /\ BuildsTyped /\ FilesTyped /\ Progress

\* The version of a bar that the provider sends now.
Current(k) == IF k \in DOMAIN quotes THEN quotes[k].version ELSE 0

LEMMA NoBarsType == NoBars \in Files
<1>1. NoBars \in [{} -> Bars]
  BY DEF NoBars
<1> QED
  BY <1>1 DEF Files

\* What a fetch appends: bars of the segment, of the provider's versions.
LEMMA FetchedBar ==
  ASSUME QuotesTyped, BuildsTyped, Progress, NEW b \in Builds,
         NEW stray \in {{}} \cup {{x} : x \in Strays}, Fetch(b, stray)
  PROVE  \E p \in Prices :
           /\ fetched' = [fetched EXCEPT ![b] = Append(@, p)]
           /\ \A d \in DOMAIN p :
                /\ d \in segments[b][Len(fetched[b]) + 1].days
                /\ p[d].version = Current(<<segments[b][Len(fetched[b]) + 1].instrument, d>>)
<1> DEFINE segment == segments[b][Len(fetched[b]) + 1]
           bars == Quoted(segment) \cup stray
           days == {x.day : x \in bars}
           barOf(d) == (CHOOSE x \in bars : x.day = d).bar
           p == [d \in days |-> barOf(d)]
<1>1. segment \in Segments
  <2>1. Len(fetched[b]) < Len(segments[b]) /\ Len(fetched[b]) \in Nat
        /\ Len(segments[b]) \in Nat /\ segments[b] \in Seq(Segments)
    BY DEF Fetch, Progress, BuildsTyped
  <2>2. Len(fetched[b]) + 1 \in 1..Len(segments[b])
    BY <2>1
  <2> QED
    BY <2>1, <2>2
<1>2. /\ Accepted(segment, bars)
      /\ fetched' = [fetched EXCEPT ![b] = Append(@, p)]
  BY DEF Fetch
<1> HIDE DEF segment
<1>3. ASSUME NEW x \in Quoted(segment)
      PROVE  <<segment.instrument, x.day>> \in DOMAIN quotes /\ x.day \in Days
             /\ x.bar = quotes[<<segment.instrument, x.day>>] /\ x.bar \in Bars
  BY <1>3 DEF Quoted, QuotesTyped, IsBars, Keys
<1>4. ASSUME NEW x \in stray
      PROVE  x.day \in Days /\ x.bar \in Bars /\ x.bar.version = 0
  <2>1. x \in Strays
    BY <1>4
  <2>2. x \in [instrument : Contracts, day : Days, bar : [close : Closes, version : {0}]]
    BY <2>1, ProviderAssumption
  <2>3. 0 \in 0..MaxRevisions
    BY InputsAssumption
  <2> QED
    BY <2>2, <2>3 DEF Bars
<1>5. ASSUME NEW x \in bars, <<segment.instrument, x.day>> \in DOMAIN quotes
      PROVE  x.bar = quotes[<<segment.instrument, x.day>>]
  <2>1. x.instrument = segment.instrument /\ x.day \in segment.days
    BY <1>2 DEF Accepted
  <2> DEFINE k == <<segment.instrument, x.day>>
             y == [instrument |-> k[1], day |-> k[2], bar |-> quotes[k]]
  <2>2. y \in Quoted(segment)
    BY <1>5, <2>1 DEF Quoted
  <2>3. x = y
    BY <1>2, <2>2 DEF Accepted
  <2> QED
    BY <2>3
<1>6. ASSUME NEW x \in bars
      PROVE  /\ x.day \in Days /\ x.day \in segment.days /\ x.bar \in Bars
             /\ x.bar.version = Current(<<segment.instrument, x.day>>)
  <2>1. x.day \in segment.days
    BY <1>2 DEF Accepted
  <2>2. CASE x \in Quoted(segment)
    BY <1>3, <2>1, <2>2 DEF Current
  <2>3. CASE x \in stray
    BY <1>4, <1>5, <2>1, <2>3 DEF Current
  <2> QED
    BY <2>2, <2>3
<1> HIDE DEF bars
<1>7. ASSUME NEW d \in days
      PROVE  /\ d \in Days /\ d \in segment.days /\ p[d] \in Bars
             /\ p[d].version = Current(<<segment.instrument, d>>)
  <2>1. PICK x \in bars : x.day = d
    BY <1>7
  <2> DEFINE y == CHOOSE y \in bars : y.day = d
  <2>2. y \in bars /\ y.day = d
    BY <2>1
  <2>3. p[d] = y.bar
    BY <1>7
  <2> HIDE DEF y, p
  <2> QED
    BY <1>6, <2>2, <2>3
<1>8. days # {} /\ days \subseteq Days
  <2>1. bars # {}
    BY <1>2 DEF Accepted
  <2> QED
    BY <1>6, <2>1
<1>9. p \in [days -> Bars]
  BY <1>7
<1>10. p \in Prices
  BY <1>8, <1>9 DEF Prices
<1> QED
  <2>1. DOMAIN p = days
    OBVIOUS
  <2> HIDE DEF p, days
  <2> QED
    BY <1>2, <1>7, <1>10, <2>1 DEF segment

\* The places of a build's bars of k, and the bars.
PlacesOf(b, k) ==
  {i \in DOMAIN fetched[b] :
     segments[b][i].instrument = k[1] /\ k[2] \in DOMAIN fetched[b][i]}

LEMMA FetchedBarsAre ==
  ASSUME BuildsTyped, NEW b \in Builds
  PROVE  /\ FetchedBars(b) \in Files
         /\ DOMAIN FetchedBars(b) = {k \in Keys : PlacesOf(b, k) # {}}
         /\ \A k \in DOMAIN FetchedBars(b) :
              \E i \in PlacesOf(b, k) : FetchedBars(b)[k] = fetched[b][i][k[2]]
<1> DEFINE keys == {k \in Keys : PlacesOf(b, k) # {}}
           f == [k \in keys |-> fetched[b][Max(PlacesOf(b, k))][k[2]]]
<1>1. FetchedBars(b) = f
  BY DEF FetchedBars, PlacesOf
<1>2. ASSUME NEW k \in keys
      PROVE  /\ Max(PlacesOf(b, k)) \in PlacesOf(b, k)
             /\ fetched[b][Max(PlacesOf(b, k))][k[2]] \in Bars
  <2>1. fetched[b] \in Seq(Prices) /\ Len(fetched[b]) \in Nat
        /\ DOMAIN fetched[b] = 1..Len(fetched[b])
    BY DEF BuildsTyped
  <2>2. PlacesOf(b, k) \in SUBSET (1..Len(fetched[b])) /\ PlacesOf(b, k) # {}
    BY <2>1 DEF PlacesOf
  <2>3. Max(PlacesOf(b, k)) \in PlacesOf(b, k)
    BY <2>1, <2>2, LastPlace
  <2>4. PICK i \in 1..Len(fetched[b]) : i = Max(PlacesOf(b, k))
    BY <2>2, <2>3
  <2>5. i \in PlacesOf(b, k)
    BY <2>3, <2>4
  <2>6. fetched[b][i] \in Prices /\ k[2] \in DOMAIN fetched[b][i]
    BY <2>1, <2>5 DEF PlacesOf
  <2> QED
    BY <2>3, <2>4, <2>6 DEF Prices
<1>3. f \in [keys -> Bars]
  BY <1>2
<1>4. \A k \in keys : \E i \in PlacesOf(b, k) : f[k] = fetched[b][i][k[2]]
  BY <1>2
<1>5. f \in Files
  BY <1>3 DEF Files
<1>6. DOMAIN f = keys
  OBVIOUS
<1> QED
  BY <1>1, <1>4, <1>5, <1>6

LEMMA MergedBars ==
  ASSUME BuildsTyped, NEW b \in Builds, NEW cached \in Files
  PROVE  Merged(b, cached) \in Files
<1>1. FetchedBars(b) \in Files
  BY FetchedBarsAre
<1> DEFINE keys == DOMAIN cached \cup DOMAIN FetchedBars(b)
<1>2. Merged(b, cached) \in [keys -> Bars]
  <2> SUFFICES ASSUME NEW k \in keys
               PROVE  (IF k \in DOMAIN FetchedBars(b) THEN FetchedBars(b)[k] ELSE cached[k])
                        \in Bars
    BY DEF Merged
  <2> QED
    BY <1>1 DEF Files
<1>3. keys \in SUBSET Keys
  BY <1>1 DEF Files
<1> QED
  BY <1>2, <1>3 DEF Files

LEMMA TypesInit == Init => InputsTyped
<1> SUFFICES ASSUME Init PROVE InputsTyped
  OBVIOUS
<1>1. QuotesTyped
  <2>1. quotes \in Quotes /\ revisions = 0
    BY DEF Init
  <2>2. MaxRevisions \in Nat
    BY InputsAssumption
  <2>3. DOMAIN quotes \subseteq Keys
        /\ \A k \in DOMAIN quotes : quotes[k] \in [close : Closes, version : {0}]
    BY <2>1, ProviderAssumption DEF Keys
  <2>4. \A k \in DOMAIN quotes : quotes[k] \in Bars /\ quotes[k].version = 0
    BY <2>2, <2>3 DEF Bars
  <2> QED
    BY <2>1, <2>2, <2>3, <2>4 DEF QuotesTyped, IsBars
<1>2. BuildsTyped
  <2>1. << >> \in Seq(Segments) /\ << >> \in Seq(Prices)
    OBVIOUS
  <2> QED
    BY <2>1 DEF Init, BuildsTyped, States
<1>3. FilesTyped
  BY NoBarsType DEF Init, FilesTyped
<1>4. Progress
  BY DEF Init, Progress
<1> QED
  BY <1>1, <1>2, <1>3, <1>4 DEF InputsTyped

LEMMA BeginTypes ==
  ASSUME InputsTyped, NEW b \in Builds, NEW request \in Requests, Begin(b, request)
  PROVE  InputsTyped'
<1> USE DEF InputsTyped, Begin, cacheVars
<1>1. QuotesTyped'
  BY DEF QuotesTyped, IsBars
<1>2. request \in Seq(Segments) /\ request # << >>
  BY InputsAssumption DEF Segments
<1>3. BuildsTyped'
  BY <1>2 DEF BuildsTyped, States
<1>4. FilesTyped'
  BY DEF FilesTyped
<1>5. Progress'
  <2>1. /\ fetched[b] = << >> /\ Len(<< >>) = 0 /\ Len(request) \in Nat
        /\ Len(request) # 0
    BY <1>2 DEF Progress
  <2>2. /\ pc' = [pc EXCEPT ![b] = "fetching"] /\ fetched' = fetched
        /\ segments' = [segments EXCEPT ![b] = request]
        /\ pc \in [Builds -> States] /\ segments \in [Builds -> Seq(Segments)]
    BY DEF BuildsTyped
  <2>3. 0 < Len(request)
    BY <2>1
  <2> QED
    BY <2>1, <2>2, <2>3 DEF Progress
<1> QED
  BY <1>1, <1>3, <1>4, <1>5

LEMMA FetchTypes ==
  ASSUME InputsTyped, NEW b \in Builds, NEW stray \in {{}} \cup {{x} : x \in Strays},
         Fetch(b, stray)
  PROVE  InputsTyped'
<1>0. UNCHANGED <<quotes, revisions, segments, merged, cache, damaged, since, outdated>>
  BY DEF Fetch, cacheVars
<1>1. QuotesTyped'
  BY <1>0 DEF InputsTyped, QuotesTyped, IsBars
<1>2. PICK p \in Prices : fetched' = [fetched EXCEPT ![b] = Append(@, p)]
  BY FetchedBar DEF InputsTyped
<1>3. /\ pc \in [Builds -> States]
      /\ segments \in [Builds -> Seq(Segments)]
      /\ fetched \in [Builds -> Seq(Prices)]
      /\ pc[b] = "fetching"
      /\ pc' = [pc EXCEPT ![b] =
                  IF Len(fetched'[b]) = Len(segments[b]) THEN "loading" ELSE @]
  BY DEF InputsTyped, BuildsTyped, Fetch
<1>4. BuildsTyped'
  <2>1. fetched' \in [Builds -> Seq(Prices)]
    BY <1>2, <1>3
  <2>2. pc' \in [Builds -> States]
    BY <1>3 DEF States
  <2> QED
    BY <1>0, <2>1, <2>2 DEF InputsTyped, BuildsTyped
<1>5. FilesTyped'
  BY <1>0 DEF InputsTyped, FilesTyped
<1>6. Progress'
  <2>1. /\ Len(fetched'[b]) = Len(fetched[b]) + 1
        /\ Len(fetched[b]) \in Nat /\ Len(segments[b]) \in Nat
        /\ Len(fetched[b]) < Len(segments[b])
        /\ segments[b] \in Seq(Segments)
    BY <1>2, <1>3 DEF InputsTyped, Progress
  <2>2. /\ Len(fetched'[b]) =< Len(segments[b])
        /\ Len(fetched'[b]) # Len(segments[b]) => Len(fetched'[b]) < Len(segments[b])
        /\ segments[b] # << >>
    BY <2>1
  <2>3. \A c \in Builds : c # b => fetched'[c] = fetched[c] /\ pc'[c] = pc[c]
    BY <1>2, <1>3
  <2>4. pc'[b] = IF Len(fetched'[b]) = Len(segments[b]) THEN "loading" ELSE "fetching"
    BY <1>3
  <2> QED
    BY <1>0, <2>2, <2>3, <2>4 DEF InputsTyped, Progress
<1> QED
  BY <1>1, <1>4, <1>5, <1>6 DEF InputsTyped

\* The steps of a save leave the provider and what is fetched alone.
LEMMA SaveStepTypes ==
  ASSUME InputsTyped, NEW b \in Builds, Load(b) \/ Truncate(b) \/ Write(b) \/ GiveUp(b)
  PROVE  InputsTyped'
<1>0. /\ UNCHANGED <<quotes, revisions, segments, fetched>>
      /\ pc[b] \in {"fetching", "loading", "saving", "writing"}
      /\ \E s \in {"saving", "writing", "unusable", "delivered", "failed"} :
           /\ pc' = [pc EXCEPT ![b] = s]
           /\ s # "failed" => pc[b] # "fetching"
  BY DEF Load, Truncate, Write, GiveUp, Writing
<1>1. QuotesTyped'
  BY <1>0 DEF InputsTyped, QuotesTyped, IsBars
<1>2. BuildsTyped'
  BY <1>0 DEF InputsTyped, BuildsTyped, States
<1>3. Progress'
  BY <1>0 DEF InputsTyped, BuildsTyped, Progress
<1>4. FilesTyped'
  <2>0. /\ merged \in [Builds -> Files] /\ cache \in {Missing, Torn} \cup Files
        /\ damaged \in BOOLEAN /\ since \in [Builds -> SUBSET Builds]
        /\ outdated \subseteq Builds /\ NoBars \in Files /\ BuildsTyped
    BY NoBarsType DEF InputsTyped, FilesTyped
  <2>1. CASE Load(b)
    <3>1. Merged(b, IF cache = Missing THEN NoBars ELSE cache) \in Files
      BY <2>0, <2>1, MergedBars DEF Load
    <3> QED
      BY <2>0, <2>1, <3>1 DEF Load, FilesTyped
  <2>2. CASE Truncate(b)
    BY <2>0, <2>2 DEF Truncate, FilesTyped
  <2>3. CASE Write(b)
    <3>1. /\ merged' = [merged EXCEPT ![b] = NoBars]
          /\ cache' \in {Torn, merged[b]} /\ damaged' \in BOOLEAN
          /\ since' = [c \in Builds |->
               IF c # b /\ pc[c] \in {"fetching", "loading", "saving", "writing"}
               THEN since[c] \cup {b} ELSE since[c]]
          /\ outdated' = outdated \cup since[b]
      BY <2>3 DEF Write
    <3>2. since' \in [Builds -> SUBSET Builds]
      BY <2>0, <3>1
    <3> QED
      BY <2>0, <3>1, <3>2 DEF FilesTyped
  <2>4. CASE GiveUp(b)
    BY <2>0, <2>4 DEF GiveUp, FilesTyped
  <2> QED
    BY <2>1, <2>2, <2>3, <2>4
<1> QED
  BY <1>1, <1>2, <1>3, <1>4 DEF InputsTyped

LEMMA ReviseTypes ==
  ASSUME InputsTyped, NEW k \in DOMAIN quotes, NEW close \in Closes, Revise(k, close)
  PROVE  /\ InputsTyped'
         /\ \A j : Current(j) \in Nat /\ Current(j)' >= Current(j)
<1>0. /\ UNCHANGED <<pc, segments, fetched, merged, cache, damaged, since, outdated>>
      /\ revisions' = revisions + 1 /\ revisions < MaxRevisions
      /\ quotes' = [quotes EXCEPT ![k] = [close |-> close, version |-> @.version + 1]]
  BY DEF Revise, cacheVars
<1>1. MaxRevisions \in Nat
  BY InputsAssumption
<1>2. /\ DOMAIN quotes' = DOMAIN quotes
      /\ quotes'[k] = [close |-> close, version |-> quotes[k].version + 1]
      /\ \A j \in DOMAIN quotes : j # k => quotes'[j] = quotes[j]
  BY <1>0
<1>3. \A j \in DOMAIN quotes :
        quotes[j].version \in Nat /\ quotes[j].version =< revisions
        /\ quotes[j].close \in Closes /\ quotes[j] \in Bars /\ revisions \in Nat
  BY <1>1 DEF InputsTyped, QuotesTyped, IsBars, Bars
<1>4. QuotesTyped'
  <2>1. revisions' \in 0..MaxRevisions
    BY <1>0, <1>1, <1>3
  <2>2. quotes'[k].version \in 0..MaxRevisions /\ quotes'[k].version =< revisions'
    BY <1>0, <1>1, <1>2, <1>3
  <2>3. quotes'[k] \in Bars
    BY <1>2, <2>2 DEF Bars
  <2>4. \A j \in DOMAIN quotes : quotes'[j] \in Bars /\ quotes'[j].version =< revisions'
    BY <1>0, <1>2, <1>3, <2>2, <2>3
  <2> QED
    BY <1>2, <2>1, <2>4 DEF InputsTyped, QuotesTyped, IsBars
<1>5. BuildsTyped' /\ FilesTyped' /\ Progress'
  BY <1>0 DEF InputsTyped, BuildsTyped, FilesTyped, Progress
<1>6. ASSUME NEW j PROVE Current(j) \in Nat /\ Current(j)' >= Current(j)
  <2>1. CASE j \in DOMAIN quotes /\ j # k
    BY <1>2, <1>3, <2>1 DEF Current
  <2>2. CASE j = k
    BY <1>2, <1>3, <2>2 DEF Current
  <2>3. CASE j \notin DOMAIN quotes
    BY <1>2, <2>3 DEF Current
  <2> QED
    BY <2>1, <2>2, <2>3
<1> QED
  BY <1>4, <1>5, <1>6 DEF InputsTyped

LEMMA IdleTypes ==
  ASSUME InputsTyped,
         UNCHANGED <<quotes, revisions, pc, segments, fetched, cacheVars>>
  PROVE  InputsTyped'
BY DEF InputsTyped, QuotesTyped, IsBars, BuildsTyped, FilesTyped, Progress, cacheVars

LEMMA TypesStep == InputsTyped /\ [Next]_vars => InputsTyped'
<1> SUFFICES ASSUME InputsTyped, [Next]_vars PROVE InputsTyped'
  OBVIOUS
<1>1. ASSUME NEW b \in Builds, Build(b) PROVE InputsTyped'
  BY <1>1, BeginTypes, FetchTypes, SaveStepTypes DEF Build
<1>2. ASSUME NEW k \in DOMAIN quotes, NEW close \in Closes, Revise(k, close)
      PROVE  InputsTyped'
  BY <1>2, ReviseTypes
<1>3. ASSUME NEW volatilities, NEW tradable, Size(volatilities, tradable)
      PROVE  InputsTyped'
  BY <1>3, IdleTypes DEF Size
<1>4. CASE UNCHANGED vars
  BY <1>4, IdleTypes DEF vars
<1> QED
  BY <1>1, <1>2, <1>3, <1>4 DEF Next

LEMMA TypesInvariant == Spec => []InputsTyped
BY TypesInit, TypesStep, PTL DEF Spec

-----------------------------------------------------------------------------
(* The cache.  A build that has saved keeps its bars in the file unless it  *)
(* is outdated; the builds that will save over it either loaded them, or    *)
(* have fetched bars that are no older, or began before.                    *)

Saved(b) == pc[b] \in {"delivered", "unusable"}

\* The bars of f are those that build b fetched, or later versions.
Keeps(f, b) ==
  \A k \in DOMAIN FetchedBars(b) :
    k \in DOMAIN f /\ f[k].version >= FetchedBars(b)[k].version

Key(b, i, d) == <<segments[b][i].instrument, d>>

FileInv ==
  /\ cache = Torn => damaged \/ \E b \in Builds : Writing(b)
  /\ \A b \in Builds :
       Saved(b) => cache # Missing /\ (b \notin outdated /\ cache # Torn => Keeps(cache, b))

InHand ==
  \A c \in Builds : pc[c] \in {"saving", "writing"} =>
    /\ Keeps(merged[c], c)
    /\ \A b \in Builds : Saved(b) /\ b \notin outdated \cup since[c] => Keeps(merged[c], b)

FetchedLater ==
  \A b, c \in Builds :
    Saved(b) /\ pc[c] \in {"fetching", "loading"} /\ b \notin since[c] =>
      \A i \in DOMAIN fetched[c] : \A d \in DOMAIN fetched[c][i] :
        Key(c, i, d) \in DOMAIN FetchedBars(b) =>
          fetched[c][i][d].version >= FetchedBars(b)[Key(c, i, d)].version

NoneNewer ==
  \A b \in Builds : \A i \in DOMAIN fetched[b] : \A d \in DOMAIN fetched[b][i] :
    fetched[b][i][d].version =< Current(Key(b, i, d))

CacheInv == FileInv /\ InHand /\ FetchedLater /\ NoneNewer

LEMMA SameFetched ==
  ASSUME NEW b, fetched'[b] = fetched[b], segments'[b] = segments[b]
  PROVE  FetchedBars(b)' = FetchedBars(b)
BY DEF FetchedBars

\* A fetched bar of a build is no newer than the provider's.
LEMMA FetchedNotNewer ==
  ASSUME InputsTyped, NoneNewer, NEW b \in Builds, NEW k \in DOMAIN FetchedBars(b)
  PROVE  FetchedBars(b)[k].version =< Current(k) /\ FetchedBars(b)[k].version \in Nat
<1>1. BuildsTyped
  BY DEF InputsTyped
<1>2. PICK i \in PlacesOf(b, k) : FetchedBars(b)[k] = fetched[b][i][k[2]]
  BY <1>1, FetchedBarsAre
<1>3. k \in Keys /\ FetchedBars(b) \in Files
  BY <1>1, FetchedBarsAre
<1>4. Key(b, i, k[2]) = k
  BY <1>2, <1>3 DEF PlacesOf, Key, Keys
<1>5. fetched[b][i][k[2]].version =< Current(Key(b, i, k[2]))
  BY <1>2 DEF PlacesOf, NoneNewer
<1>6. FetchedBars(b)[k] \in Bars
  BY <1>3 DEF Files
<1> QED
  BY <1>2, <1>4, <1>5, <1>6 DEF Bars

\* The bars of a typed file have versions.
LEMMA FileVersions ==
  ASSUME NEW f \in Files, NEW k \in DOMAIN f
  PROVE  k \in Keys /\ f[k] \in Bars /\ f[k].version \in Nat
<1>1. k \in Keys /\ f[k] \in Bars
  BY DEF Files
<1> QED
  BY <1>1 DEF Bars

LEMMA WholeFile == \A f \in Files : f # Missing /\ f # Torn
<1> SUFFICES ASSUME NEW f \in Files PROVE f # Missing /\ f # Torn
  OBVIOUS
<1>1. PICK keys \in SUBSET Keys : f \in [keys -> Bars]
  BY DEF Files
<1>2. {Missing, Torn} \cap [keys -> Bars] = {}
  BY FileAssumption
<1> QED
  BY <1>1, <1>2

\* Steps that leave the builds and the files alone.
LEMMA CacheUnchanged ==
  ASSUME InputsTyped, CacheInv, UNCHANGED <<pc, segments, fetched, cacheVars>>,
         \A k : Current(k) \in Nat => Current(k)' >= Current(k) /\ Current(k)' \in Nat
  PROVE  CacheInv'
<1>0. UNCHANGED <<merged, cache, damaged, since, outdated>>
  BY DEF cacheVars
<1>1. \A b : FetchedBars(b)' = FetchedBars(b)
  BY SameFetched
<1>2. FileInv'
  BY <1>0, <1>1 DEF CacheInv, FileInv, Writing, Saved, Keeps
<1>3. InHand'
  BY <1>0, <1>1 DEF CacheInv, InHand, Saved, Keeps
<1>4. FetchedLater'
  BY <1>0, <1>1 DEF CacheInv, FetchedLater, Saved, Key
<1>5. NoneNewer'
  <2> SUFFICES ASSUME NEW b \in Builds, NEW i \in DOMAIN fetched[b],
                      NEW d \in DOMAIN fetched[b][i]
               PROVE  fetched[b][i][d].version =< Current(Key(b, i, d))'
    BY DEF NoneNewer, Key
  <2>1. fetched[b][i][d].version =< Current(Key(b, i, d))
    BY DEF CacheInv, NoneNewer
  <2>2. fetched[b][i] \in Prices
    BY DEF InputsTyped, BuildsTyped
  <2>3. fetched[b][i][d] \in Bars
    BY <2>2 DEF Prices
  <2>4. fetched[b][i][d].version \in Nat
    BY <2>3 DEF Bars
  <2>5. PICK k : k = Key(b, i, d)
    OBVIOUS
  <2>6. Current(k) \in Nat
    <3>1. MaxRevisions \in Nat
      BY InputsAssumption
    <3> QED
      BY <3>1 DEF InputsTyped, QuotesTyped, IsBars, Bars, Current
  <2>7. Current(k)' >= Current(k) /\ Current(k)' \in Nat
    BY <2>6
  <2>8. Current(Key(b, i, d))' = Current(k)'
    BY <2>5 DEF Current, Key
  <2>9. fetched[b][i][d].version =< Current(k)
    BY <2>1, <2>5
  <2>10. PICK v \in Nat : v = Current(k)
    BY <2>6
  <2>11. PICK w \in Nat : w = Current(k)'
    BY <2>7
  <2> QED
    BY <2>4, <2>7, <2>8, <2>9, <2>10, <2>11
<1> QED
  BY <1>2, <1>3, <1>4, <1>5 DEF CacheInv

LEMMA BeginCache ==
  ASSUME InputsTyped, CacheInv, NEW b \in Builds, NEW request \in Requests, Begin(b, request)
  PROVE  CacheInv'
<1>0. /\ UNCHANGED <<quotes, fetched, merged, cache, damaged, since, outdated>>
      /\ pc[b] = "idle" /\ pc' = [pc EXCEPT ![b] = "fetching"]
      /\ segments' = [segments EXCEPT ![b] = request]
      /\ pc \in [Builds -> States] /\ segments \in [Builds -> Seq(Segments)]
  BY DEF Begin, cacheVars, InputsTyped, BuildsTyped
<1>1. fetched[b] = << >> /\ DOMAIN fetched[b] = {}
  BY <1>0 DEF InputsTyped, Progress
<1>2. \A c \in Builds : c # b => segments'[c] = segments[c] /\ FetchedBars(c)' = FetchedBars(c)
  BY <1>0, SameFetched
<1>3. \A c \in Builds : /\ Saved(c)' <=> Saved(c)
                        /\ Writing(c)' <=> Writing(c)
                        /\ Saved(c) => c # b
                        /\ pc'[c] \in {"saving", "writing"} =>
                             c # b /\ pc[c] \in {"saving", "writing"}
                        /\ c # b => pc'[c] = pc[c]
  BY <1>0 DEF Saved, Writing
<1>4. FileInv'
  BY <1>0, <1>2, <1>3 DEF CacheInv, FileInv, Keeps
<1>5. InHand'
  BY <1>0, <1>2, <1>3 DEF CacheInv, InHand, Keeps
<1>6. FetchedLater'
  BY <1>0, <1>1, <1>2, <1>3 DEF CacheInv, FetchedLater, Key
<1>7. NoneNewer'
  BY <1>0, <1>1, <1>2 DEF CacheInv, NoneNewer, Key, Current
<1> QED
  BY <1>4, <1>5, <1>6, <1>7 DEF CacheInv

LEMMA FetchCache ==
  ASSUME InputsTyped, CacheInv, NEW b \in Builds,
         NEW stray \in {{}} \cup {{x} : x \in Strays}, Fetch(b, stray)
  PROVE  CacheInv'
<1>0. /\ UNCHANGED <<quotes, segments, merged, cache, damaged, since, outdated>>
      /\ pc[b] = "fetching"
      /\ \E s \in {"fetching", "loading"} : pc' = [pc EXCEPT ![b] = s]
      /\ pc \in [Builds -> States] /\ fetched \in [Builds -> Seq(Prices)]
  BY DEF Fetch, cacheVars, InputsTyped, BuildsTyped
<1> DEFINE last == Len(fetched[b]) + 1
           segment == segments[b][last]
<1>1. PICK p \in Prices :
        /\ fetched' = [fetched EXCEPT ![b] = Append(@, p)]
        /\ \A d \in DOMAIN p : p[d].version = Current(<<segment.instrument, d>>)
  BY FetchedBar DEF InputsTyped
<1>2. \A c \in Builds : c # b => fetched'[c] = fetched[c] /\ FetchedBars(c)' = FetchedBars(c)
  BY <1>0, <1>1, SameFetched
<1>3. \A c \in Builds : /\ Saved(c)' <=> Saved(c)
                        /\ Writing(c)' <=> Writing(c)
                        /\ Saved(c) => c # b
                        /\ pc'[c] \in {"saving", "writing"} =>
                             c # b /\ pc[c] \in {"saving", "writing"}
                        /\ pc'[c] \in {"fetching", "loading"} =>
                             pc[c] \in {"fetching", "loading"}
  BY <1>0 DEF Saved, Writing
<1>4. FileInv'
  BY <1>0, <1>2, <1>3 DEF CacheInv, FileInv, Keeps
<1>5. InHand'
  BY <1>0, <1>2, <1>3 DEF CacheInv, InHand, Keeps
<1>6. /\ DOMAIN fetched'[b] = DOMAIN fetched[b] \cup {last}
      /\ fetched'[b][last] = p
      /\ \A i \in DOMAIN fetched[b] : fetched'[b][i] = fetched[b][i]
  <2>1. fetched'[b] = Append(fetched[b], p) /\ fetched[b] \in Seq(Prices)
    BY <1>0, <1>1
  <2> QED
    BY <2>1
<1>7. \A c, i, d : Key(c, i, d)' = Key(c, i, d)
  BY <1>0 DEF Key
<1>8. \A k : Current(k)' = Current(k)
  BY <1>0 DEF Current
<1>9. \A d \in DOMAIN p : p[d].version = Current(Key(b, last, d)) /\ Current(Key(b, last, d)) \in Nat
  <2>1. \A d \in DOMAIN p : p[d] \in Bars
    BY DEF Prices
  <2>2. \A d \in DOMAIN p : p[d].version \in Nat
    BY <2>1 DEF Bars
  <2> QED
    BY <1>1, <2>2 DEF Key
<1> HIDE DEF last, segment
<1>10. NoneNewer'
  <2> SUFFICES ASSUME NEW c \in Builds, NEW i \in DOMAIN fetched'[c],
                      NEW d \in DOMAIN fetched'[c][i]
               PROVE  fetched'[c][i][d].version =< Current(Key(c, i, d))
    BY <1>7, <1>8 DEF NoneNewer
  <2>1. CASE c # b \/ i # last
    <3>1. i \in DOMAIN fetched[c] /\ fetched'[c][i] = fetched[c][i]
      BY <1>2, <1>6, <2>1
    <3> QED
      BY <3>1 DEF CacheInv, NoneNewer
  <2>2. CASE c = b /\ i = last
    <3>1. d \in DOMAIN p /\ fetched'[c][i][d] = p[d]
      BY <1>6, <2>2
    <3> QED
      BY <1>9, <2>2, <3>1
  <2> QED
    BY <2>1, <2>2
<1>11. FetchedLater'
  <2> SUFFICES ASSUME NEW a \in Builds, NEW c \in Builds, Saved(a),
                      pc[c] \in {"fetching", "loading"}, a \notin since[c],
                      NEW i \in DOMAIN fetched'[c], NEW d \in DOMAIN fetched'[c][i],
                      Key(c, i, d) \in DOMAIN FetchedBars(a)
               PROVE  fetched'[c][i][d].version >= FetchedBars(a)[Key(c, i, d)].version
    BY <1>0, <1>2, <1>3, <1>7 DEF FetchedLater
  <2>1. CASE c # b \/ i # last
    <3>1. i \in DOMAIN fetched[c] /\ fetched'[c][i] = fetched[c][i]
      BY <1>2, <1>6, <2>1
    <3> QED
      BY <3>1 DEF CacheInv, FetchedLater
  <2>2. CASE c = b /\ i = last
    <3>1. d \in DOMAIN p /\ fetched'[c][i][d] = p[d]
      BY <1>6, <2>2
    <3>2. /\ FetchedBars(a)[Key(c, i, d)].version =< Current(Key(c, i, d))
          /\ FetchedBars(a)[Key(c, i, d)].version \in Nat
      BY FetchedNotNewer DEF CacheInv
    <3>3. PICK v \in Nat : v = Current(Key(c, i, d)) /\ p[d].version = v
      BY <1>9, <2>2, <3>1
    <3> QED
      BY <3>1, <3>2, <3>3
  <2> QED
    BY <2>1, <2>2
<1> QED
  BY <1>4, <1>5, <1>10, <1>11 DEF CacheInv

\* What is loaded, with what the build fetched, keeps what all builds saved that
\* neither began after it nor are outdated.
LEMMA LoadCache ==
  ASSUME InputsTyped, CacheInv, NEW b \in Builds, Load(b)
  PROVE  CacheInv'
<1> DEFINE loaded == IF cache = Missing THEN NoBars ELSE cache
<1>0. /\ UNCHANGED <<quotes, segments, fetched, cache, damaged, since, outdated>>
      /\ pc[b] = "loading" /\ pc' = [pc EXCEPT ![b] = "saving"]
      /\ merged' = [merged EXCEPT ![b] = Merged(b, loaded)] /\ cache # Torn
      /\ pc \in [Builds -> States] /\ merged \in [Builds -> Files]
      /\ fetched \in [Builds -> Seq(Prices)]
      /\ cache \in {Missing, Torn} \cup Files
  BY DEF Load, InputsTyped, BuildsTyped, FilesTyped
<1>1. \A c : FetchedBars(c)' = FetchedBars(c)
  BY <1>0, SameFetched
<1>2. \A c \in Builds : /\ Saved(c)' <=> Saved(c)
                        /\ Writing(c)' <=> Writing(c)
                        /\ pc'[c] \in {"fetching", "loading"} =>
                             pc[c] \in {"fetching", "loading"}
                        /\ c # b => pc'[c] = pc[c] /\ merged'[c] = merged[c]
  BY <1>0 DEF Saved, Writing
<1>3. FileInv'
  BY <1>0, <1>1, <1>2 DEF CacheInv, FileInv, Keeps
<1>4. FetchedLater' /\ NoneNewer'
  BY <1>0, <1>1, <1>2 DEF CacheInv, FetchedLater, NoneNewer, Key, Current
<1>5. loaded \in Files /\ BuildsTyped
  BY <1>0, NoBarsType DEF InputsTyped
<1>6. /\ DOMAIN merged'[b] = DOMAIN loaded \cup DOMAIN FetchedBars(b)
      /\ \A k \in DOMAIN merged'[b] :
           merged'[b][k] = IF k \in DOMAIN FetchedBars(b) THEN FetchedBars(b)[k] ELSE loaded[k]
  BY <1>0 DEF Merged
<1> HIDE DEF loaded
<1>7. Keeps(merged[b], b)'
  <2> SUFFICES ASSUME NEW k \in DOMAIN FetchedBars(b)
               PROVE  k \in DOMAIN merged'[b] /\ merged'[b][k].version >= FetchedBars(b)[k].version
    BY <1>1 DEF Keeps
  <2>1. FetchedBars(b)[k].version \in Nat
    BY <1>5, FetchedBarsAre, FileVersions
  <2> QED
    BY <1>6, <2>1
<1>8. ASSUME NEW c \in Builds, Saved(c), c \notin outdated \cup since[b]
      PROVE  Keeps(merged[b], c)'
  <2> SUFFICES ASSUME NEW k \in DOMAIN FetchedBars(c)
               PROVE  k \in DOMAIN merged'[b] /\ merged'[b][k].version >= FetchedBars(c)[k].version
    BY <1>1 DEF Keeps
  <2>1. Keeps(loaded, c)
    BY <1>0, <1>8 DEF loaded, CacheInv, FileInv
  <2>2. CASE k \notin DOMAIN FetchedBars(b)
    BY <1>6, <2>1, <2>2 DEF Keeps
  <2>3. CASE k \in DOMAIN FetchedBars(b)
    <3>1. PICK i \in PlacesOf(b, k) : FetchedBars(b)[k] = fetched[b][i][k[2]]
      BY <1>5, <2>3, FetchedBarsAre
    <3>2. k \in Keys
      BY <1>5, <2>3, FetchedBarsAre
    <3>3. Key(b, i, k[2]) = k
      BY <3>1, <3>2 DEF PlacesOf, Key, Keys
    <3>4. fetched[b][i][k[2]].version >= FetchedBars(c)[k].version
      BY <1>0, <1>8, <3>1, <3>3 DEF CacheInv, FetchedLater, PlacesOf
    <3> QED
      BY <1>6, <2>3, <3>1, <3>4
  <2> QED
    BY <2>2, <2>3
<1>9. InHand'
  <2> SUFFICES ASSUME NEW a \in Builds, pc'[a] \in {"saving", "writing"}
               PROVE  /\ Keeps(merged[a], a)'
                      /\ \A c \in Builds : Saved(c) /\ c \notin outdated \cup since[a] =>
                                           Keeps(merged[a], c)'
    BY <1>0, <1>2 DEF InHand
  <2>1. CASE a = b
    BY <1>7, <1>8, <2>1
  <2>2. CASE a # b
    BY <1>0, <1>1, <1>2, <2>2 DEF CacheInv, InHand, Keeps
  <2> QED
    BY <2>1, <2>2
<1> QED
  BY <1>3, <1>4, <1>9 DEF CacheInv

LEMMA TruncateCache ==
  ASSUME InputsTyped, CacheInv, NEW b \in Builds, Truncate(b)
  PROVE  CacheInv'
<1>0. /\ UNCHANGED <<quotes, segments, fetched, merged, since, outdated>>
      /\ pc[b] = "saving" /\ pc' = [pc EXCEPT ![b] = "writing"]
      /\ cache' = Torn /\ pc \in [Builds -> States]
  BY DEF Truncate, InputsTyped, BuildsTyped
<1>1. \A c : FetchedBars(c)' = FetchedBars(c)
  BY <1>0, SameFetched
<1>2. \A c \in Builds : /\ Saved(c)' <=> Saved(c)
                        /\ pc'[c] \in {"fetching", "loading"} =>
                             pc[c] \in {"fetching", "loading"}
                        /\ pc'[c] \in {"saving", "writing"} =>
                             pc[c] \in {"saving", "writing"}
  BY <1>0 DEF Saved
<1>3. FileInv'
  BY <1>0, FileAssumption DEF FileInv, Writing
<1>4. FetchedLater' /\ NoneNewer'
  BY <1>0, <1>1, <1>2 DEF CacheInv, FetchedLater, NoneNewer, Key, Current
<1>5. InHand'
  BY <1>0, <1>1, <1>2 DEF CacheInv, InHand, Keeps
<1> QED
  BY <1>3, <1>4, <1>5 DEF CacheInv

LEMMA GiveUpCache ==
  ASSUME InputsTyped, CacheInv, NEW b \in Builds, GiveUp(b)
  PROVE  CacheInv'
<1>0. /\ UNCHANGED <<quotes, segments, fetched, since, outdated>>
      /\ pc[b] \in {"fetching", "loading", "saving", "writing"}
      /\ pc' = [pc EXCEPT ![b] = "failed"]
      /\ merged' = [merged EXCEPT ![b] = NoBars]
      /\ damaged' = (damaged \/ pc[b] = "writing")
      /\ cache' = IF pc[b] = "writing" THEN Torn ELSE cache
      /\ pc \in [Builds -> States] /\ merged \in [Builds -> Files] /\ damaged \in BOOLEAN
  BY DEF GiveUp, InputsTyped, BuildsTyped, FilesTyped
<1>1. \A c : FetchedBars(c)' = FetchedBars(c)
  BY <1>0, SameFetched
<1>2. \A c \in Builds : /\ Saved(c)' <=> Saved(c)
                        /\ pc'[c] \in {"fetching", "loading"} =>
                             pc[c] \in {"fetching", "loading"}
                        /\ pc'[c] \in {"saving", "writing"} =>
                             pc[c] \in {"saving", "writing"} /\ merged'[c] = merged[c]
                        /\ pc'[c] = "writing" => pc[c] = "writing"
                        /\ c # b => pc'[c] = pc[c]
  BY <1>0 DEF Saved
<1>3. FileInv'
  <2>1. CASE pc[b] = "writing"
    BY <1>0, <1>1, <1>2, <2>1, FileAssumption DEF CacheInv, FileInv
  <2>2. CASE pc[b] # "writing"
    <3>1. cache' = cache /\ (damaged => damaged')
      BY <1>0, <2>2
    <3>2. \A c \in Builds : Writing(c)' <=> Writing(c)
      BY <1>0, <1>2, <2>2 DEF Writing
    <3> QED
      BY <1>0, <1>1, <1>2, <3>1, <3>2 DEF CacheInv, FileInv, Keeps
  <2> QED
    BY <2>1, <2>2
<1>4. FetchedLater' /\ NoneNewer'
  BY <1>0, <1>1, <1>2 DEF CacheInv, FetchedLater, NoneNewer, Key, Current
<1>5. InHand'
  BY <1>0, <1>1, <1>2 DEF CacheInv, InHand, Keeps
<1> QED
  BY <1>3, <1>4, <1>5 DEF CacheInv

LEMMA WriteCache ==
  ASSUME InputsTyped, CacheInv, NEW b \in Builds, Write(b)
  PROVE  CacheInv'
<1>0. /\ UNCHANGED <<quotes, segments, fetched>>
      /\ pc[b] = "writing"
      /\ \E s \in {"unusable", "delivered"} : pc' = [pc EXCEPT ![b] = s]
      /\ merged' = [merged EXCEPT ![b] = NoBars]
      /\ \/ cache' = merged[b] /\ damaged' = FALSE
         \/ cache' = Torn /\ damaged' = TRUE
      /\ since' = [c \in Builds |->
           IF c # b /\ pc[c] \in {"fetching", "loading", "saving", "writing"}
           THEN since[c] \cup {b} ELSE since[c]]
      /\ outdated' = outdated \cup since[b]
      /\ pc \in [Builds -> States] /\ merged \in [Builds -> Files]
  BY DEF Write, Writing, InputsTyped, BuildsTyped, FilesTyped
<1>1. \A c : FetchedBars(c)' = FetchedBars(c)
  BY <1>0, SameFetched
<1>2. \A c \in Builds : /\ Saved(c)' <=> Saved(c) \/ c = b
                        /\ pc'[c] \in {"fetching", "loading"} =>
                             pc[c] \in {"fetching", "loading"}
                             /\ since'[c] = since[c] \cup {b}
                        /\ pc'[c] \in {"saving", "writing"} =>
                             pc[c] \in {"saving", "writing"} /\ merged'[c] = merged[c]
                             /\ since'[c] = since[c] \cup {b}
  BY <1>0 DEF Saved
<1>3. FileInv'
  <2>1. merged[b] # Missing /\ merged[b] # Torn /\ Missing # Torn
    BY <1>0, WholeFile, FileAssumption
  <2>2. ASSUME NEW c \in Builds, Saved(c) \/ c = b, c \notin outdated \cup since[b]
        PROVE  Keeps(merged[b], c)
    <3>1. CASE c = b
      BY <1>0, <3>1 DEF CacheInv, InHand
    <3>2. CASE Saved(c)
      BY <1>0, <2>2, <3>2 DEF CacheInv, InHand
    <3> QED
      BY <2>2, <3>1, <3>2
  <2>3. CASE cache' = merged[b]
    BY <1>0, <1>1, <1>2, <2>1, <2>2, <2>3 DEF FileInv, Keeps
  <2>4. CASE cache' = Torn /\ damaged' = TRUE
    BY <2>1, <2>4 DEF FileInv
  <2> QED
    BY <1>0, <2>3, <2>4
<1>4. FetchedLater' /\ NoneNewer'
  BY <1>0, <1>1, <1>2 DEF CacheInv, FetchedLater, NoneNewer, Key, Current
<1>5. InHand'
  BY <1>0, <1>1, <1>2 DEF CacheInv, InHand, Keeps
<1> QED
  BY <1>3, <1>4, <1>5 DEF CacheInv

LEMMA CacheStep == InputsTyped /\ CacheInv /\ [Next]_vars => CacheInv'
<1> SUFFICES ASSUME InputsTyped, CacheInv, [Next]_vars PROVE CacheInv'
  OBVIOUS
<1>0. quotes' = quotes => \A k : Current(k)' = Current(k)
  BY DEF Current
<1>1. ASSUME NEW b \in Builds, Build(b) PROVE CacheInv'
  BY <1>1, BeginCache, FetchCache, LoadCache, TruncateCache, WriteCache, GiveUpCache DEF Build
<1>2. ASSUME NEW k \in DOMAIN quotes, NEW close \in Closes, Revise(k, close)
      PROVE  CacheInv'
  <2>1. \A j : Current(j) \in Nat /\ Current(j)' >= Current(j)
    BY <1>2, ReviseTypes
  <2>2. \A j : Current(j)' \in Nat
    <3>1. InputsTyped'
      BY <1>2, ReviseTypes
    <3>2. MaxRevisions \in Nat
      BY InputsAssumption
    <3> QED
      BY <3>1, <3>2 DEF InputsTyped, QuotesTyped, IsBars, Bars, Current
  <2> QED
    BY <1>2, <2>1, <2>2, CacheUnchanged DEF Revise
<1>3. ASSUME NEW volatilities, NEW tradable, Size(volatilities, tradable)
      PROVE  CacheInv'
  <2>1. UNCHANGED <<quotes, pc, segments, fetched, cacheVars>>
    BY <1>3 DEF Size
  <2> QED
    BY <1>0, <2>1, CacheUnchanged
<1>4. CASE UNCHANGED vars
  <2>1. UNCHANGED <<quotes, pc, segments, fetched, cacheVars>>
    BY <1>4 DEF vars
  <2> QED
    BY <1>0, <2>1, CacheUnchanged
<1> QED
  BY <1>1, <1>2, <1>3, <1>4 DEF Next

\* Bars that a build has saved stay in the cache file, or newer ones of the same
\* days, until a build saves that was already running when it saved; and the
\* file is whole outside of saves, unless one failed or overlapped another:
\* HistoricalSignalInputBuilder._cache_fetched_bars and JsonHistoricalBarStore.save.
THEOREM SavedBarsStay == Spec => []CacheKeepsFetched
<1>1. Init => CacheInv
  <2> SUFFICES ASSUME Init PROVE CacheInv
    OBVIOUS
  <2>1. \A b \in Builds : pc[b] = "idle" /\ fetched[b] = << >> /\ cache = Missing
    BY DEF Init
  <2>2. \A b \in Builds : DOMAIN fetched[b] = {}
    BY <2>1
  <2>3. cache # Torn
    BY FileAssumption DEF Init
  <2>4. FileInv
    BY <2>1, <2>3 DEF FileInv, Saved
  <2>5. InHand
    BY <2>1 DEF InHand
  <2>6. FetchedLater /\ NoneNewer
    BY <2>1, <2>2 DEF FetchedLater, NoneNewer, Saved
  <2> QED
    BY <2>4, <2>5, <2>6 DEF CacheInv
<1>2. CacheInv => CacheKeepsFetched
  BY DEF CacheInv, FileInv, CacheKeepsFetched, Saved, Keeps
<1> QED
  BY <1>1, <1>2, TypesInvariant, CacheStep, PTL DEF Spec

-----------------------------------------------------------------------------
(* The elements of a finite set of integers in ascending order.             *)

IsAscending(s, S) ==
  s \in [1..Cardinality(S) -> S] /\ \A m, n \in DOMAIN s : m < n => s[m] < s[n]

LEMMA AscendingExtends ==
  ASSUME NEW S, IsFiniteSet(S), S \subseteq Int, NEW x \in S, \A y \in S : x >= y,
         NEW n \in Nat, Cardinality(S) = n + 1, Cardinality(S \ {x}) = n,
         NEW s, IsAscending(s, S \ {x})
  PROVE  \E t : IsAscending(t, S)
<1> DEFINE t == [i \in 1..(n + 1) |-> IF i = n + 1 THEN x ELSE s[i]]
<1>1. s \in [1..n -> S \ {x}] /\ \A i, j \in 1..n : i < j => s[i] < s[j]
  BY DEF IsAscending
<1>2. \A i \in 1..(n + 1) : i # n + 1 => i \in 1..n
  OBVIOUS
<1>3. t \in [1..(n + 1) -> S]
  BY <1>1, <1>2
<1>4. ASSUME NEW i \in 1..(n + 1), NEW j \in 1..(n + 1), i < j PROVE t[i] < t[j]
  <2>1. i \in 1..n
    BY <1>4
  <2>2. CASE j = n + 1
    <3>1. t[i] = s[i] /\ t[j] = x /\ s[i] \in S /\ s[i] # x
      BY <1>1, <2>1, <2>2
    <3>2. s[i] \in Int /\ x \in Int /\ x >= s[i]
      BY <3>1
    <3> QED
      BY <3>1, <3>2
  <2>3. CASE j # n + 1
    BY <1>1, <1>2, <1>4, <2>1, <2>3
  <2> QED
    BY <2>2, <2>3
<1> HIDE DEF t
<1>5. IsAscending(t, S)
  BY <1>3, <1>4 DEF IsAscending
<1> QED
  BY <1>5

LEMMA AscendingExists ==
  ASSUME NEW S, IsFiniteSet(S), S \subseteq Int
  PROVE  \E s : IsAscending(s, S)
<1> DEFINE Sized(n) == {T \in SUBSET S : Cardinality(T) = n}
           Good == {n \in Nat : \A T \in Sized(n) : \E s : IsAscending(s, T)}
<1>0. \A T \in SUBSET S : IsFiniteSet(T) /\ Cardinality(T) \in Nat
  BY FS_Subset, FS_CardinalityType
<1>1. 0 \in Good
  <2> SUFFICES ASSUME NEW T \in Sized(0) PROVE \E s : IsAscending(s, T)
    OBVIOUS
  <2> DEFINE s == [i \in 1..0 |-> i]
  <2>1. s \in [1..0 -> T] /\ \A m, n \in DOMAIN s : m < n => s[m] < s[n]
    OBVIOUS
  <2>2. IsAscending(s, T)
    BY <2>1 DEF IsAscending
  <2> QED
    BY <2>2
<1>2. ASSUME NEW n \in Nat, n \in Good PROVE n + 1 \in Good
  <2> SUFFICES ASSUME NEW T \in Sized(n + 1) PROVE \E s : IsAscending(s, T)
    OBVIOUS
  <2>1. T # {} /\ IsFiniteSet(T) /\ Cardinality(T) = n + 1 /\ T \subseteq Int
    BY <1>0, FS_EmptySet
  <2>2. PICK x \in T : \A y \in T : x >= y
    BY <2>1, BoundsExist
  <2>3. Cardinality(T \ {x}) = n
    BY <2>1, <2>2, OneLess
  <2>4. T \ {x} \in Sized(n)
    BY <2>3
  <2>5. PICK s : IsAscending(s, T \ {x})
    BY <1>2, <2>4
  <2> HIDE DEF Sized, Good
  <2> QED
    BY <2>1, <2>2, <2>3, <2>5, AscendingExtends
<1>3. \A n \in Nat : n \in Good
  <2> HIDE DEF Good
  <2> QED
    BY <1>1, <1>2, NatSet
<1>4. Cardinality(S) \in Nat /\ S \in Sized(Cardinality(S))
  BY <1>0
<1> QED
  BY <1>3, <1>4

\* It lists each element once, in order.
LEMMA AscendingLists ==
  ASSUME NEW S, IsFiniteSet(S), S \subseteq Int
  PROVE  /\ Cardinality(S) \in Nat
         /\ Ascending(S) \in [1..Cardinality(S) -> S]
         /\ \A m, n \in 1..Cardinality(S) : m < n => Ascending(S)[m] < Ascending(S)[n]
         /\ \A x \in S : \E n \in 1..Cardinality(S) : Ascending(S)[n] = x
<1> DEFINE s == Ascending(S)
           N == Cardinality(S)
<1>1. IsAscending(s, S)
  BY AscendingExists DEF Ascending, IsAscending
<1>2. N \in Nat
  BY FS_CardinalityType
<1> HIDE DEF s
<1>3. s \in [1..N -> S] /\ \A m, n \in 1..N : m < n => s[m] < s[n]
  BY <1>1 DEF IsAscending
<1>4. IsFiniteSet(1..N) /\ Cardinality(1..N) = N
  <2>1. /\ IsFiniteSet(1..N)
        /\ Cardinality(1..N) = IF 1 > N THEN 0 ELSE N - 1 + 1
    BY <1>2, FS_Interval
  <2> DEFINE C == Cardinality(1..N)
  <2>2. C = IF 1 > N THEN 0 ELSE N - 1 + 1
    BY <2>1
  <2> HIDE DEF C, N
  <2>3. C = N
    BY <1>2, <2>2
  <2> QED
    BY <2>1, <2>3 DEF C
<1>5. s \in Injection(1..N, S)
  <2>1. ASSUME NEW m \in 1..N, NEW n \in 1..N, s[m] = s[n] PROVE m = n
    <3>0. s[m] \in S /\ s[n] \in S
      BY <1>3
    <3> HIDE DEF N
    <3>1. s[m] \in Int /\ s[n] \in Int
      BY <3>0
    <3>2. ~(m < n) /\ ~(n < m)
      BY <1>3, <2>1, <3>1
    <3>3. m \in Int /\ n \in Int
      BY <1>2
    <3> QED
      BY <3>2, <3>3
  <2> QED
    BY <1>3, <2>1 DEF Injection, IsInjective
<1>6. s \in Surjection(1..N, S)
  <2> DEFINE D == 1..N
  <2>1. s \in Injection(D, S) /\ IsFiniteSet(S) /\ Cardinality(D) = Cardinality(S)
    BY <1>4, <1>5
  <2> HIDE DEF D, N
  <2>2. s \in Surjection(D, S)
    BY <2>1, FS_Injection
  <2> QED
    BY <2>2 DEF D
<1>7. \A x \in S : \E n \in 1..N : s[n] = x
  BY <1>6 DEF Surjection
<1> QED
  BY <1>2, <1>3, <1>7 DEF s

\* Neighbours in the order have nothing between them, and it begins and ends with
\* the least and the greatest element.
LEMMA AscendingNeighbours ==
  ASSUME NEW S, IsFiniteSet(S), S \subseteq Int, S # {}
  PROVE  /\ Cardinality(S) \in Nat \ {0}
         /\ Ascending(S)[1] = Min(S)
         /\ Ascending(S)[Cardinality(S)] = Max(S)
         /\ \A n \in 2..Cardinality(S) : \A x \in S :
              x =< Ascending(S)[n - 1] \/ x >= Ascending(S)[n]
<1> DEFINE N == Cardinality(S)
           s == Ascending(S)
<1>1. /\ N \in Nat /\ s \in [1..N -> S]
      /\ \A m, n \in 1..N : m < n => s[m] < s[n]
      /\ \A x \in S : \E n \in 1..N : s[n] = x
  BY AscendingLists
<1>2. N # 0
  BY FS_EmptySet
<1> HIDE DEF s, N
<1>3. \A n \in 1..N : s[n] \in Int
  BY <1>1
<1>4. \A m, n \in 1..N : m =< n => s[m] =< s[n]
  <2> SUFFICES ASSUME NEW m \in 1..N, NEW n \in 1..N, m =< n PROVE s[m] =< s[n]
    OBVIOUS
  <2>1. CASE m = n
    BY <1>3, <2>1
  <2>2. CASE m < n
    BY <1>1, <1>3, <2>2
  <2> QED
    BY <1>1, <2>1, <2>2
<1>5. /\ Min(S) \in S /\ \A x \in S : Min(S) =< x
      /\ Max(S) \in S /\ \A x \in S : Max(S) >= x
  BY Bounds
<1>6. 1 \in 1..N /\ N \in 1..N
  BY <1>1, <1>2
<1>7. s[1] = Min(S)
  <2>1. PICK n \in 1..N : s[n] = Min(S)
    BY <1>1, <1>5
  <2>2. s[1] =< s[n]
    BY <1>4, <1>6
  <2>3. Min(S) =< s[1] /\ s[1] \in Int /\ Min(S) \in Int
    BY <1>1, <1>5, <1>6
  <2> QED
    BY <2>1, <2>2, <2>3
<1>8. s[N] = Max(S)
  <2>1. PICK n \in 1..N : s[n] = Max(S)
    BY <1>1, <1>5
  <2>2. s[n] =< s[N]
    BY <1>1, <1>4, <1>6
  <2>3. Max(S) >= s[N] /\ s[N] \in Int /\ Max(S) \in Int
    BY <1>1, <1>5, <1>6
  <2> QED
    BY <2>1, <2>2, <2>3
<1>9. ASSUME NEW n \in 2..N, NEW x \in S PROVE x =< s[n - 1] \/ x >= s[n]
  <2>1. PICK m \in 1..N : s[m] = x
    BY <1>1
  <2>2. n - 1 \in 1..N /\ n \in 1..N /\ (m =< n - 1 \/ n =< m)
    BY <1>1
  <2>3. s[m] =< s[n - 1] \/ s[n] =< s[m]
    BY <1>4, <2>2
  <2> QED
    BY <1>3, <2>1, <2>2, <2>3
<1> QED
  BY <1>1, <1>2, <1>7, <1>8, <1>9 DEF s, N

-----------------------------------------------------------------------------
(* Sequences of sequences, one after the other.                             *)

IsFlatten(g, seqs, n) ==
  g = [i \in 1..n |-> IF i = 1 THEN seqs[i] ELSE g[i - 1] \o seqs[i]]

LEMMA FlattenExists ==
  ASSUME NEW seqs, NEW n \in Nat
  PROVE  \E g : IsFlatten(g, seqs, n)
<1> DEFINE Good == {k \in Nat : \E g : IsFlatten(g, seqs, k)}
<1>1. 0 \in Good
  <2> DEFINE g == [i \in 1..0 |-> i]
  <2>1. g = [i \in 1..0 |-> IF i = 1 THEN seqs[i] ELSE g[i - 1] \o seqs[i]]
    OBVIOUS
  <2>2. IsFlatten(g, seqs, 0)
    BY <2>1 DEF IsFlatten
  <2> QED
    BY <2>2
<1>2. ASSUME NEW k \in Nat, k \in Good PROVE k + 1 \in Good
  <2>1. PICK g : IsFlatten(g, seqs, k)
    BY <1>2
  <2> DEFINE new == IF k = 0 THEN seqs[1] ELSE g[k] \o seqs[k + 1]
             h == [i \in 1..(k + 1) |-> IF i = k + 1 THEN new ELSE g[i]]
             r == [i \in 1..(k + 1) |-> IF i = 1 THEN seqs[i] ELSE h[i - 1] \o seqs[i]]
  <2>2. ASSUME NEW i \in 1..(k + 1) PROVE h[i] = r[i]
    <3>1. CASE i = k + 1
      <4>1. CASE k = 0
        BY <3>1, <4>1
      <4>2. CASE k # 0
        <5>1. k \in 1..(k + 1) /\ k # k + 1 /\ i # 1 /\ i - 1 = k
          BY <3>1, <4>2
        <5>2. h[k] = g[k]
          BY <5>1
        <5>3. h[i] = g[k] \o seqs[k + 1]
          BY <3>1, <4>2
        <5>4. r[i] = h[k] \o seqs[k + 1]
          BY <3>1, <5>1
        <5> QED
          BY <5>2, <5>3, <5>4
      <4> QED
        BY <4>1, <4>2
    <3>2. CASE i # k + 1
      <4>1. i \in 1..k
        BY <3>2
      <4>2. g[i] = IF i = 1 THEN seqs[i] ELSE g[i - 1] \o seqs[i]
        BY <2>1, <4>1 DEF IsFlatten
      <4>3. i # 1 => h[i - 1] = g[i - 1]
        BY <4>1
      <4>4. h[i] = g[i]
        BY <3>2
      <4>5. r[i] = IF i = 1 THEN seqs[i] ELSE h[i - 1] \o seqs[i]
        OBVIOUS
      <4> HIDE DEF h, r
      <4> QED
        BY <4>2, <4>3, <4>4, <4>5
    <3> QED
      BY <3>1, <3>2
  <2>3. h = r
    <3>1. h = [i \in 1..(k + 1) |-> h[i]] /\ r = [i \in 1..(k + 1) |-> r[i]]
      OBVIOUS
    <3> HIDE DEF h, r
    <3> QED
      BY <2>2, <3>1
  <2>4. IsFlatten(h, seqs, k + 1)
    BY <2>3 DEF IsFlatten
  <2> QED
    BY <2>4
<1>3. \A k \in Nat : k \in Good
  <2> HIDE DEF Good
  <2> QED
    BY <1>1, <1>2, NatSet
<1> QED
  BY <1>3

LEMMA FlattenIs ==
  ASSUME NEW seqs, Len(seqs) \in Nat \ {0}
  PROVE  \E g : /\ IsFlatten(g, seqs, Len(seqs))
                /\ FlattenSeq(seqs) = g[Len(seqs)]
<1> DEFINE g == CHOOSE flatten : IsFlatten(flatten, seqs, Len(seqs))
<1>1. IsFlatten(g, seqs, Len(seqs))
  BY FlattenExists
<1>2. FlattenSeq(seqs) = g[Len(seqs)]
  BY DEF FlattenSeq, IsFlatten
<1> QED
  BY <1>1, <1>2

-----------------------------------------------------------------------------
(* The contracts of a series.                                               *)

\* Prices of contracts: integers of finitely many days, at least one of each.
IsPrices(contracts) ==
  /\ Len(contracts) \in Nat /\ DOMAIN contracts = 1..Len(contracts)
  /\ \A i \in 1..Len(contracts) :
       /\ IsFiniteSet(DOMAIN contracts[i]) /\ DOMAIN contracts[i] \subseteq Int
       /\ DOMAIN contracts[i] # {}
       /\ \A d \in DOMAIN contracts[i] : contracts[i][d] \in Int

Joinable(contracts) == IsPrices(contracts) /\ Chronological(contracts) /\ Overlapping(contracts)

LEMMA FirstDayIs ==
  ASSUME NEW contracts, IsPrices(contracts), NEW i \in 1..Len(contracts)
  PROVE  /\ FirstDay(contracts[i]) \in DOMAIN contracts[i] /\ FirstDay(contracts[i]) \in Int
         /\ \A d \in DOMAIN contracts[i] : FirstDay(contracts[i]) =< d
BY Bounds DEF IsPrices, FirstDay

LEMMA LaterStartsLater ==
  ASSUME NEW contracts, IsPrices(contracts), Chronological(contracts)
  PROVE  \A i, j \in 1..Len(contracts) :
           i < j => FirstDay(contracts[i]) < FirstDay(contracts[j])
<1> DEFINE N == Len(contracts)
           First(i) == FirstDay(contracts[i])
           Good == {k \in Nat : \A i, j \in 1..N : i < j /\ j = i + k => First(i) < First(j)}
<1>0. N \in Nat /\ \A i \in 1..N : First(i) \in Int
  BY FirstDayIs DEF IsPrices
<1>1. \A i \in 2..N : First(i - 1) < First(i)
  BY DEF Chronological
<1> HIDE DEF First, N
<1>2. 0 \in Good
  BY <1>0
<1>3. ASSUME NEW k \in Nat, k \in Good PROVE k + 1 \in Good
  <2> SUFFICES ASSUME NEW i \in 1..N, NEW j \in 1..N, i < j, j = i + (k + 1)
               PROVE  First(i) < First(j)
    OBVIOUS
  <2>1. j - 1 \in 1..N /\ j \in 2..N /\ j - 1 = i + k
    BY <1>0
  <2>2. First(j - 1) < First(j)
    BY <1>1, <2>1
  <2>3. CASE i = j - 1
    BY <2>2, <2>3
  <2>4. CASE i # j - 1
    <3>1. i < j - 1
      BY <1>0, <2>1, <2>4
    <3>2. First(i) < First(j - 1)
      BY <1>3, <2>1, <3>1
    <3>3. First(i) \in Int /\ First(j - 1) \in Int /\ First(j) \in Int
      BY <1>0, <2>1
    <3> QED
      BY <2>2, <3>2, <3>3
  <2> QED
    BY <2>3, <2>4
<1>4. \A k \in Nat : k \in Good
  <2> HIDE DEF Good
  <2> QED
    BY <1>2, <1>3, NatSet
<1>5. ASSUME NEW i \in 1..N, NEW j \in 1..N, i < j PROVE First(i) < First(j)
  <2>1. j - i \in Nat /\ j = i + (j - i)
    BY <1>0, <1>5
  <2>2. j - i \in Good
    BY <1>4, <2>1
  <2> QED
    BY <1>5, <2>1, <2>2
<1> QED
  BY <1>5 DEF First, N

\* The contract held into a day between its own first one and its roll.
LEMMA HeldIs ==
  ASSUME NEW contracts, IsPrices(contracts), Chronological(contracts),
         NEW i \in 1..Len(contracts), NEW day \in Int,
         FirstDay(contracts[i]) < day,
         i < Len(contracts) => day =< FirstDay(contracts[i + 1])
  PROVE  HeldInto(contracts, day) = i
<1> DEFINE N == Len(contracts)
           First(j) == FirstDay(contracts[j])
           S == {j \in 1..N : First(j) < day}
<1>0. N \in Nat /\ \A j \in 1..N : First(j) \in Int
  BY FirstDayIs DEF IsPrices
<1>1. \A j, k \in 1..N : j < k => First(j) < First(k)
  BY LaterStartsLater
<1>2. HeldInto(contracts, day) = Max(S)
  BY DEF HeldInto, IsPrices
<1>3. i \in S
  OBVIOUS
<1>4. i < N => day =< First(i + 1)
  OBVIOUS
<1> HIDE DEF First, N
<1>5. ASSUME NEW j \in S PROVE i >= j
  <2> SUFFICES ASSUME j > i PROVE FALSE
    BY <1>0, <1>5
  <2>1. i < N /\ i + 1 \in 1..N /\ First(j) < day /\ j \in 1..N
    BY <1>0
  <2>2. First(i + 1) =< First(j)
    <3>1. CASE j = i + 1
      BY <1>0, <2>1, <3>1
    <3>2. CASE j # i + 1
      <4>1. i + 1 < j
        BY <3>2
      <4>2. First(i + 1) < First(j)
        BY <1>1, <2>1, <4>1
      <4> QED
        BY <1>0, <2>1, <4>2
    <3> QED
      BY <3>1, <3>2
  <2>3. First(j) \in Int /\ First(i + 1) \in Int
    BY <1>0, <2>1
  <2> QED
    BY <1>4, <2>1, <2>2, <2>3
<1>6. S \in SUBSET (1..N) /\ S # {}
  BY <1>3
<1>7. Max(S) \in S /\ \A j \in S : Max(S) >= j
  <2>1. IsFiniteSet(1..N)
    BY <1>0, FS_Interval
  <2>2. IsFiniteSet(S)
    BY <1>6, <2>1, FS_Subset
  <2>3. S \subseteq Int
    OBVIOUS
  <2> HIDE DEF S
  <2> QED
    BY <1>6, <2>2, <2>3, Bounds
<1>8. PICK m \in S : m = Max(S)
  BY <1>7
<1>9. m >= i /\ i >= m
  BY <1>3, <1>5, <1>7, <1>8
<1>10. m \in Int /\ i \in Int
  BY <1>0
<1> QED
  BY <1>2, <1>8, <1>9, <1>10

\* The adjustments: 0 for the last contract, and for another that of the next
\* one and the difference at the roll.
IsAdjustment(g, contracts) ==
  g = [i \in 1..Len(contracts) |->
        IF i = Len(contracts) THEN 0
        ELSE (contracts[i + 1][FirstDay(contracts[i + 1])] + g[i + 1])
             - contracts[i][FirstDay(contracts[i + 1])]]

LEMMA AdjustmentExists ==
  ASSUME NEW contracts, Len(contracts) \in Nat
  PROVE  \E g : IsAdjustment(g, contracts)
<1> DEFINE N == Len(contracts)
           roll(i) == FirstDay(contracts[i + 1])
           next(g, i) == IF i = N THEN 0
                         ELSE (contracts[i + 1][roll(i)] + g[i + 1]) - contracts[i][roll(i)]
           From(g, m) == \A i \in 1..N : i >= m => g[i] = next(g, i)
           Good == {k \in Nat : \E g : /\ g = [i \in 1..N |-> g[i]]
                                       /\ From(g, N + 1 - k)}
<1>1. 0 \in Good
  <2> DEFINE g == [i \in 1..N |-> 0]
  <2>1. g = [i \in 1..N |-> g[i]]
    OBVIOUS
  <2>2. From(g, N + 1 - 0)
    OBVIOUS
  <2> HIDE DEF g, From
  <2> QED
    BY <2>1, <2>2
<1>2. ASSUME NEW k \in Nat, k \in Good PROVE k + 1 \in Good
  <2>1. PICK g : g = [i \in 1..N |-> g[i]] /\ From(g, N + 1 - k)
    BY <1>2
  <2> DEFINE m == N - k
             h == [i \in 1..N |-> IF i = m THEN next(g, i) ELSE g[i]]
  <2>2. m + 1 = N + 1 - k /\ m = N + 1 - (k + 1) /\ m \in Int
    OBVIOUS
  <2>3. h = [i \in 1..N |-> h[i]]
    OBVIOUS
  <2>4. ASSUME NEW i \in 1..N, i >= m PROVE h[i] = next(h, i)
    <3>1. i # N => i + 1 \in 1..N /\ i + 1 # m
      BY <2>2, <2>4
    <3>2. i # N => h[i + 1] = g[i + 1]
      BY <3>1
    <3>3. h[i] = next(g, i)
      <4>1. CASE i = m
        BY <4>1
      <4>2. CASE i # m
        <5>1. i >= N + 1 - k
          BY <2>2, <2>4, <4>2
        <5>2. g[i] = next(g, i)
          BY <2>1, <5>1
        <5>3. h[i] = g[i]
          BY <4>2
        <5> QED
          BY <5>2, <5>3
      <4> QED
        BY <4>1, <4>2
    <3> HIDE DEF h, roll
    <3> QED
      BY <3>2, <3>3
  <2>5. From(h, N + 1 - (k + 1))
    <3> HIDE DEF h, next
    <3> QED
      BY <2>2, <2>4
  <2> HIDE DEF h, From
  <2> QED
    BY <2>3, <2>5
<1>3. \A k \in Nat : k \in Good
  <2> HIDE DEF Good
  <2> QED
    BY <1>1, <1>2, NatSet
<1>4. PICK g : g = [i \in 1..N |-> g[i]] /\ From(g, N + 1 - N)
  BY <1>3
<1>5. \A i \in 1..N : g[i] = next(g, i)
  BY <1>4
<1>6. IsAdjustment(g, contracts)
  <2>1. [i \in 1..N |-> g[i]] = [i \in 1..N |-> next(g, i)]
    BY <1>5
  <2>2. g = [i \in 1..N |-> next(g, i)]
    BY <1>4, <2>1
  <2> QED
    BY <2>2 DEF IsAdjustment
<1> QED
  BY <1>6

LEMMA AdjustmentIs ==
  ASSUME NEW contracts, Joinable(contracts)
  PROVE  \A i \in 1..Len(contracts) :
           /\ Adjustments(contracts)[i] \in Int
           /\ i = Len(contracts) => Adjustments(contracts)[i] = 0
           /\ i # Len(contracts) =>
                /\ Adjustments(contracts)[i + 1] \in Int
                /\ contracts[i + 1][FirstDay(contracts[i + 1])] \in Int
                /\ contracts[i][FirstDay(contracts[i + 1])] \in Int
                /\ Adjustments(contracts)[i] =
                     (contracts[i + 1][FirstDay(contracts[i + 1])] + Adjustments(contracts)[i + 1])
                     - contracts[i][FirstDay(contracts[i + 1])]
<1> DEFINE g == Adjustments(contracts)
           N == Len(contracts)
           roll(i) == FirstDay(contracts[i + 1])
<1>0. N \in Nat
  BY DEF Joinable, IsPrices
<1>1. IsAdjustment(g, contracts)
  <2>1. g = CHOOSE h : IsAdjustment(h, contracts)
    BY DEF Adjustments, IsAdjustment
  <2> HIDE DEF g
  <2> QED
    BY <1>0, <2>1, AdjustmentExists
<1> HIDE DEF g
<1>2. \A i \in 1..N : g[i] = IF i = N THEN 0
                              ELSE (contracts[i + 1][roll(i)] + g[i + 1]) - contracts[i][roll(i)]
  BY <1>1 DEF IsAdjustment
<1>3. ASSUME NEW i \in 1..N, i # N
      PROVE  i + 1 \in 1..N /\ contracts[i + 1][roll(i)] \in Int
             /\ contracts[i][roll(i)] \in Int
  <2>1. i + 1 \in 2..N /\ i + 1 \in 1..N /\ (i + 1) - 1 = i
    BY <1>0, <1>3
  <2>2. roll(i) \in DOMAIN contracts[i + 1]
    BY <2>1, FirstDayIs DEF Joinable
  <2>3. roll(i) \in DOMAIN contracts[i]
    BY <2>1 DEF Joinable, Overlapping
  <2> QED
    BY <2>1, <2>2, <2>3 DEF Joinable, IsPrices
<1> HIDE DEF roll
<1> DEFINE Good == {k \in Nat : \A i \in 1..N : i = N - k => g[i] \in Int}
<1>4. 0 \in Good
  BY <1>0, <1>2
<1>5. ASSUME NEW k \in Nat, k \in Good PROVE k + 1 \in Good
  <2> SUFFICES ASSUME NEW i \in 1..N, i = N - (k + 1) PROVE g[i] \in Int
    OBVIOUS
  <2>1. i # N /\ i + 1 = N - k
    BY <1>0
  <2>2. g[i + 1] \in Int
    BY <1>3, <1>5, <2>1
  <2>3. g[i] = (contracts[i + 1][roll(i)] + g[i + 1]) - contracts[i][roll(i)]
    BY <1>2, <2>1
  <2>4. contracts[i + 1][roll(i)] \in Int /\ contracts[i][roll(i)] \in Int
    BY <1>3, <2>1
  <2> QED
    BY <2>2, <2>3, <2>4
<1>6. \A k \in Nat : k \in Good
  <2> HIDE DEF Good
  <2> QED
    BY <1>4, <1>5, NatSet
<1>7. ASSUME NEW i \in 1..N PROVE g[i] \in Int
  <2>1. N - i \in Nat /\ i = N - (N - i)
    BY <1>0
  <2> QED
    BY <1>6, <2>1
<1> QED
  BY <1>2, <1>3, <1>7 DEF g, roll

-----------------------------------------------------------------------------
(* The joined series.                                                       *)

Points(contracts) ==
  [day : UNION {DOMAIN contracts[i] : i \in 1..Len(contracts)}, close : Int]

Part(contracts, i) ==
  LET days == Ascending(CountedDays(contracts, i))
  IN [n \in 1..Len(days) |->
        [day |-> days[n], close |-> contracts[i][days[n]] + Adjustments(contracts)[i]]]

\* The part of a contract: its prices before the roll into the next, in order.
LEMMA PartIs ==
  ASSUME NEW contracts, Joinable(contracts), NEW i \in 1..Len(contracts)
  PROVE  /\ Part(contracts, i) \in Seq(Points(contracts))
         /\ Len(Part(contracts, i)) \in Nat \ {0}
         /\ Part(contracts, i)[1].day = FirstDay(contracts[i])
         /\ Part(contracts, i)[Len(Part(contracts, i))].day = Max(CountedDays(contracts, i))
         /\ \A n \in 1..Len(Part(contracts, i)) :
              /\ Part(contracts, i)[n].day \in CountedDays(contracts, i)
              /\ Part(contracts, i)[n].close =
                   contracts[i][Part(contracts, i)[n].day] + Adjustments(contracts)[i]
         /\ \A n \in 2..Len(Part(contracts, i)) :
              /\ Part(contracts, i)[n - 1].day < Part(contracts, i)[n].day
              /\ \A x \in CountedDays(contracts, i) :
                   x =< Part(contracts, i)[n - 1].day \/ x >= Part(contracts, i)[n].day
<1> DEFINE N == Len(contracts)
           S == CountedDays(contracts, i)
           K == Cardinality(S)
           days == Ascending(S)
           p == Part(contracts, i)
           a == Adjustments(contracts)[i]
<1>0. N \in Nat /\ IsPrices(contracts) /\ a \in Int
  BY AdjustmentIs DEF Joinable, IsPrices
<1>1. S \subseteq DOMAIN contracts[i] /\ DOMAIN contracts[i] \subseteq Int
      /\ IsFiniteSet(DOMAIN contracts[i])
  BY <1>0 DEF IsPrices, CountedDays
<1>2. IsFiniteSet(S) /\ S \subseteq Int
  BY <1>1, FS_Subset
<1>3. FirstDay(contracts[i]) \in S /\ \A x \in S : FirstDay(contracts[i]) =< x
  <2>1. /\ FirstDay(contracts[i]) \in DOMAIN contracts[i]
        /\ \A d \in DOMAIN contracts[i] : FirstDay(contracts[i]) =< d
    BY <1>0, FirstDayIs
  <2>2. i < N => FirstDay(contracts[i]) < FirstDay(contracts[i + 1])
    <3> SUFFICES ASSUME i < N PROVE FirstDay(contracts[i]) < FirstDay(contracts[i + 1])
      OBVIOUS
    <3>1. i + 1 \in 2..N /\ (i + 1) - 1 = i
      BY <1>0
    <3> QED
      BY <3>1 DEF Joinable, Chronological
  <2> QED
    BY <1>1, <2>1, <2>2 DEF CountedDays
<1>4. Min(S) = FirstDay(contracts[i])
  <2>1. Min(S) \in S /\ \A x \in S : Min(S) =< x
    BY <1>2, <1>3, Bounds
  <2>2. PICK m \in S : m = Min(S)
    BY <2>1
  <2>3. PICK f \in S : f = FirstDay(contracts[i])
    BY <1>3
  <2>4. m =< f /\ f =< m /\ m \in Int /\ f \in Int
    BY <1>2, <1>3, <2>1, <2>2, <2>3
  <2> QED
    BY <2>2, <2>3, <2>4
<1>5. /\ K \in Nat \ {0} /\ days[1] = Min(S) /\ days[K] = Max(S)
      /\ \A n \in 2..K : \A x \in S : x =< days[n - 1] \/ x >= days[n]
  BY <1>2, <1>3, AscendingNeighbours
<1>6. /\ days \in [1..K -> S]
      /\ \A m, n \in 1..K : m < n => days[m] < days[n]
  BY <1>2, AscendingLists
<1> HIDE DEF days, K
<1>7. Len(days) = K
  BY <1>5, <1>6
<1>8. p = [n \in 1..K |-> [day |-> days[n], close |-> contracts[i][days[n]] + a]]
  BY <1>7 DEF Part, days
<1> HIDE DEF p, a
<1>9. Len(p) = K
  BY <1>5, <1>8
<1>10. ASSUME NEW n \in 1..K
       PROVE  /\ p[n].day = days[n] /\ p[n].day \in S
              /\ p[n].close = contracts[i][p[n].day] + a
              /\ p[n] \in Points(contracts)
  <2>1. p[n] = [day |-> days[n], close |-> contracts[i][days[n]] + a] /\ days[n] \in S
    BY <1>6, <1>8
  <2>2. days[n] \in DOMAIN contracts[i] /\ contracts[i][days[n]] \in Int
    BY <1>0, <1>1, <2>1 DEF IsPrices
  <2>3. days[n] \in UNION {DOMAIN contracts[j] : j \in 1..N}
    BY <2>2
  <2>4. contracts[i][days[n]] + a \in Int
    BY <1>0, <2>2
  <2> QED
    BY <2>1, <2>3, <2>4 DEF Points
<1>11. p \in Seq(Points(contracts))
  BY <1>5, <1>8, <1>10
<1>12. 1 \in 1..K /\ K \in 1..K /\ \A n \in 2..K : n - 1 \in 1..K /\ n \in 1..K /\ n - 1 < n
  BY <1>5
<1>13. p[1].day = FirstDay(contracts[i]) /\ p[K].day = Max(S)
  BY <1>4, <1>5, <1>10, <1>12
<1>14. ASSUME NEW n \in 2..K
       PROVE  p[n - 1].day < p[n].day /\ \A x \in S : x =< p[n - 1].day \/ x >= p[n].day
  <2>1. p[n - 1].day = days[n - 1] /\ p[n].day = days[n]
    BY <1>10, <1>12
  <2> QED
    BY <1>5, <1>6, <1>12, <2>1
<1> HIDE DEF S
<1> QED
  BY <1>5, <1>9, <1>10, <1>11, <1>13, <1>14 DEF S, p, a

\* From point x to point y the series changes as the contract that is held does.
Linked(contracts, x, y) ==
  LET held == contracts[HeldInto(contracts, y.day)]
  IN /\ {x.day, y.day} \subseteq DOMAIN held
     /\ DOMAIN held \cap (x.day)..(y.day) = {x.day, y.day}
     /\ y.close - x.close = held[y.day] - held[x.day]

LEMMA LinkedInside ==
  ASSUME NEW contracts, Joinable(contracts), NEW i \in 1..Len(contracts),
         NEW n \in 2..Len(Part(contracts, i))
  PROVE  Linked(contracts, Part(contracts, i)[n - 1], Part(contracts, i)[n])
<1> DEFINE N == Len(contracts)
           p == Part(contracts, i)
           x == p[n - 1].day
           y == p[n].day
           a == Adjustments(contracts)[i]
           c == contracts[i]
<1>0. N \in Nat /\ IsPrices(contracts) /\ Chronological(contracts) /\ a \in Int
  BY AdjustmentIs DEF Joinable, IsPrices
<1>1. Len(p) \in Nat
  BY PartIs
<1>2. n - 1 \in 1..Len(p) /\ n \in 1..Len(p)
  BY <1>1
<1>3. /\ x \in CountedDays(contracts, i) /\ y \in CountedDays(contracts, i)
      /\ p[n - 1].close = c[x] + a /\ p[n].close = c[y] + a
      /\ x < y
      /\ \A z \in CountedDays(contracts, i) : z =< x \/ z >= y
  BY <1>2, PartIs
<1> HIDE DEF x, y, a, p
<1>4. /\ x \in DOMAIN c /\ y \in DOMAIN c
      /\ i < N => y < FirstDay(contracts[i + 1])
  BY <1>3 DEF CountedDays
<1>5. /\ x \in Int /\ y \in Int /\ c[x] \in Int /\ c[y] \in Int /\ DOMAIN c \subseteq Int
      /\ FirstDay(c) =< x /\ FirstDay(c) \in Int
  BY <1>0, <1>4, FirstDayIs DEF IsPrices
<1>6. HeldInto(contracts, y) = i
  <2>1. FirstDay(contracts[i]) < y
    BY <1>3, <1>5
  <2>2. i < N => y =< FirstDay(contracts[i + 1])
    <3> SUFFICES ASSUME i < N PROVE y =< FirstDay(contracts[i + 1])
      OBVIOUS
    <3>1. i + 1 \in 1..N
      BY <1>0
    <3>2. FirstDay(contracts[i + 1]) \in Int
      BY <1>0, <3>1, FirstDayIs
    <3> QED
      BY <1>4, <1>5, <3>2
  <2> QED
    BY <1>0, <1>5, <2>1, <2>2, HeldIs
<1>7. ASSUME NEW z \in DOMAIN c, x =< z, z =< y PROVE z = x \/ z = y
  <2>1. z \in CountedDays(contracts, i)
    <3> SUFFICES ASSUME i < N PROVE z < FirstDay(contracts[i + 1])
      BY DEF CountedDays
    <3>1. i + 1 \in 1..N
      BY <1>0
    <3>2. FirstDay(contracts[i + 1]) \in Int
      BY <1>0, <3>1, FirstDayIs
    <3> QED
      BY <1>4, <1>5, <1>7, <3>2
  <2>2. z =< x \/ z >= y
    BY <1>3, <2>1
  <2> QED
    BY <1>5, <1>7, <2>2
<1>8. DOMAIN c \cap x..y = {x, y}
  BY <1>3, <1>4, <1>5, <1>7
<1>9. p[n].close - p[n - 1].close = c[y] - c[x]
  BY <1>0, <1>3, <1>5
<1>10. {x, y} \subseteq DOMAIN c
  BY <1>4
<1> QED
  BY <1>6, <1>8, <1>9, <1>10 DEF Linked, x, y, p

LEMMA LinkedAcross ==
  ASSUME NEW contracts, Joinable(contracts), NEW i \in 1..Len(contracts), i # Len(contracts)
  PROVE  Linked(contracts, Part(contracts, i)[Len(Part(contracts, i))], Part(contracts, i + 1)[1])
<1> DEFINE N == Len(contracts)
           p == Part(contracts, i)
           q == Part(contracts, i + 1)
           x == p[Len(p)].day
           y == q[1].day
           a == Adjustments(contracts)[i]
           b == Adjustments(contracts)[i + 1]
           c == contracts[i]
           d == contracts[i + 1]
<1>0. N \in Nat /\ IsPrices(contracts) /\ Chronological(contracts)
  BY DEF Joinable, IsPrices
<1>1. i + 1 \in 2..N /\ i + 1 \in 1..N /\ (i + 1) - 1 = i
  BY <1>0
<1>2. Len(p) \in 1..Len(p) /\ 1 \in 1..Len(q)
  <2>1. Len(p) \in Nat \ {0}
    BY PartIs
  <2>2. Len(q) \in Nat \ {0}
    BY <1>1, PartIs
  <2> QED
    BY <2>1, <2>2
<1>3. /\ x \in CountedDays(contracts, i) /\ x = Max(CountedDays(contracts, i))
      /\ p[Len(p)].close = c[x] + a
  BY <1>2, PartIs
<1>4. y = FirstDay(d) /\ q[1].close = d[y] + b
  BY <1>1, <1>2, PartIs
<1>5. /\ a \in Int /\ b \in Int /\ d[y] \in Int /\ c[y] \in Int
      /\ a = (d[y] + b) - c[y]
  BY <1>4, AdjustmentIs
<1> HIDE DEF x, y, a, b, p, q
<1>6. x \in DOMAIN c /\ x < y
  BY <1>0, <1>3, <1>4 DEF CountedDays
<1>7. y \in DOMAIN c
  BY <1>1, <1>4 DEF Joinable, Overlapping
<1>8. DOMAIN c \subseteq Int /\ IsFiniteSet(DOMAIN c) /\ x \in Int /\ y \in Int /\ c[x] \in Int
  BY <1>0, <1>6, <1>7 DEF IsPrices
<1>9. FirstDay(c) =< x /\ FirstDay(c) \in Int
  BY <1>0, <1>6, FirstDayIs
<1>10. HeldInto(contracts, y) = i
  <2>1. FirstDay(contracts[i]) < y /\ y =< FirstDay(contracts[i + 1])
    BY <1>4, <1>6, <1>8, <1>9
  <2> QED
    BY <1>0, <1>8, <2>1, HeldIs
<1>11. ASSUME NEW z \in DOMAIN c, x =< z, z =< y PROVE z = x \/ z = y
  <2> SUFFICES ASSUME z # y PROVE z = x
    OBVIOUS
  <2>1. z < y
    BY <1>8, <1>11
  <2>2. z \in CountedDays(contracts, i)
    BY <1>4, <2>1 DEF CountedDays
  <2>3. CountedDays(contracts, i) \subseteq DOMAIN c
    BY DEF CountedDays
  <2>4. IsFiniteSet(CountedDays(contracts, i)) /\ CountedDays(contracts, i) \subseteq Int
    BY <1>8, <2>3, FS_Subset
  <2>5. x >= z
    BY <1>3, <2>2, <2>4, Bounds
  <2> QED
    BY <1>8, <1>11, <2>5
<1>12. DOMAIN c \cap x..y = {x, y}
  BY <1>6, <1>7, <1>8, <1>11
<1>13. q[1].close - p[Len(p)].close = c[y] - c[x]
  <2> DEFINE u == c[x]
             v == c[y]
             w == d[y]
  <2>1. /\ p[Len(p)].close = u + a /\ q[1].close = w + b /\ a = (w + b) - v
        /\ u \in Int /\ v \in Int /\ w \in Int /\ a \in Int /\ b \in Int
    BY <1>3, <1>4, <1>5, <1>8
  <2> HIDE DEF u, v, w
  <2>2. (w + b) - (u + a) = v - u
    BY <2>1
  <2> QED
    BY <2>1, <2>2 DEF u, v
<1>14. {x, y} \subseteq DOMAIN c
  BY <1>6, <1>7
<1> QED
  BY <1>10, <1>12, <1>13, <1>14 DEF Linked, x, y, p, q

\* Series t has come to the end of contract i.
Continues(contracts, t, i) ==
  /\ t \in Seq(Points(contracts)) /\ Len(t) \in Nat \ {0}
  /\ t[1].day = FirstDay(contracts[1])
  /\ t[Len(t)] = Part(contracts, i)[Len(Part(contracts, i))]
  /\ \A n \in 2..Len(t) : Linked(contracts, t[n - 1], t[n])

LEMMA ContinuesOn ==
  ASSUME NEW contracts, Joinable(contracts), NEW i \in 1..Len(contracts), i # Len(contracts),
         NEW t, Continues(contracts, t, i)
  PROVE  Continues(contracts, t \o Part(contracts, i + 1), i + 1)
<1> DEFINE p == Part(contracts, i + 1)
           s == t \o p
           T == Len(t)
           P == Len(p)
<1>0. i + 1 \in 1..Len(contracts)
  <2>1. Len(contracts) \in Nat
    BY DEF Joinable, IsPrices
  <2> QED
    BY <2>1
<1>1. /\ p \in Seq(Points(contracts)) /\ P \in Nat \ {0}
      /\ t \in Seq(Points(contracts)) /\ T \in Nat \ {0}
  BY <1>0, PartIs DEF Continues
<1>2. \A n \in 2..P : Linked(contracts, p[n - 1], p[n])
  BY <1>0, LinkedInside
<1>3. Linked(contracts, t[T], p[1])
  BY LinkedAcross DEF Continues
<1>4. /\ t[1].day = FirstDay(contracts[1])
      /\ \A n \in 2..T : Linked(contracts, t[n - 1], t[n])
  BY DEF Continues
<1> HIDE DEF p
<1>5. /\ s \in Seq(Points(contracts)) /\ Len(s) = T + P
      /\ \A k \in 1..(T + P) : s[k] = IF k =< T THEN t[k] ELSE p[k - T]
  BY <1>1, ConcatProperties
<1> HIDE DEF s, T, P
<1>6. s[1] = t[1] /\ s[T + P] = p[P] /\ T + P \in Nat \ {0}
  <2>1. 1 \in 1..(T + P) /\ T + P \in 1..(T + P) /\ 1 =< T /\ ~(T + P =< T) /\ (T + P) - T = P
    BY <1>1
  <2> QED
    BY <1>1, <1>5, <2>1
<1>7. ASSUME NEW n \in 2..(T + P) PROVE Linked(contracts, s[n - 1], s[n])
  <2>0. n \in Int /\ n - 1 \in 1..(T + P) /\ n \in 1..(T + P)
    BY <1>1
  <2>1. CASE n =< T
    <3>1. n \in 2..T /\ n - 1 =< T
      BY <1>1, <2>1
    <3>2. s[n - 1] = t[n - 1] /\ s[n] = t[n]
      BY <1>5, <2>0, <2>1, <3>1
    <3> QED
      BY <1>4, <3>1, <3>2
  <2>2. CASE n = T + 1
    <3>1. n - 1 = T /\ n - T = 1 /\ n - 1 =< T /\ ~(n =< T)
      BY <1>1, <2>2
    <3>2. s[n - 1] = t[T] /\ s[n] = p[1]
      BY <1>5, <2>0, <3>1
    <3> QED
      BY <1>3, <3>2
  <2>3. CASE n > T + 1
    <3>1. n - T \in 2..P /\ ~(n - 1 =< T) /\ ~(n =< T) /\ (n - 1) - T = (n - T) - 1
      BY <1>1, <2>0, <2>3
    <3>2. s[n - 1] = p[(n - 1) - T] /\ s[n] = p[n - T]
      BY <1>5, <2>0, <3>1
    <3>3. s[n - 1] = p[(n - T) - 1]
      BY <3>1, <3>2
    <3>4. Linked(contracts, p[(n - T) - 1], p[n - T])
      BY <1>2, <3>1
    <3> QED
      BY <3>2, <3>3, <3>4
  <2> QED
    BY <1>1, <2>0, <2>1, <2>2, <2>3
<1>8. Continues(contracts, s, i + 1)
  BY <1>4, <1>5, <1>6, <1>7 DEF Continues, p, P
<1> QED
  BY <1>8 DEF s, p

LEMMA Joined ==
  ASSUME NEW contracts, Joinable(contracts), Len(contracts) # 0
  PROVE  Continues(contracts, AdjustedPoints(contracts), Len(contracts))
<1> DEFINE N == Len(contracts)
           parts == [i \in 1..N |-> Part(contracts, i)]
<1>0. N \in Nat \ {0}
  BY DEF Joinable, IsPrices
<1>1. AdjustedPoints(contracts) = FlattenSeq(parts)
  BY DEF AdjustedPoints, Part
<1>2. Len(parts) = N
  BY <1>0
<1>3. PICK g : IsFlatten(g, parts, N) /\ FlattenSeq(parts) = g[N]
  BY <1>0, <1>2, FlattenIs
<1>4. \A i \in 1..N : g[i] = IF i = 1 THEN Part(contracts, i) ELSE g[i - 1] \o Part(contracts, i)
  BY <1>3 DEF IsFlatten
<1> HIDE DEF parts
<1> DEFINE Good == {k \in Nat : \A i \in 1..N : i = k + 1 => Continues(contracts, g[i], i)}
<1>5. 0 \in Good
  <2> SUFFICES ASSUME NEW i \in 1..N, i = 0 + 1 PROVE Continues(contracts, g[i], i)
    OBVIOUS
  <2>1. i = 1 /\ g[i] = Part(contracts, i)
    BY <1>4
  <2>2. /\ Part(contracts, i) \in Seq(Points(contracts))
        /\ Len(Part(contracts, i)) \in Nat \ {0}
        /\ Part(contracts, i)[1].day = FirstDay(contracts[i])
    BY PartIs
  <2>3. \A n \in 2..Len(Part(contracts, i)) :
          Linked(contracts, Part(contracts, i)[n - 1], Part(contracts, i)[n])
    BY LinkedInside
  <2> QED
    BY <2>1, <2>2, <2>3 DEF Continues
<1>6. ASSUME NEW k \in Nat, k \in Good PROVE k + 1 \in Good
  <2> SUFFICES ASSUME NEW i \in 1..N, i = (k + 1) + 1 PROVE Continues(contracts, g[i], i)
    OBVIOUS
  <2>1. /\ i - 1 \in 1..N /\ i - 1 = k + 1 /\ i # 1 /\ (i - 1) + 1 = i /\ i - 1 # N
    BY <1>0
  <2>2. Continues(contracts, g[i - 1], i - 1)
    BY <1>6, <2>1
  <2>3. g[i] = g[i - 1] \o Part(contracts, i)
    BY <1>4, <2>1
  <2>4. PICK j \in 1..N : j = i - 1
    BY <2>1
  <2>5. Continues(contracts, g[j] \o Part(contracts, j + 1), j + 1)
    BY <2>1, <2>2, <2>4, ContinuesOn
  <2>6. j + 1 = i
    BY <2>1, <2>4
  <2> QED
    BY <2>3, <2>4, <2>5, <2>6
<1>7. \A k \in Nat : k \in Good
  <2> HIDE DEF Good
  <2> QED
    BY <1>5, <1>6, NatSet
<1>8. N - 1 \in Nat /\ N = (N - 1) + 1 /\ N \in 1..N
  BY <1>0
<1>9. Continues(contracts, g[N], N)
  BY <1>7, <1>8
<1> QED
  BY <1>1, <1>3, <1>9

\* What can be said of a series that is not empty.
LEMMA SeriesIs ==
  ASSUME NEW contracts, IsPrices(contracts), Len(contracts) # 0,
         ContinuousSeries(contracts) # << >>
  PROVE  /\ Joinable(contracts)
         /\ Continues(contracts, ContinuousSeries(contracts), Len(contracts))
         /\ \A n \in DOMAIN ContinuousSeries(contracts) :
              ContinuousSeries(contracts)[n].close > 0
<1>1. /\ Chronological(contracts) /\ Overlapping(contracts)
      /\ \A n \in DOMAIN AdjustedPoints(contracts) : AdjustedPoints(contracts)[n].close > 0
      /\ ContinuousSeries(contracts) = AdjustedPoints(contracts)
  BY DEF ContinuousSeries
<1>2. Joinable(contracts)
  BY <1>1 DEF Joinable
<1> QED
  BY <1>1, <1>2, Joined

\* The last point is the last price of the last contract.
LEMMA LastPoint ==
  ASSUME NEW contracts, Joinable(contracts), NEW t, Len(contracts) # 0,
         Continues(contracts, t, Len(contracts))
  PROVE  LET last == contracts[Len(contracts)]
         IN t[Len(t)] = [day |-> Max(DOMAIN last), close |-> last[Max(DOMAIN last)]]
<1> DEFINE N == Len(contracts)
           last == contracts[N]
           p == Part(contracts, N)
           x == p[Len(p)]
<1>0. N \in 1..N /\ IsPrices(contracts) /\ N \in Nat
  BY DEF Joinable, IsPrices
<1>1. Len(p) \in Nat \ {0} /\ p \in Seq(Points(contracts))
  BY <1>0, PartIs
<1>2. Len(p) \in 1..Len(p)
  BY <1>1
<1>3. /\ x.day = Max(CountedDays(contracts, N))
      /\ x.day \in CountedDays(contracts, N)
      /\ x.close = last[x.day] + Adjustments(contracts)[N]
  BY <1>0, <1>2, PartIs
<1>4. x \in Points(contracts)
  BY <1>1, <1>2
<1>5. CountedDays(contracts, N) = DOMAIN last
  BY <1>0 DEF CountedDays
<1>6. Adjustments(contracts)[N] = 0
  BY <1>0, AdjustmentIs
<1>7. last[x.day] \in Int
  BY <1>0, <1>3, <1>5 DEF IsPrices
<1>8. x.close = last[x.day]
  <2> HIDE DEF x, last
  <2> QED
    BY <1>3, <1>6, <1>7
<1>9. x = [day |-> x.day, close |-> x.close]
  BY <1>4 DEF Points
<1>10. t[Len(t)] = x
  BY DEF Continues
<1> HIDE DEF x
<1> QED
  BY <1>3, <1>5, <1>8, <1>9, <1>10

-----------------------------------------------------------------------------
(* The series of the builds.                                                *)

\* A build that has delivered has the series of what it fetched.
SeriesInv ==
  /\ DOMAIN series = Builds
  /\ \A b \in Builds :
       series[b] = IF pc[b] = "delivered" THEN ContinuousSeries(ContractPrices(b)) ELSE << >>

DeliveredInv == \A b \in Builds : pc[b] = "delivered" => series[b] # << >>

LEMMA SamePrices ==
  ASSUME NEW b, fetched'[b] = fetched[b]
  PROVE  ContractPrices(b)' = ContractPrices(b)
BY DEF ContractPrices

LEMMA SeriesStep == InputsTyped /\ SeriesInv /\ DeliveredInv /\ [Next]_vars =>
                      SeriesInv' /\ DeliveredInv'
<1> SUFFICES ASSUME InputsTyped, SeriesInv, DeliveredInv, [Next]_vars
             PROVE  SeriesInv' /\ DeliveredInv'
  OBVIOUS
<1>0. pc \in [Builds -> States] /\ DOMAIN series = Builds
  BY DEF InputsTyped, BuildsTyped, SeriesInv
<1>1. ASSUME UNCHANGED <<pc, fetched, series>> PROVE SeriesInv' /\ DeliveredInv'
  <2>1. \A b : ContractPrices(b)' = ContractPrices(b)
    BY <1>1, SamePrices
  <2> QED
    BY <1>1, <2>1 DEF SeriesInv, DeliveredInv
<1>2. ASSUME NEW b \in Builds, UNCHANGED series, pc[b] # "delivered",
             NEW s \in States, s # "delivered", pc' = [pc EXCEPT ![b] = s],
             \A c \in Builds : c # b => fetched'[c] = fetched[c]
      PROVE  SeriesInv' /\ DeliveredInv'
  <2>1. \A c \in Builds : c # b => ContractPrices(c)' = ContractPrices(c) /\ pc'[c] = pc[c]
    BY <1>0, <1>2, SamePrices
  <2>2. pc'[b] # "delivered"
    BY <1>0, <1>2
  <2> QED
    BY <1>2, <2>1, <2>2 DEF SeriesInv, DeliveredInv
<1>3. ASSUME NEW b \in Builds, NEW request \in Requests, Begin(b, request)
      PROVE  SeriesInv' /\ DeliveredInv'
  BY <1>2, <1>3 DEF Begin, States
<1>4. ASSUME NEW b \in Builds, NEW stray \in {{}} \cup {{x} : x \in Strays}, Fetch(b, stray)
      PROVE  SeriesInv' /\ DeliveredInv'
  <2>1. \A c \in Builds : c # b => fetched'[c] = fetched[c]
    <3>1. fetched \in [Builds -> Seq(Prices)]
      BY DEF InputsTyped, BuildsTyped
    <3>2. PICK p \in Prices : fetched' = [fetched EXCEPT ![b] = Append(@, p)]
      BY <1>4, FetchedBar DEF InputsTyped
    <3> QED
      BY <3>1, <3>2
  <2>2. PICK s \in {"fetching", "loading"} : pc' = [pc EXCEPT ![b] = s]
    BY <1>4 DEF Fetch
  <2>3. UNCHANGED series /\ pc[b] # "delivered"
    BY <1>4 DEF Fetch
  <2> QED
    BY <1>2, <2>1, <2>2, <2>3 DEF States
<1>5. ASSUME NEW b \in Builds, Load(b) \/ Truncate(b) \/ GiveUp(b)
      PROVE  SeriesInv' /\ DeliveredInv'
  <2>1. PICK s \in {"saving", "writing", "failed"} : pc' = [pc EXCEPT ![b] = s]
    BY <1>5 DEF Load, Truncate, GiveUp
  <2>2. UNCHANGED <<series, fetched>> /\ pc[b] # "delivered"
    BY <1>5 DEF Load, Truncate, GiveUp
  <2> QED
    BY <1>2, <2>1, <2>2 DEF States
<1>6. ASSUME NEW b \in Builds, Write(b) PROVE SeriesInv' /\ DeliveredInv'
  <2> DEFINE result == ContinuousSeries(ContractPrices(b))
  <2>1. /\ series' = [series EXCEPT ![b] = result] /\ UNCHANGED fetched
        /\ pc' = [pc EXCEPT ![b] = IF result = << >> THEN "unusable" ELSE "delivered"]
    BY <1>6 DEF Write
  <2>2. \A c : ContractPrices(c)' = ContractPrices(c)
    BY <2>1, SamePrices
  <2>3. /\ DOMAIN series' = Builds /\ series'[b] = result
        /\ pc'[b] = IF result = << >> THEN "unusable" ELSE "delivered"
        /\ \A c \in Builds : c # b => series'[c] = series[c] /\ pc'[c] = pc[c]
    BY <1>0, <2>1
  <2> HIDE DEF result
  <2>4. DeliveredInv'
    BY <2>3 DEF DeliveredInv
  <2>5. \A c \in Builds : c # b =>
          series'[c] = IF pc'[c] = "delivered" THEN ContinuousSeries(ContractPrices(c)) ELSE << >>
    BY <2>3 DEF SeriesInv
  <2>6. series'[b] = IF pc'[b] = "delivered" THEN result ELSE << >>
    BY <2>3
  <2>7. \A c \in Builds :
          series'[c] = IF pc'[c] = "delivered" THEN ContinuousSeries(ContractPrices(c)) ELSE << >>
    BY <2>5, <2>6 DEF result
  <2> QED
    BY <2>2, <2>3, <2>4, <2>7 DEF SeriesInv
<1>7. ASSUME NEW k \in DOMAIN quotes, NEW close \in Closes, Revise(k, close)
      PROVE  SeriesInv' /\ DeliveredInv'
  BY <1>1, <1>7 DEF Revise
<1>8. ASSUME NEW volatilities, NEW tradable, Size(volatilities, tradable)
      PROVE  SeriesInv' /\ DeliveredInv'
  BY <1>1, <1>8 DEF Size
<1>9. CASE UNCHANGED vars
  BY <1>1, <1>9 DEF vars
<1> QED
  BY <1>3, <1>4, <1>5, <1>6, <1>7, <1>8, <1>9 DEF Next, Build

LEMMA SeriesInvariant == Spec => [](SeriesInv /\ DeliveredInv)
<1>1. Init => SeriesInv /\ DeliveredInv
  BY DEF Init, SeriesInv, DeliveredInv
<1> QED
  BY <1>1, SeriesStep, TypesInvariant, PTL DEF Spec

\* The prices that a delivered build joins.
LEMMA DeliveredPrices ==
  ASSUME InputsTyped, NEW b \in Builds
  PROVE  /\ IsPrices(ContractPrices(b))
         /\ Len(ContractPrices(b)) = Len(fetched[b])
         /\ UNION {DOMAIN ContractPrices(b)[i] : i \in 1..Len(ContractPrices(b))} \subseteq Days
         /\ pc[b] = "delivered" => Len(ContractPrices(b)) # 0
<1> DEFINE c == ContractPrices(b)
           N == Len(fetched[b])
<1>1. fetched[b] \in Seq(Prices) /\ N \in Nat /\ DOMAIN fetched[b] = 1..N
      /\ segments[b] \in Seq(Segments)
  BY DEF InputsTyped, BuildsTyped
<1>2. c = [i \in 1..N |-> [d \in DOMAIN fetched[b][i] |-> fetched[b][i][d].close]]
  BY <1>1 DEF ContractPrices
<1>3. Len(c) = N /\ DOMAIN c = 1..N
  BY <1>1, <1>2
<1> HIDE DEF c, N
<1>4. ASSUME NEW i \in 1..N
      PROVE  /\ DOMAIN c[i] \subseteq Days /\ DOMAIN c[i] # {}
             /\ \A d \in DOMAIN c[i] : c[i][d] \in Int
  <2>1. fetched[b][i] \in Prices
    BY <1>1
  <2>2. /\ DOMAIN fetched[b][i] \subseteq Days /\ DOMAIN fetched[b][i] # {}
        /\ \A d \in DOMAIN fetched[b][i] : fetched[b][i][d] \in Bars
    BY <2>1 DEF Prices
  <2>3. c[i] = [d \in DOMAIN fetched[b][i] |-> fetched[b][i][d].close]
    BY <1>2
  <2>4. Closes \subseteq Int
    BY InputsAssumption
  <2>5. \A bar \in Bars : bar.close \in Int
    BY <2>4 DEF Bars
  <2> QED
    BY <2>2, <2>3, <2>5
<1>5. Days \subseteq Int /\ IsFiniteSet(Days)
  BY InputsAssumption
<1>6. IsPrices(c)
  <2>1. \A i \in 1..N : IsFiniteSet(DOMAIN c[i])
    BY <1>4, <1>5, FS_Subset
  <2> QED
    BY <1>1, <1>3, <1>4, <1>5, <2>1 DEF IsPrices
<1>7. pc[b] = "delivered" => N # 0
  BY <1>1 DEF InputsTyped, Progress, N
<1>8. UNION {DOMAIN c[i] : i \in 1..N} \subseteq Days
  BY <1>4
<1> QED
  BY <1>3, <1>6, <1>7, <1>8 DEF c, N

\* A delivered series changes from day to day as the contract held does, whatever
\* the rolls, leaves out none of that contract's days, and ends with the last
\* contract's own last price: build_back_adjusted_continuous_series.
THEOREM SeriesKeepChanges == Spec => []SeriesKeepsChanges
<1>1. InputsTyped /\ SeriesInv /\ DeliveredInv => SeriesKeepsChanges
  <2> SUFFICES ASSUME InputsTyped, SeriesInv, DeliveredInv, NEW b \in Delivered
               PROVE  LET prices == ContractPrices(b)
                          last == prices[Len(prices)]
                          s == series[b]
                      IN /\ s[1].day = FirstDay(prices[1])
                         /\ s[Len(s)] = [day |-> Max(DOMAIN last),
                                         close |-> last[Max(DOMAIN last)]]
                         /\ \A n \in 2..Len(s) : Linked(prices, s[n - 1], s[n])
    BY DEF SeriesKeepsChanges, Linked
  <2> DEFINE c == ContractPrices(b)
  <2>1. b \in Builds /\ pc[b] = "delivered"
    BY DEF Delivered
  <2>2. series[b] = ContinuousSeries(c) /\ series[b] # << >>
    BY <2>1 DEF SeriesInv, DeliveredInv
  <2>3. IsPrices(c) /\ Len(c) # 0
    BY <2>1, DeliveredPrices
  <2> HIDE DEF c
  <2>4. Joinable(c) /\ Continues(c, series[b], Len(c))
    BY <2>2, <2>3, SeriesIs
  <2>5. LET last == c[Len(c)]
        IN series[b][Len(series[b])] = [day |-> Max(DOMAIN last), close |-> last[Max(DOMAIN last)]]
    BY <2>3, <2>4, LastPoint
  <2> QED
    BY <2>4, <2>5 DEF Continues, c
<1> QED
  BY <1>1, TypesInvariant, SeriesInvariant, PTL

\* The inputs are of their types: in particular what is merged into the file is
\* a bar of a contract and a day, and the prices of a delivered series, adjusted
\* as they are, are positive.
THEOREM InputsAreTyped == Spec => []TypeOK
<1>1. InputsTyped /\ SeriesInv /\ DeliveredInv => TypeOK
  <2> SUFFICES ASSUME InputsTyped, SeriesInv, DeliveredInv PROVE TypeOK
    OBVIOUS
  <2>1. /\ IsBars(quotes) /\ revisions \in 0..MaxRevisions
        /\ pc \in [Builds -> States] /\ segments \in [Builds -> Requests \cup {<< >>}]
        /\ damaged \in BOOLEAN /\ since \in [Builds -> SUBSET Builds] /\ outdated \subseteq Builds
    BY DEF InputsTyped, QuotesTyped, BuildsTyped, FilesTyped
  <2>2. \A f \in Files : IsBars(f)
    BY DEF Files, IsBars
  <2>3. cache \in {Missing, Torn} \/ IsBars(cache)
    BY <2>2 DEF InputsTyped, FilesTyped
  <2>4. ASSUME NEW b \in Builds
        PROVE  /\ IsBars(merged[b])
               /\ Len(fetched[b]) <= Len(segments[b])
               /\ \A i \in DOMAIN fetched[b] :
                    /\ DOMAIN fetched[b][i] \subseteq Days
                    /\ \A d \in DOMAIN fetched[b][i] : fetched[b][i][d] \in Bars
    <3>1. IsBars(merged[b]) /\ fetched[b] \in Seq(Prices)
      BY <2>2 DEF InputsTyped, FilesTyped, BuildsTyped
    <3>2. \A i \in DOMAIN fetched[b] : fetched[b][i] \in Prices
      BY <3>1
    <3> QED
      BY <3>1, <3>2 DEF Prices, InputsTyped, Progress
  <2>5. ASSUME NEW b \in Builds, NEW n \in DOMAIN series[b]
        PROVE  series[b][n].day \in Days /\ series[b][n].close \in Nat \ {0}
    <3> DEFINE c == ContractPrices(b)
    <3>1. pc[b] = "delivered"
      BY <2>5 DEF SeriesInv
    <3>2. series[b] = ContinuousSeries(c) /\ series[b] # << >>
      BY <3>1 DEF SeriesInv, DeliveredInv
    <3>3. IsPrices(c) /\ Len(c) # 0 /\ UNION {DOMAIN c[i] : i \in 1..Len(c)} \subseteq Days
      BY <3>1, DeliveredPrices
    <3> HIDE DEF c
    <3>4. series[b] \in Seq(Points(c)) /\ series[b][n].close > 0
      BY <3>2, <3>3, SeriesIs DEF Continues
    <3>5. series[b][n] \in Points(c)
      BY <2>5, <3>4
    <3> QED
      BY <3>3, <3>4, <3>5 DEF Points
  <2> QED
    BY <2>1, <2>3, <2>4, <2>5 DEF TypeOK, States
<1> QED
  BY <1>1, TypesInvariant, SeriesInvariant, PTL

-----------------------------------------------------------------------------
(* Powers of ten and rounding.                                              *)

LEMMA PowersOfTen ==
  /\ TenTo[0] = 1
  /\ \A j \in 1..(Places + Digits) : TenTo[j] = 10 * TenTo[j - 1]
<1> DEFINE N == Places + Digits
           Next1(h, k) == IF k = 0 THEN 1 ELSE 10 * h[k - 1]
           Eq(h, m) == h = [k \in 0..m |-> Next1(h, k)]
           Good == {m \in Nat : \E h : Eq(h, m)}
<1>0. N \in Nat
  BY SizingAssumption
<1>1. 0 \in Good
  <2> DEFINE h == [k \in 0..0 |-> 1]
  <2>1. Eq(h, 0)
    OBVIOUS
  <2> QED
    BY <2>1
<1>2. ASSUME NEW m \in Nat, m \in Good PROVE m + 1 \in Good
  <2>1. PICK g : Eq(g, m)
    BY <1>2
  <2> DEFINE h == [k \in 0..(m + 1) |-> IF k = m + 1 THEN Next1(g, k) ELSE g[k]]
  <2>2. ASSUME NEW k \in 0..(m + 1) PROVE h[k] = Next1(h, k)
    <3>1. CASE k = 0
      <4>1. h[k] = g[k] /\ g[k] = 1
        BY <2>1, <3>1
      <4> QED
        BY <3>1, <4>1
    <3>2. CASE k # 0
      <4>1. k - 1 \in 0..m /\ k - 1 # m + 1 /\ k - 1 \in 0..(m + 1)
        BY <3>2
      <4>2. h[k - 1] = g[k - 1]
        BY <4>1
      <4>3. h[k] = Next1(g, k)
        <5>1. CASE k = m + 1
          BY <5>1
        <5>2. CASE k # m + 1
          <6>1. k \in 0..m
            BY <5>2
          <6>2. g[k] = Next1(g, k)
            BY <2>1, <6>1
          <6> QED
            BY <5>2, <6>2
        <5> QED
          BY <5>1, <5>2
      <4> HIDE DEF h
      <4> QED
        BY <3>2, <4>2, <4>3
    <3> QED
      BY <3>1, <3>2
  <2>3. Eq(h, m + 1)
    <3>1. h = [k \in 0..(m + 1) |-> h[k]]
      OBVIOUS
    <3> HIDE DEF h, Next1
    <3> QED
      BY <2>2, <3>1
  <2> HIDE DEF Eq, h
  <2> QED
    BY <2>3
<1>3. \A m \in Nat : m \in Good
  <2> HIDE DEF Good
  <2> QED
    BY <1>1, <1>2, NatSet
<1>4. \E h : Eq(h, N)
  BY <1>0, <1>3
<1>5. PICK power : power = (CHOOSE h : Eq(h, N)) /\ Eq(power, N)
  <2> HIDE DEF Eq
  <2> QED
    BY <1>4, Zenon
<1>6. TenTo = [k \in 0..N |-> power[k]]
  BY <1>5 DEF TenTo
<1>7. \A k \in 0..N : TenTo[k] = power[k] /\ power[k] = Next1(power, k)
  BY <1>5, <1>6
<1>8. 0 \in 0..N /\ \A k \in 1..N : k \in 0..N /\ k - 1 \in 0..N /\ k # 0
  BY <1>0
<1>9. ASSUME NEW k \in 1..N PROVE TenTo[k] = 10 * TenTo[k - 1]
  <2>1. TenTo[k] = power[k] /\ power[k] = Next1(power, k) /\ TenTo[k - 1] = power[k - 1] /\ k # 0
    BY <1>7, <1>8
  <2> HIDE DEF N
  <2> QED
    BY <2>1
<1>10. TenTo[0] = 1
  BY <1>7, <1>8
<1> QED
  BY <1>9, <1>10

LEMMA PowersPositive ==
  \A j \in 0..(Places + Digits) : TenTo[j] \in Nat \ {0}
<1> DEFINE N == Places + Digits
           Good == {n \in Nat : n \in 0..N => TenTo[n] \in Nat \ {0}}
<1>0. N \in Nat
  BY SizingAssumption
<1>1. 0 \in Good
  BY PowersOfTen
<1>2. ASSUME NEW n \in Nat, n \in Good PROVE n + 1 \in Good
  <2> SUFFICES ASSUME n + 1 \in 0..N PROVE TenTo[n + 1] \in Nat \ {0}
    OBVIOUS
  <2>1. n \in 0..N /\ n + 1 \in 1..N /\ (n + 1) - 1 = n
    BY <1>0
  <2>2. TenTo[n] \in Nat \ {0}
    BY <1>2, <2>1
  <2>3. TenTo[n + 1] = 10 * TenTo[n]
    BY <2>1, PowersOfTen
  <2> QED
    BY <2>2, <2>3
<1>3. \A n \in Nat : n \in Good
  <2> HIDE DEF Good
  <2> QED
    BY <1>1, <1>2, NatSet
<1> QED
  BY <1>0, <1>3

LEMMA PowersMultiply ==
  ASSUME NEW i \in 0..Digits
  PROVE  \A j \in 0..Places : TenTo[j + i] = TenTo[j] * TenTo[i]
<1> DEFINE Good == {n \in Nat : n \in 0..Places => TenTo[n + i] = TenTo[n] * TenTo[i]}
<1>0. Places \in Nat /\ Digits \in Nat
  BY SizingAssumption
<1>1. 0 \in Good
  <2>1. TenTo[i] \in Nat
    BY <1>0, PowersPositive
  <2> QED
    BY <2>1, PowersOfTen
<1>2. ASSUME NEW n \in Nat, n \in Good PROVE n + 1 \in Good
  <2> SUFFICES ASSUME n + 1 \in 0..Places PROVE TenTo[(n + 1) + i] = TenTo[n + 1] * TenTo[i]
    OBVIOUS
  <2>1. /\ n \in 0..Places /\ n + 1 \in 1..(Places + Digits) /\ (n + 1) - 1 = n
        /\ (n + 1) + i \in 1..(Places + Digits) /\ ((n + 1) + i) - 1 = n + i
        /\ n \in 0..(Places + Digits) /\ i \in 0..(Places + Digits)
    BY <1>0
  <2>2. TenTo[n + 1] = 10 * TenTo[n] /\ TenTo[(n + 1) + i] = 10 * TenTo[n + i]
    BY <2>1, PowersOfTen
  <2>3. TenTo[n + i] = TenTo[n] * TenTo[i]
    BY <1>2, <2>1
  <2>4. TenTo[n] \in Nat /\ TenTo[i] \in Nat
    BY <2>1, PowersPositive
  <2> DEFINE a == TenTo[n]
             b == TenTo[i]
  <2>5. a \in Nat /\ b \in Nat /\ TenTo[n + 1] = 10 * a /\ TenTo[(n + 1) + i] = 10 * (a * b)
    BY <2>2, <2>3, <2>4
  <2> HIDE DEF a
  <2>6. TenTo[(n + 1) + i] = TenTo[n + 1] * b
    <3> HIDE DEF b
    <3> QED
      BY <2>5
  <2> QED
    BY <2>6
<1>3. \A n \in Nat : n \in Good
  <2> HIDE DEF Good
  <2> QED
    BY <1>1, <1>2, NatSet
<1> QED
  BY <1>0, <1>3

\* Rounded is within half a unit of the quotient, and whole numbers stay.
LEMMA RoundedNear ==
  ASSUME NEW n \in Nat, NEW d \in Nat \ {0}
  PROVE  /\ Rounded(n, d) \in Nat
         /\ 2 * (Rounded(n, d) * d) =< 2 * n + d
         /\ 2 * n =< 2 * (Rounded(n, d) * d) + d
<1> DEFINE q == n \div d
           m == n % d
<1>1. q \in Nat /\ m \in Nat /\ m < d /\ n = d * q + m
  OBVIOUS
<1> HIDE DEF q, m
<1>2. Rounded(n, d) = IF 2 * m > d \/ (2 * m = d /\ q % 2 = 1) THEN q + 1 ELSE q
  BY DEF Rounded, q, m
<1> DEFINE dq == d * q
<1>3. dq \in Nat /\ n = dq + m /\ q * d = dq /\ (q + 1) * d = dq + d
  BY <1>1
<1> HIDE DEF dq
<1>4. CASE Rounded(n, d) = q + 1 /\ 2 * m >= d
  BY <1>1, <1>3, <1>4
<1>5. CASE Rounded(n, d) = q /\ 2 * m =< d
  BY <1>1, <1>3, <1>5
<1> QED
  BY <1>1, <1>2, <1>4, <1>5

\* The result of an operation, n / d, is off by half of the last of its digits,
\* or of a unit.
Scale == TenTo[Digits - 1]

Near(x, n, d) ==
  /\ 2 * (Scale * (x * d)) =< 2 * (Scale * n) + (n + Scale * d)
  /\ 2 * (Scale * n) =< 2 * (Scale * (x * d)) + (n + Scale * d)

LEMMA ScalePositive == Scale \in Nat \ {0} /\ Unit \in Nat \ {0}
<1>1. Digits - 1 \in 0..(Places + Digits) /\ Places \in 0..(Places + Digits)
  BY SizingAssumption
<1> QED
  BY <1>1, PowersPositive DEF Scale, Unit

\* A number is far below the greatest that the powers reach.
LEMMA UnitsFit == TenTo[Places + Digits] = 10 * (Unit * Scale)
<1>1. /\ Digits \in 0..Digits /\ Places \in 0..Places /\ Digits \in 1..(Places + Digits)
      /\ 0 + Digits = Digits
  BY SizingAssumption
<1>2. TenTo[Places + Digits] = TenTo[Places] * TenTo[Digits]
  BY <1>1, PowersMultiply
<1>3. TenTo[Digits] = 10 * TenTo[Digits - 1]
  BY <1>1, PowersOfTen
<1>4. TenTo[Places + Digits] = Unit * (10 * Scale)
  BY <1>2, <1>3 DEF Unit, Scale
<1> QED
  BY <1>4, ScalePositive

LEMMA DecimalNear ==
  ASSUME NEW n \in Nat, NEW d \in Nat \ {0}, n < d * TenTo[Places + Digits]
  PROVE  Decimal(n, d) \in Nat /\ Near(Decimal(n, d), n, d)
<1> DEFINE J == {j \in 0..Places : n \div d < TenTo[j + Digits]}
           Steps == {TenTo[j] : j \in J}
           T == Min(Steps)
           R == Rounded(n, d * T)
<1>0. Places \in Nat /\ Digits \in Nat \ {0}
  BY SizingAssumption
<1>1. \A j \in J : j \in 0..Places /\ j \in 0..(Places + Digits) /\ TenTo[j] \in Nat \ {0}
  BY <1>0, PowersPositive
<1>2. Places \in J
  <2>1. TenTo[Places + Digits] \in Nat
    BY <1>0, PowersPositive
  <2> DEFINE X == TenTo[Places + Digits]
             q == n \div d
  <2>2. q \in Nat /\ d * q =< n
    OBVIOUS
  <2>3. X \in Nat /\ n < d * X
    BY <2>1
  <2> HIDE DEF X, q
  <2>4. d * q < d * X
    BY <2>2, <2>3
  <2>5. q < X
    BY <2>2, <2>3, <2>4
  <2> QED
    BY <1>0, <2>5 DEF X, q
<1>3. PICK j \in J : T = TenTo[j] /\ \A k \in J : TenTo[j] =< TenTo[k]
  <2>1. IsFiniteSet(J)
    <3>1. IsFiniteSet(0..Places)
      BY <1>0, FS_Interval
    <3>2. J \in SUBSET (0..Places)
      OBVIOUS
    <3> HIDE DEF J
    <3> QED
      BY <3>1, <3>2, FS_Subset
  <2>2. IsFiniteSet(Steps)
    <3> DEFINE f == [k \in J |-> TenTo[k]]
    <3>1. f \in Surjection(J, Steps)
      <4> HIDE DEF J
      <4> QED
        BY DEF Surjection
    <3> HIDE DEF J, Steps, f
    <3> QED
      BY <2>1, <3>1, FS_Surjection
  <2>3. Steps \subseteq Int /\ Steps # {}
    BY <1>1, <1>2
  <2>4. \E m \in Steps : \A x \in Steps : m =< x
    <3> HIDE DEF Steps
    <3> QED
      BY <2>2, <2>3, BoundsExist
  <2>5. T \in Steps /\ \A x \in Steps : T =< x
    <3> HIDE DEF Steps
    <3> QED
      BY <2>4 DEF Min
  <2> HIDE DEF J, T
  <2> QED
    BY <2>5
<1> HIDE DEF T
<1>4. Decimal(n, d) = T * R
  BY DEF Decimal, T
<1>5. T \in Nat \ {0}
  BY <1>1, <1>3
<1> DEFINE D == d * T
<1>6. D \in Nat \ {0}
  BY <1>5
<1>7. /\ R \in Nat
      /\ 2 * (R * D) =< 2 * n + D
      /\ 2 * n =< 2 * (R * D) + D
  <2> HIDE DEF D
  <2> QED
    BY <1>6, RoundedNear DEF D
<1> HIDE DEF R
<1>8. T * R \in Nat /\ (T * R) * d = R * D
  BY <1>5, <1>7
<1>9. Scale * D =< n + Scale * d
  <2>1. CASE j = 0
    <3>1. D = d
      BY <1>3, <2>1, PowersOfTen
    <3> QED
      BY <3>1, ScalePositive
  <2>2. CASE j # 0
    <3>1. /\ j \in 1..(Places + Digits) /\ j - 1 \in 0..Places
          /\ j - 1 \in 0..(Places + Digits) /\ j \in 0..Places
          /\ (j - 1) + Digits = j + (Digits - 1) /\ Digits - 1 \in 0..Digits
      BY <1>0, <1>3, <2>2
    <3>2. TenTo[j] = 10 * TenTo[j - 1] /\ TenTo[j - 1] \in Nat \ {0}
      BY <3>1, PowersOfTen, PowersPositive
    <3>3. j - 1 \notin J
      <4>1. ~(TenTo[j] =< TenTo[j - 1])
        BY <3>2
      <4> QED
        BY <1>3, <4>1
    <3>4. ~(n \div d < TenTo[(j - 1) + Digits])
      BY <3>1, <3>3
    <3>5. TenTo[(j - 1) + Digits] = T * Scale
      <4>1. TenTo[j + (Digits - 1)] = TenTo[j] * TenTo[Digits - 1]
        BY <3>1, PowersMultiply
      <4> QED
        BY <1>3, <3>1, <4>1 DEF Scale
    <3> DEFINE q == n \div d
               X == T * Scale
    <3>6. q \in Nat /\ d * q =< n
      OBVIOUS
    <3>7. X \in Nat
      BY <1>5, ScalePositive
    <3>8. X =< q
      <4> HIDE DEF X
      <4> QED
        BY <3>4, <3>5, <3>6, <3>7 DEF X
    <3>9. d * X =< d * q
      <4> HIDE DEF X, q
      <4> QED
        BY <3>6, <3>7, <3>8
    <3>10. d * X =< n
      <4> HIDE DEF X
      <4> QED
        BY <3>6, <3>7, <3>9
    <3>11. Scale * D = d * X
      BY <1>5, ScalePositive
    <3> DEFINE a == Scale * D
               b == Scale * d
    <3>12. a \in Nat /\ b \in Nat /\ a =< n
      BY <1>6, <3>10, <3>11, ScalePositive
    <3> HIDE DEF a, b
    <3>13. a =< n + b
      BY <3>12
    <3> QED
      BY <3>13 DEF a, b
  <2> QED
    BY <2>1, <2>2
<1> DEFINE e == R * D
<1>10. e \in Nat /\ 2 * e =< 2 * n + D /\ 2 * n =< 2 * e + D
  BY <1>6, <1>7
<1> HIDE DEF D, e
<1>11. /\ 2 * (Scale * e) =< 2 * (Scale * n) + Scale * D
       /\ 2 * (Scale * n) =< 2 * (Scale * e) + Scale * D
  BY <1>6, <1>10, ScalePositive
<1>12. Near(T * R, n, d)
  <2>1. (T * R) * d = e
    BY <1>8 DEF e
  <2> DEFINE a == Scale * e
             b == Scale * n
             f == Scale * d
             g == Scale * D
  <2>2. a \in Nat /\ b \in Nat /\ f \in Nat /\ g \in Nat
    BY <1>6, <1>10, ScalePositive
  <2>3. 2 * a =< 2 * b + g /\ 2 * b =< 2 * a + g /\ g =< n + f
    BY <1>9, <1>11
  <2> HIDE DEF a, b, f, g
  <2>4. 2 * a =< 2 * b + (n + f) /\ 2 * b =< 2 * a + (n + f)
    BY <2>2, <2>3
  <2> QED
    BY <2>1, <2>4 DEF Near, a, b, f
<1> QED
  BY <1>4, <1>8, <1>12

\* What is far less than the greatest number has a Decimal.
LEMMA FitsUnits ==
  ASSUME NEW n \in Nat, NEW d \in Nat \ {0}, n =< d * (9 * (Unit * Scale))
  PROVE  n < d * TenTo[Places + Digits]
<1> DEFINE z == Unit * Scale
<1>1. z \in Nat \ {0} /\ TenTo[Places + Digits] = 10 * z
  BY UnitsFit, ScalePositive
<1> DEFINE a == d * z
<1>2. a \in Nat \ {0} /\ d * (9 * z) = 9 * a /\ d * (10 * z) = 10 * a
  BY <1>1
<1>3. n =< 9 * a
  BY <1>2
<1> HIDE DEF a, z
<1>4. n < 10 * a
  BY <1>2, <1>3
<1> QED
  BY <1>1, <1>2, <1>4

\* The error of a result, multiplied by a number.
LEMMA ErrorTimes ==
  ASSUME NEW x \in Nat, NEW n \in Nat, NEW d \in Nat, Near(x, n, d), NEW k \in Nat
  PROVE  LET e == k * (x * d - n)
             b == k * n + Scale * (k * d)
         IN e \in Int /\ b \in Nat /\ 2 * (Scale * e) =< b /\ -b =< 2 * (Scale * e)
<1> DEFINE p == Scale * (x * d)
           q == Scale * n
           r == Scale * d
           m == n + r
           w == 2 * (p - q)
<1>1. p \in Nat /\ q \in Nat /\ r \in Nat /\ m \in Nat
  BY ScalePositive
<1>2. w \in Int /\ w =< m /\ -m =< w
  <2>1. 2 * p =< 2 * q + m /\ 2 * q =< 2 * p + m
    BY DEF Near
  <2> HIDE DEF p, q, m
  <2> QED
    BY <1>1, <2>1
<1>3. k * w \in Int /\ k * m \in Nat /\ k * w =< k * m /\ -(k * m) =< k * w
  <2> HIDE DEF w, m
  <2>1. k * w =< k * m
    BY <1>1, <1>2
  <2>2. -(k * m) =< k * w
    BY <1>1, <1>2
  <2> QED
    BY <1>1, <1>2, <2>1, <2>2
<1>4. k * m = k * n + Scale * (k * d)
  BY ScalePositive
<1>5. k * w = 2 * (Scale * (k * (x * d - n)))
  BY ScalePositive
<1>6. k * (x * d - n) \in Int
  OBVIOUS
<1> HIDE DEF w, m
<1> QED
  BY <1>3, <1>4, <1>5, <1>6

\* A result is less than twice what bounds its operands.
LEMMA NearBounded ==
  ASSUME NEW x \in Nat, NEW n \in Nat, NEW d \in Nat, Near(x, n, d),
         NEW k \in Nat, n =< k, d =< k
  PROVE  x * d =< 2 * k
<1> DEFINE w == x * d
           p == Scale * k
<1>1. w \in Nat /\ p \in Nat /\ Scale * n =< p /\ Scale * d =< p /\ k =< p
  BY ScalePositive
<1>2. 2 * (Scale * w) =< 2 * (Scale * n) + (n + Scale * d)
  BY DEF Near
<1> DEFINE a == Scale * w
           b == Scale * n
           c == Scale * d
<1>3. a \in Nat /\ b \in Nat /\ c \in Nat
  BY <1>1, ScalePositive
<1>4. b =< p /\ c =< p /\ k =< p /\ 2 * a =< 2 * b + (n + c)
  BY <1>1, <1>2
<1>5. 2 * a =< 4 * p
  <2> HIDE DEF a, b, c, p
  <2> QED
    BY <1>1, <1>3, <1>4
<1>6. Scale * w =< Scale * (2 * k)
  BY <1>5, ScalePositive
<1> HIDE DEF w
<1>7. w =< 2 * k
  BY <1>1, <1>6, ScalePositive
<1> QED
  BY <1>7 DEF w

\* What is less than a part of the denominator away from a quotient has its
\* whole part, or one less.
LEMMA FloorNear ==
  ASSUME NEW a \in Nat, NEW b \in Nat \ {0}, NEW y \in Nat, NEW u \in Nat \ {0},
         y * b - a * u < u, -u < y * b - a * u
  PROVE  /\ y \div u \in Nat /\ a \div b \in Nat
         /\ y \div u =< a \div b /\ a \div b =< (y \div u) + 1
<1> DEFINE q == y \div u
           m == a \div b
<1>1. q \in Nat /\ u * q =< y /\ y < u * (q + 1)
  OBVIOUS
<1>2. m \in Nat /\ b * m =< a /\ a < b * (m + 1)
  OBVIOUS
<1> HIDE DEF q, m
<1>3. q =< m
  <2> SUFFICES ASSUME m + 1 =< q PROVE FALSE
    BY <1>1, <1>2
  <2>1. (u * q) * b =< y * b
    BY <1>1
  <2>2. u * (b * (m + 1)) =< (u * q) * b
    <3>1. b * (m + 1) =< b * q
      BY <1>1, <1>2
    <3> DEFINE l == b * (m + 1)
               r == b * q
    <3>2. l \in Nat /\ r \in Nat /\ l =< r
      BY <1>1, <1>2, <3>1
    <3>3. (u * q) * b = u * r
      BY <1>1
    <3> HIDE DEF l, r
    <3>4. u * l =< u * r
      BY <3>2
    <3> QED
      BY <3>3, <3>4 DEF l
  <2>3. u * (a + 1) =< u * (b * (m + 1))
    <3> DEFINE l == b * (m + 1)
    <3>1. l \in Nat /\ a + 1 =< l
      BY <1>2
    <3> HIDE DEF l
    <3>2. u * (a + 1) =< u * l
      BY <3>1
    <3> QED
      BY <3>2 DEF l
  <2>4. u * (a + 1) = a * u + u
    OBVIOUS
  <2> DEFINE A == u * (a + 1)
             B == u * (b * (m + 1))
             C == (u * q) * b
             D == y * b
             F == a * u
  <2>5. A \in Int /\ B \in Int /\ C \in Int /\ D \in Int /\ F \in Int
    BY <1>1, <1>2
  <2>6. C =< D /\ B =< C /\ A =< B /\ A = F + u /\ D - F < u
    BY <2>1, <2>2, <2>3, <2>4
  <2> HIDE DEF A, B, C, D, F
  <2> QED
    BY <2>5, <2>6
<1>4. m =< q + 1
  <2> SUFFICES ASSUME q + 2 =< m PROVE FALSE
    BY <1>1, <1>2
  <2>1. y * b =< (u * (q + 1)) * b
    BY <1>1
  <2>2. (u * (q + 1)) * b = u * (b * (q + 1))
    BY <1>1
  <2>3. b * (q + 2) =< b * m
    BY <1>1, <1>2
  <2>4. b * (q + 1) + 1 =< a
    <3>1. b * (q + 2) = b * (q + 1) + b
      BY <1>1
    <3> DEFINE l == b * (q + 1)
               r == b * m
    <3>2. l \in Nat /\ r \in Nat /\ l + b =< r /\ r =< a
      BY <1>1, <1>2, <2>3, <3>1
    <3> HIDE DEF l, r
    <3>3. l + 1 =< a
      BY <3>2
    <3> QED
      BY <3>3 DEF l
  <2>5. u * (b * (q + 1)) + u =< a * u
    <3> DEFINE l == b * (q + 1)
    <3>1. l \in Nat /\ l + 1 =< a
      BY <1>1, <2>4
    <3> HIDE DEF l
    <3>2. u * (l + 1) =< u * a
      BY <3>1
    <3>3. u * l + u =< a * u
      BY <3>1, <3>2
    <3> QED
      BY <3>3 DEF l
  <2> DEFINE A == u * (b * (q + 1))
             D == y * b
             F == a * u
  <2>6. A \in Int /\ D \in Int /\ F \in Int
    BY <1>1
  <2>7. D =< A /\ A + u =< F /\ -u < D - F
    BY <2>1, <2>2, <2>5
  <2> HIDE DEF A, D, F
  <2> QED
    BY <2>6, <2>7
<1> QED
  BY <1>1, <1>2, <1>3, <1>4 DEF q, m

\* The contracts of a target before any limit.
WholeContracts(s, c, v) == Decimal(Decimal(Budget * Decimal(s * Unit, c), 1), v) \div Unit

LEMMA SizingNear ==
  ASSUME NEW s \in Nat, NEW c \in Nat \ {0}, NEW v \in Nat \ {0}, s =< c,
         16 * (c * Budget) =< Scale, 4 * (c * (Budget + v)) =< Unit
  PROVE  LET exact == (Budget * s) \div (c * v)
         IN /\ WholeContracts(s, c, v) \in Nat /\ exact \in Nat
            /\ WholeContracts(s, c, v) =< exact /\ exact =< WholeContracts(s, c, v) + 1
<1> DEFINE U == Unit
           P == Scale
           B == Budget
           S == Decimal(s * U, c)
           D == Decimal(B * S, 1)
           y == Decimal(D, v)
           k == c * B
<1>0. U \in Nat \ {0} /\ P \in Nat \ {0} /\ B \in Nat \ {0} /\ U * P \in Nat
  BY ScalePositive, SizingAssumption
<1>1. k \in Nat \ {0} /\ 16 * k =< P /\ B =< k /\ c =< k /\ 4 * (k + c * v) =< U
  BY <1>0
<1>2. c * U =< c * (9 * (U * P)) /\ s * U =< c * U /\ s * U \in Nat /\ c * U \in Nat
  <2>1. U =< 9 * (U * P)
    BY <1>0
  <2> DEFINE z == 9 * (U * P)
  <2>2. z \in Nat /\ U =< z
    BY <1>0, <2>1
  <2> HIDE DEF z, U
  <2>3. c * U =< c * z /\ s * U =< c * U /\ s * U \in Nat /\ c * U \in Nat
    BY <1>0, <2>2
  <2> QED
    BY <2>3 DEF z
<1>3. S \in Nat /\ Near(S, s * U, c)
  <2>1. s * U =< c * (9 * (U * P))
    BY <1>0, <1>2
  <2> QED
    BY <1>2, <2>1, FitsUnits, DecimalNear
<1> HIDE DEF S
<1>4. S =< 2 * U
  <2>1. c =< c * U
    BY <1>0
  <2>2. S * c =< 2 * (c * U)
    BY <1>2, <1>3, <2>1, NearBounded
  <2> HIDE DEF U
  <2> QED
    BY <1>0, <1>3, <2>2
<1>5. B * S \in Nat /\ B * S =< 2 * (B * U) /\ B * U \in Nat \ {0}
  <2> HIDE DEF B, U
  <2> QED
    BY <1>0, <1>3, <1>4
<1>6. B * U =< U * P
  <2>1. B =< P
    BY <1>0, <1>1
  <2> HIDE DEF B, U, P
  <2> QED
    BY <1>0, <2>1
<1>7. D \in Nat /\ Near(D, B * S, 1)
  <2>1. B * S =< 1 * (9 * (U * P))
    <3> DEFINE a == B * S
               b == B * U
               z == U * P
    <3>1. a \in Nat /\ b \in Nat /\ z \in Nat /\ a =< 2 * b /\ b =< z
      BY <1>0, <1>5, <1>6
    <3> HIDE DEF a, b, z
    <3>2. a =< 1 * (9 * z)
      BY <3>1
    <3> QED
      BY <3>2 DEF a, z
  <2> QED
    BY <1>5, <2>1, FitsUnits, DecimalNear
<1> HIDE DEF D
<1>8. D =< 4 * (B * U)
  <2> DEFINE b == B * U
             a == B * S
  <2>1. a \in Nat /\ b \in Nat \ {0} /\ a =< 2 * b /\ Near(D, a, 1)
    BY <1>5, <1>7
  <2> HIDE DEF a, b
  <2>2. 2 * b \in Nat /\ 1 =< 2 * b
    BY <2>1
  <2>3. D * 1 =< 2 * (2 * b)
    BY <1>7, <2>1, <2>2, NearBounded
  <2> QED
    BY <1>7, <2>1, <2>3 DEF b
<1>9. y \in Nat /\ Near(y, D, v)
  <2>1. D =< v * (9 * (U * P))
    <3> DEFINE b == B * U
               z == U * P
    <3>1. b \in Nat /\ z \in Nat /\ D =< 4 * b /\ b =< z
      BY <1>0, <1>5, <1>6, <1>8
    <3> HIDE DEF b, z
    <3>2. D =< 9 * z
      BY <1>7, <3>1
    <3>3. 9 * z =< v * (9 * z)
      BY <3>1
    <3>4. D =< v * (9 * z)
      BY <1>7, <3>1, <3>2, <3>3
    <3> QED
      BY <3>4 DEF z
  <2> QED
    BY <1>7, <2>1, FitsUnits, DecimalNear
<1> HIDE DEF y
<1> DEFINE e1 == B * (S * c - s * U)
           b1 == B * (s * U) + P * (B * c)
           e2 == c * (D * 1 - B * S)
           b2 == c * (B * S) + P * (c * 1)
           e3 == c * (y * v - D)
           b3 == c * D + P * (c * v)
           e == y * (c * v) - (B * s) * U
<1>10. e1 \in Int /\ b1 \in Nat /\ 2 * (P * e1) =< b1 /\ -b1 =< 2 * (P * e1)
  BY <1>0, <1>2, <1>3, ErrorTimes
<1>11. e2 \in Int /\ b2 \in Nat /\ 2 * (P * e2) =< b2 /\ -b2 =< 2 * (P * e2)
  BY <1>5, <1>7, ErrorTimes
<1>12. e3 \in Int /\ b3 \in Nat /\ 2 * (P * e3) =< b3 /\ -b3 =< 2 * (P * e3)
  BY <1>7, <1>9, ErrorTimes
<1>13. e \in Int /\ e = e1 + e2 + e3
  <2> HIDE DEF B, U
  <2>1. /\ e1 = B * (S * c) - B * (s * U)
        /\ e2 = c * D - c * (B * S)
        /\ e3 = c * (y * v) - c * D
    BY <1>0, <1>3, <1>7, <1>9
  <2>2. B * (S * c) = c * (B * S) /\ c * (y * v) = y * (c * v) /\ B * (s * U) = (B * s) * U
    BY <1>0, <1>3, <1>9
  <2>3. /\ c * (B * S) \in Int /\ c * D \in Int /\ y * (c * v) \in Int /\ (B * s) * U \in Int
    BY <1>0, <1>3, <1>7, <1>9
  <2> QED
    BY <2>1, <2>2, <2>3
<1>14. b1 + b2 + b3 < 2 * (P * U)
  <2> DEFINE kU == k * U
             a1 == B * (s * U)
             a2 == c * (B * S)
             a3 == c * D
             PU == P * U
             f == k + c + c * v
  <2>1. a1 \in Nat /\ a1 =< kU /\ kU \in Nat \ {0} /\ PU \in Nat
    <3>1. B * (s * U) =< B * (c * U)
      <4> DEFINE l == s * U
                 r == c * U
      <4>1. l \in Nat /\ r \in Nat /\ l =< r
        BY <1>2
      <4> HIDE DEF l, r
      <4>2. B * l =< B * r
        BY <1>0, <4>1
      <4> QED
        BY <4>2 DEF l, r
    <3>2. B * (c * U) = kU
      BY <1>0
    <3> QED
      BY <1>0, <1>1, <1>2, <3>1, <3>2
  <2>2. a2 \in Nat /\ a2 =< 2 * kU
    <3> DEFINE l == B * S
               r == B * U
    <3>1. l \in Nat /\ r \in Nat /\ l =< 2 * r
      BY <1>5
    <3> HIDE DEF l, r
    <3>2. c * l =< 2 * (c * r) /\ c * l \in Nat
      BY <3>1
    <3>3. c * r = kU
      BY <1>0 DEF r
    <3> QED
      BY <3>2, <3>3 DEF l
  <2>3. a3 \in Nat /\ a3 =< 4 * kU
    <3> DEFINE r == B * U
    <3>1. r \in Nat /\ D =< 4 * r /\ D \in Nat
      BY <1>5, <1>7, <1>8
    <3> HIDE DEF r
    <3>2. c * D =< 4 * (c * r) /\ c * D \in Nat
      BY <3>1
    <3>3. c * r = kU
      BY <1>0 DEF r
    <3> QED
      BY <3>2, <3>3
  <2>4. 16 * kU =< PU
    <3> HIDE DEF k, U, P
    <3>1. (16 * k) * U =< P * U
      BY <1>0, <1>1
    <3>2. (16 * k) * U = 16 * (k * U)
      BY <1>0, <1>1
    <3> QED
      BY <3>1, <3>2
  <2>5. P * (B * c) + P * (c * 1) + P * (c * v) = P * f /\ f \in Nat
    BY <1>0
  <2>6. 2 * f =< U
    <3> DEFINE cv == c * v
    <3>1. cv \in Nat /\ c =< k /\ 4 * (k + cv) =< U
      BY <1>1
    <3> HIDE DEF cv, k, U
    <3>2. 2 * (k + c + cv) =< U
      BY <1>0, <1>1, <3>1
    <3> QED
      BY <3>2 DEF cv
  <2>7. 2 * (P * f) =< PU
    <3> HIDE DEF f, P, U
    <3>1. P * (2 * f) =< P * U
      BY <1>0, <2>5, <2>6
    <3> QED
      BY <1>0, <2>5, <3>1
  <2>8. b1 + b2 + b3 = a1 + a2 + a3 + P * f
    <3> DEFINE g1 == P * (B * c)
               g2 == P * (c * 1)
               g3 == P * (c * v)
    <3>1. g1 \in Nat /\ g2 \in Nat /\ g3 \in Nat /\ b1 = a1 + g1 /\ b2 = a2 + g2 /\ b3 = a3 + g3
      BY <1>0
    <3>2. g1 + g2 + g3 = P * f
      BY <2>5
    <3> HIDE DEF a1, a2, a3, b1, b2, b3, g1, g2, g3, f
    <3> QED
      BY <2>1, <2>2, <2>3, <3>1, <3>2
  <2>9. P * f \in Nat
    BY <1>0, <2>5
  <2> DEFINE Pf == P * f
  <2>10. b1 + b2 + b3 = a1 + a2 + a3 + Pf /\ Pf \in Nat /\ 2 * Pf =< PU
    BY <2>7, <2>8, <2>9
  <2> HIDE DEF a1, a2, a3, b1, b2, b3, Pf, PU, kU
  <2>11. b1 + b2 + b3 < 2 * PU
    BY <2>1, <2>2, <2>3, <2>4, <2>10
  <2> QED
    BY <2>11 DEF PU
<1>15. e < U /\ -U < e
  <2> DEFINE b == b1 + b2 + b3
  <2>1. b \in Nat /\ 2 * (P * e) =< b /\ -b =< 2 * (P * e)
    <3> DEFINE d1 == P * e1
               d2 == P * e2
               d3 == P * e3
    <3>1. d1 \in Int /\ d2 \in Int /\ d3 \in Int
      BY <1>0, <1>10, <1>11, <1>12
    <3>2. P * e = d1 + d2 + d3
      <4> HIDE DEF e, e1, e2, e3, P
      <4> QED
        BY <1>0, <1>10, <1>11, <1>12, <1>13
    <3> HIDE DEF e, e1, e2, e3, b1, b2, b3
    <3>3. /\ 2 * d1 =< b1 /\ -b1 =< 2 * d1 /\ 2 * d2 =< b2 /\ -b2 =< 2 * d2
          /\ 2 * d3 =< b3 /\ -b3 =< 2 * d3 /\ b1 \in Nat /\ b2 \in Nat /\ b3 \in Nat
      BY <1>10, <1>11, <1>12
    <3> HIDE DEF d1, d2, d3
    <3> QED
      BY <3>1, <3>2, <3>3
  <2>2. b < 2 * (P * U)
    BY <1>14
  <2> HIDE DEF b, e, P, U
  <2>3. P * e < P * U /\ P * (-U) < P * e
    <3>1. P * (-U) = -(P * U) /\ P * U \in Int /\ P * e \in Int
      BY <1>0, <1>13
    <3> QED
      BY <2>1, <2>2, <3>1
  <2> QED
    BY <1>0, <1>13, <2>3
<1>16. c * v \in Nat \ {0} /\ B * s \in Nat
  BY <1>0
<1> DEFINE r == c * v
           t == B * s
<1>17. /\ y \div U \in Nat /\ t \div r \in Nat
       /\ y \div U =< t \div r /\ t \div r =< (y \div U) + 1
  <2>1. y * r - t * U < U /\ -U < y * r - t * U
    BY <1>15
  <2>2. r \in Nat \ {0} /\ t \in Nat
    BY <1>16
  <2> HIDE DEF r, t, U
  <2> QED
    BY <1>0, <1>9, <2>1, <2>2, FloorNear
<1>18. WholeContracts(s, c, v) = y \div U
  BY DEF WholeContracts, y, D, S
<1> HIDE DEF y
<1> QED
  BY <1>17, <1>18

\* A target after the cap.
ScaledTarget(t, g) == Decimal(t * Decimal(MaxGross * Unit, g), 1) \div Unit

LEMMA CapNear ==
  ASSUME NEW t \in Nat \ {0}, NEW g \in Nat \ {0}, MaxGross < g,
         4 * (t * MaxGross) =< Scale, 4 * (t * g) =< Unit
  PROVE  LET exact == (t * MaxGross) \div g
         IN /\ ScaledTarget(t, g) \in Nat /\ exact \in Nat
            /\ ScaledTarget(t, g) =< exact /\ exact =< ScaledTarget(t, g) + 1
<1> DEFINE U == Unit
           P == Scale
           M == MaxGross
           S == Decimal(M * U, g)
           y == Decimal(t * S, 1)
           h == t * g
           k == t * M
<1>0. U \in Nat \ {0} /\ P \in Nat \ {0} /\ M \in Nat \ {0} /\ U * P \in Nat
  BY ScalePositive, SizingAssumption
<1>1. /\ k \in Nat \ {0} /\ h \in Nat \ {0} /\ 4 * k =< P /\ 4 * h =< U /\ g =< h
      /\ t =< k
  BY <1>0
<1>2. M * U \in Nat /\ M * U =< g * U /\ g =< M * U /\ g * U \in Nat
  <2>1. g =< U
    <3> HIDE DEF h, U
    <3> QED
      BY <1>0, <1>1
  <2> HIDE DEF U, M
  <2>2. M =< g
    BY <1>0 DEF M
  <2>3. M * U \in Nat /\ M * U =< g * U /\ U =< M * U /\ g * U \in Nat
    BY <1>0, <2>2
  <2> QED
    BY <1>0, <2>1, <2>3
<1>3. S \in Nat /\ Near(S, M * U, g)
  <2>1. M * U =< g * (9 * (U * P))
    <3>1. U =< 9 * (U * P)
      BY <1>0
    <3> DEFINE z == 9 * (U * P)
    <3>2. z \in Nat /\ U =< z
      BY <1>0, <3>1
    <3> HIDE DEF z, U, M
    <3>3. g * U =< g * z
      BY <1>0, <3>2
    <3>4. M * U =< g * z
      BY <1>2, <3>2, <3>3
    <3> QED
      BY <3>4 DEF z
  <2> QED
    BY <1>2, <2>1, FitsUnits, DecimalNear
<1> HIDE DEF S
<1>4. S * g =< 2 * (M * U) /\ S * g \in Nat
  <2> DEFINE l == M * U
  <2>1. l \in Nat /\ g =< l /\ Near(S, l, g)
    BY <1>2, <1>3
  <2> HIDE DEF l
  <2>2. S * g =< 2 * l /\ S * g \in Nat
    BY <1>3, <2>1, NearBounded
  <2> QED
    BY <2>2 DEF l
<1>5. S =< 2 * U
  <2>1. S * g =< 2 * (g * U)
    BY <1>2, <1>4
  <2> HIDE DEF U
  <2> QED
    BY <1>0, <1>3, <2>1
<1>6. t * S \in Nat
  BY <1>3
<1>7. y \in Nat /\ Near(y, t * S, 1)
  <2>1. t * S =< 1 * (9 * (U * P))
    <3>1. t =< P
      <4> HIDE DEF k, P
      <4> QED
        BY <1>0, <1>1
    <3> HIDE DEF U, P
    <3>2. t * S =< P * (2 * U)
      <4>1. t * S =< P * S
        BY <1>0, <1>3, <3>1
      <4>2. P * S =< P * (2 * U)
        BY <1>0, <1>3, <1>5
      <4>3. t * S \in Nat /\ P * S \in Nat /\ P * (2 * U) \in Nat
        BY <1>0, <1>3
      <4> QED
        BY <4>1, <4>2, <4>3
    <3>3. P * (2 * U) =< 1 * (9 * (U * P)) /\ P * (2 * U) \in Nat
      BY <1>0
    <3> DEFINE z == 1 * (9 * (U * P))
               l == P * (2 * U)
               w == t * S
    <3>4. z \in Nat /\ l \in Nat /\ w \in Nat /\ w =< l /\ l =< z
      BY <1>0, <1>6, <3>2, <3>3
    <3> HIDE DEF z, l, w
    <3>5. w =< z
      BY <3>4
    <3> QED
      BY <3>5 DEF z, w
  <2> QED
    BY <1>6, <2>1, FitsUnits, DecimalNear
<1> HIDE DEF y
<1> DEFINE e1 == t * (S * g - M * U)
           b1 == t * (M * U) + P * (t * g)
           e2 == g * (y * 1 - t * S)
           b2 == g * (t * S) + P * (g * 1)
           e == y * g - (t * M) * U
<1>8. e1 \in Int /\ b1 \in Nat /\ 2 * (P * e1) =< b1 /\ -b1 =< 2 * (P * e1)
  BY <1>2, <1>3, ErrorTimes
<1>9. e2 \in Int /\ b2 \in Nat /\ 2 * (P * e2) =< b2 /\ -b2 =< 2 * (P * e2)
  BY <1>6, <1>7, ErrorTimes
<1>10. e \in Int /\ e = e1 + e2
  <2> HIDE DEF M, U
  <2>1. e1 = t * (S * g) - t * (M * U) /\ e2 = g * y - g * (t * S)
    BY <1>0, <1>3, <1>7
  <2>2. g * (t * S) = t * (S * g) /\ g * y = y * g /\ t * (M * U) = (t * M) * U
    BY <1>0, <1>3, <1>7
  <2>3. t * (S * g) \in Int /\ y * g \in Int /\ (t * M) * U \in Int
    BY <1>0, <1>3, <1>7
  <2> QED
    BY <2>1, <2>2, <2>3
<1>11. b1 + b2 < 2 * (P * U)
  <2> DEFINE kU == k * U
             a1 == t * (M * U)
             a2 == g * (t * S)
             PU == P * U
             f == h + g
  <2>1. a1 = kU /\ kU \in Nat \ {0} /\ PU \in Nat
    BY <1>0, <1>1
  <2>2. a2 \in Nat /\ a2 =< 2 * kU
    <3>1. g * (t * S) = t * (S * g)
      BY <1>3
    <3> DEFINE l == S * g
               r == M * U
    <3>2. l \in Nat /\ r \in Nat /\ l =< 2 * r
      BY <1>2, <1>4
    <3> HIDE DEF l, r
    <3>3. t * l =< 2 * (t * r) /\ t * l \in Nat
      BY <3>2
    <3>4. t * r = kU
      BY <1>0 DEF r
    <3> QED
      BY <3>1, <3>3, <3>4 DEF l
  <2>3. 4 * kU =< PU
    <3> HIDE DEF k, U, P
    <3>1. (4 * k) * U =< P * U
      BY <1>0, <1>1
    <3>2. (4 * k) * U = 4 * (k * U)
      BY <1>0, <1>1
    <3> QED
      BY <3>1, <3>2
  <2>4. P * (t * g) + P * (g * 1) = P * f /\ f \in Nat /\ P * f \in Nat
    BY <1>0, <1>1
  <2>5. 2 * f =< U
    <3> HIDE DEF h, U
    <3> QED
      BY <1>0, <1>1
  <2>6. 2 * (P * f) =< PU
    <3> HIDE DEF f, P, U
    <3>1. P * (2 * f) =< P * U
      BY <1>0, <2>4, <2>5
    <3> QED
      BY <1>0, <2>4, <3>1
  <2> DEFINE Pf == P * f
  <2>7. b1 + b2 = a1 + a2 + Pf /\ Pf \in Nat /\ 2 * Pf =< PU
    <3> DEFINE g1 == P * (t * g)
               g2 == P * (g * 1)
    <3>1. g1 \in Nat /\ g2 \in Nat /\ b1 = a1 + g1 /\ b2 = a2 + g2
      BY <1>0
    <3>2. g1 + g2 = Pf /\ Pf \in Nat /\ 2 * Pf =< PU
      BY <2>4, <2>6
    <3> HIDE DEF a1, a2, b1, b2, g1, g2, Pf, PU, kU
    <3> QED
      BY <2>1, <2>2, <3>1, <3>2
  <2> HIDE DEF a1, a2, b1, b2, Pf, PU, kU
  <2>8. b1 + b2 < 2 * PU
    BY <2>1, <2>2, <2>3, <2>7
  <2> QED
    BY <2>8 DEF PU
<1>12. e < U /\ -U < e
  <2> DEFINE b == b1 + b2
  <2>1. b \in Nat /\ 2 * (P * e) =< b /\ -b =< 2 * (P * e)
    <3> DEFINE d1 == P * e1
               d2 == P * e2
    <3>1. d1 \in Int /\ d2 \in Int
      BY <1>0, <1>8, <1>9
    <3>2. P * e = d1 + d2
      <4> HIDE DEF e, e1, e2, P
      <4> QED
        BY <1>0, <1>8, <1>9, <1>10
    <3> HIDE DEF e, e1, e2, b1, b2
    <3>3. /\ 2 * d1 =< b1 /\ -b1 =< 2 * d1 /\ 2 * d2 =< b2 /\ -b2 =< 2 * d2
          /\ b1 \in Nat /\ b2 \in Nat
      BY <1>8, <1>9
    <3> HIDE DEF d1, d2
    <3> QED
      BY <3>1, <3>2, <3>3
  <2>2. b < 2 * (P * U)
    BY <1>11
  <2> HIDE DEF b, e, P, U
  <2>3. P * e < P * U /\ P * (-U) < P * e
    <3>1. P * (-U) = -(P * U) /\ P * U \in Int /\ P * e \in Int
      BY <1>0, <1>10
    <3> QED
      BY <2>1, <2>2, <3>1
  <2> QED
    BY <1>0, <1>10, <2>3
<1>13. /\ y \div U \in Nat /\ k \div g \in Nat
       /\ y \div U =< k \div g /\ k \div g =< (y \div U) + 1
  <2>1. y * g - k * U < U /\ -U < y * g - k * U
    BY <1>12
  <2>2. k \in Nat
    BY <1>1
  <2> HIDE DEF k, U
  <2> QED
    BY <1>0, <1>7, <2>1, <2>2, FloorNear
<1>14. ScaledTarget(t, g) = y \div U
  BY DEF ScaledTarget, y, S
<1> HIDE DEF y
<1> QED
  BY <1>13, <1>14

-----------------------------------------------------------------------------
(* Sums.                                                                    *)

\* g gives the sum of the weights of every part of S.
SumsOf(g, weight, S) ==
  /\ g \in [SUBSET S -> Int]
  /\ g[{}] = 0
  /\ \A T \in SUBSET S : \A x \in T : g[T] = weight[x] + g[T \ {x}]

\* Every part of a finite set is reached by adding elements one by one.
LEMMA SubsetsGrow ==
  ASSUME NEW S, IsFiniteSet(S), NEW Good, {} \in Good,
         \A T \in SUBSET S : T # {} /\ (\A x \in T : T \ {x} \in Good) => T \in Good
  PROVE  \A T \in SUBSET S : T \in Good
<1> DEFINE Sized(n) == {T \in SUBSET S : Cardinality(T) = n}
           Fine == {n \in Nat : \A T \in Sized(n) : T \in Good}
<1>0. \A T \in SUBSET S : IsFiniteSet(T) /\ Cardinality(T) \in Nat
  BY FS_Subset, FS_CardinalityType
<1>1. 0 \in Fine
  <2> SUFFICES ASSUME NEW T \in Sized(0) PROVE T \in Good
    OBVIOUS
  <2>1. T = {}
    BY <1>0, FS_EmptySet
  <2> QED
    BY <2>1
<1>2. ASSUME NEW n \in Nat, n \in Fine PROVE n + 1 \in Fine
  <2> SUFFICES ASSUME NEW T \in Sized(n + 1) PROVE T \in Good
    OBVIOUS
  <2>1. T # {} /\ IsFiniteSet(T) /\ Cardinality(T) = n + 1 /\ T \in SUBSET S
    BY <1>0, FS_EmptySet
  <2>2. ASSUME NEW x \in T PROVE T \ {x} \in Good
    <3>1. Cardinality(T \ {x}) = n
      BY <2>1, OneLess
    <3> QED
      BY <1>2, <3>1
  <2> QED
    BY <2>1, <2>2
<1>3. \A n \in Nat : n \in Fine
  <2> HIDE DEF Fine
  <2> QED
    BY <1>1, <1>2, NatSet
<1>4. ASSUME NEW T \in SUBSET S PROVE T \in Good
  <2>1. PICK n \in Nat : Cardinality(T) = n
    BY <1>0
  <2>2. T \in Sized(n)
    BY <2>1
  <2> QED
    BY <1>3, <2>2
<1> QED
  BY <1>4

LEMMA SumsExtend ==
  ASSUME NEW S, NEW x, x \notin S, NEW weight, \A y \in S \cup {x} : weight[y] \in Int,
         NEW g, SumsOf(g, weight, S)
  PROVE  \E h : SumsOf(h, weight, S \cup {x})
<1> DEFINE U == S \cup {x}
           h == [T \in SUBSET U |-> IF x \in T THEN weight[x] + g[T \ {x}] ELSE g[T]]
<1>1. \A T \in SUBSET U : T \ {x} \in SUBSET S /\ (x \notin T => T \in SUBSET S)
  OBVIOUS
<1>2. h \in [SUBSET U -> Int]
  BY <1>1 DEF SumsOf
<1>3. h[{}] = 0
  BY DEF SumsOf
<1>4. ASSUME NEW T \in SUBSET U, NEW y \in T PROVE h[T] = weight[y] + h[T \ {y}]
  <2>1. T \ {y} \in SUBSET U
    OBVIOUS
  <2>2. CASE y = x
    <3>1. h[T] = weight[x] + g[T \ {x}] /\ h[T \ {x}] = g[T \ {x}]
      BY <2>1, <2>2
    <3> QED
      BY <2>2, <3>1
  <2>3. CASE y # x /\ x \notin T
    <3>1. h[T] = g[T] /\ h[T \ {y}] = g[T \ {y}] /\ T \in SUBSET S
      BY <2>1, <2>3
    <3> QED
      BY <3>1 DEF SumsOf
  <2>4. CASE y # x /\ x \in T
    <3>1. T \ {x} \in SUBSET S /\ y \in T \ {x} /\ (T \ {x}) \ {y} \in SUBSET S
      BY <2>4
    <3>2. g[T \ {x}] = weight[y] + g[(T \ {x}) \ {y}]
      BY <3>1 DEF SumsOf
    <3>3. h[T] = weight[x] + g[T \ {x}] /\ h[T \ {y}] = weight[x] + g[(T \ {y}) \ {x}]
      BY <2>1, <2>4
    <3>4. (T \ {y}) \ {x} = (T \ {x}) \ {y}
      OBVIOUS
    <3>5. g[(T \ {x}) \ {y}] \in Int
      BY <3>1 DEF SumsOf
    <3>6. weight[x] \in Int /\ weight[y] \in Int
      BY <3>1
    <3> DEFINE a == g[(T \ {x}) \ {y}]
    <3>7. h[T] = weight[x] + (weight[y] + a) /\ h[T \ {y}] = weight[x] + a
      BY <3>2, <3>3, <3>4
    <3>8. a \in Int
      BY <3>5
    <3> HIDE DEF h, a
    <3> QED
      BY <3>6, <3>7, <3>8
  <2> QED
    BY <2>2, <2>3, <2>4
<1> HIDE DEF h
<1> QED
  BY <1>2, <1>3, <1>4 DEF SumsOf

LEMMA SumsExist ==
  ASSUME NEW S, IsFiniteSet(S), NEW weight, \A x \in S : weight[x] \in Int
  PROVE  \E g : SumsOf(g, weight, S)
<1> DEFINE Good == {T \in SUBSET S : \E g : SumsOf(g, weight, T)}
<1>1. {} \in Good
  <2> DEFINE g == [U \in SUBSET {} |-> 0]
  <2>1. SumsOf(g, weight, {})
    BY DEF SumsOf
  <2> QED
    BY <2>1
<1>2. ASSUME NEW T \in SUBSET S, T # {}, \A x \in T : T \ {x} \in Good PROVE T \in Good
  <2>0. PICK x : x \in T
    BY <1>2
  <2>1. PICK g : SumsOf(g, weight, T \ {x})
    BY <1>2, <2>0
  <2>2. \E h : SumsOf(h, weight, (T \ {x}) \cup {x})
    BY <2>0, <2>1, SumsExtend
  <2>3. (T \ {x}) \cup {x} = T
    BY <2>0
  <2> QED
    BY <2>2, <2>3
<1>3. S \in Good
  <2> HIDE DEF Good
  <2>1. \A T \in SUBSET S : T # {} /\ (\A x \in T : T \ {x} \in Good) => T \in Good
    BY <1>2
  <2>2. \A T \in SUBSET S : T \in Good
    BY <1>1, <2>1, SubsetsGrow
  <2> QED
    BY <2>2
<1> QED
  BY <1>3

LEMMA SumIs ==
  ASSUME NEW weight, NEW S, DOMAIN weight = S, IsFiniteSet(S), NEW g, SumsOf(g, weight, S)
  PROVE  SumFunction(weight) = g[S]
<1> DEFINE Eq(h) == h = [s \in SUBSET S |->
                           IF s = {} THEN 0
                           ELSE weight[CHOOSE x \in s : TRUE] + h[s \ {CHOOSE x \in s : TRUE}]]
<1>1. Eq(g)
  <2>1. g \in [SUBSET S -> Int]
    BY DEF SumsOf
  <2>2. ASSUME NEW s \in SUBSET S
        PROVE  g[s] = IF s = {} THEN 0
                      ELSE weight[CHOOSE x \in s : TRUE] + g[s \ {CHOOSE x \in s : TRUE}]
    <3>1. CASE s = {}
      BY <3>1 DEF SumsOf
    <3>2. CASE s # {}
      <4>1. (CHOOSE x \in s : TRUE) \in s
        BY <3>2
      <4> QED
        BY <3>2, <4>1 DEF SumsOf
    <3> QED
      BY <3>1, <3>2
  <2> QED
    BY <2>1, <2>2
<1>2. SumFunction(weight) = (CHOOSE h : Eq(h))[S]
  BY DEF SumFunction, SumFunctionOnSet, FoldFunctionOnSet, MapThenFoldSet
<1>3. PICK h : h = (CHOOSE k : Eq(k)) /\ Eq(h)
  <2> HIDE DEF Eq
  <2> QED
    BY <1>1, Zenon
<1> DEFINE Good == {s \in SUBSET S : h[s] = g[s]}
<1>4. {} \in Good
  BY <1>3 DEF SumsOf
<1>5. ASSUME NEW s \in SUBSET S, s # {}, \A x \in s : s \ {x} \in Good PROVE s \in Good
  <2>1. PICK x : x = (CHOOSE y \in s : TRUE) /\ x \in s
    BY <1>5
  <2>2. h[s] = weight[x] + h[s \ {x}]
    BY <1>3, <1>5, <2>1
  <2>3. g[s] = weight[x] + g[s \ {x}]
    BY <2>1 DEF SumsOf
  <2>4. h[s \ {x}] = g[s \ {x}]
    BY <1>5, <2>1
  <2> QED
    BY <2>2, <2>3, <2>4
<1>6. S \in Good
  <2> HIDE DEF Good
  <2>1. \A T \in SUBSET S : T # {} /\ (\A x \in T : T \ {x} \in Good) => T \in Good
    BY <1>5
  <2>2. \A T \in SUBSET S : T \in Good
    BY <1>4, <2>1, SubsetsGrow
  <2> QED
    BY <2>2
<1>7. h[S] = g[S]
  BY <1>6
<1> HIDE DEF Eq
<1> QED
  BY <1>2, <1>3, <1>7

\* The sum of the weights, with the sums of the parts.
LEMMA SumParts ==
  ASSUME NEW S, IsFiniteSet(S), NEW weight \in [S -> Int]
  PROVE  \E g : SumsOf(g, weight, S) /\ SumFunction(weight) = g[S]
<1>1. PICK g : SumsOf(g, weight, S)
  BY SumsExist
<1> QED
  BY <1>1, SumIs

\* Weights that are in order have sums that are.
LEMMA SumsOrdered ==
  ASSUME NEW S, IsFiniteSet(S), NEW f \in [S -> Int], NEW h \in [S -> Int],
         NEW a \in Int, NEW b \in Int, \A x \in S : a * f[x] =< b * h[x]
  PROVE  /\ SumFunction(f) \in Int /\ SumFunction(h) \in Int
         /\ a * SumFunction(f) =< b * SumFunction(h)
<1>1. PICK F : SumsOf(F, f, S) /\ SumFunction(f) = F[S]
  BY SumParts
<1>2. PICK H : SumsOf(H, h, S) /\ SumFunction(h) = H[S]
  BY SumParts
<1> DEFINE Good == {T \in SUBSET S : a * F[T] =< b * H[T]}
<1>3. {} \in Good
  BY <1>1, <1>2 DEF SumsOf
<1>4. ASSUME NEW T \in SUBSET S, T # {}, \A x \in T : T \ {x} \in Good PROVE T \in Good
  <2>1. PICK x : x \in T
    BY <1>4
  <2>2. T \ {x} \in SUBSET S /\ x \in S
    BY <2>1
  <2> DEFINE p == F[T \ {x}]
             q == H[T \ {x}]
             i == f[x]
             j == h[x]
  <2>3. p \in Int /\ q \in Int /\ i \in Int /\ j \in Int
    BY <1>1, <1>2, <2>2 DEF SumsOf
  <2>4. F[T] = i + p /\ H[T] = j + q
    BY <1>1, <1>2, <2>1 DEF SumsOf
  <2>5. a * p =< b * q /\ a * i =< b * j
    BY <1>4, <2>1, <2>2
  <2> HIDE DEF p, q, i, j
  <2>6. a * (i + p) = a * i + a * p /\ b * (j + q) = b * j + b * q
    BY <2>3
  <2>7. a * (i + p) =< b * (j + q)
    BY <2>3, <2>5, <2>6
  <2> QED
    BY <2>4, <2>7
<1>5. S \in Good
  <2> HIDE DEF Good
  <2>1. \A T \in SUBSET S : T # {} /\ (\A x \in T : T \ {x} \in Good) => T \in Good
    BY <1>4
  <2>2. \A T \in SUBSET S : T \in Good
    BY <1>3, <2>1, SubsetsGrow
  <2> QED
    BY <2>2
<1>6. F[S] \in Int /\ H[S] \in Int
  BY <1>1, <1>2 DEF SumsOf
<1> QED
  BY <1>1, <1>2, <1>5, <1>6

\* A sum is at most what a bound on the weights makes of their number.
LEMMA SumBounded ==
  ASSUME NEW S, IsFiniteSet(S), NEW f \in [S -> Int], NEW a \in Int, NEW b \in Int,
         \A x \in S : a =< f[x] /\ f[x] =< b
  PROVE  /\ SumFunction(f) \in Int /\ Cardinality(S) \in Nat
         /\ a * Cardinality(S) =< SumFunction(f) /\ SumFunction(f) =< b * Cardinality(S)
<1>1. PICK F : SumsOf(F, f, S) /\ SumFunction(f) = F[S]
  BY SumParts
<1>0. \A T \in SUBSET S : IsFiniteSet(T) /\ Cardinality(T) \in Nat
  BY FS_Subset, FS_CardinalityType
<1> DEFINE Good == {T \in SUBSET S : a * Cardinality(T) =< F[T] /\ F[T] =< b * Cardinality(T)}
<1>2. {} \in Good
  BY <1>1, FS_EmptySet DEF SumsOf
<1>3. ASSUME NEW T \in SUBSET S, T # {}, \A x \in T : T \ {x} \in Good PROVE T \in Good
  <2>1. PICK x : x \in T
    BY <1>3
  <2>2. T \ {x} \in SUBSET S /\ x \in S
    BY <2>1
  <2> DEFINE p == F[T \ {x}]
             i == f[x]
             n == Cardinality(T \ {x})
             m == Cardinality(T)
  <2>3. p \in Int /\ i \in Int /\ n \in Nat /\ m \in Nat
    BY <1>0, <1>1, <2>2 DEF SumsOf
  <2>4. m = n + 1
    <3>1. n = m - 1
      BY <1>0, <2>1, FS_RemoveElement
    <3> HIDE DEF m, n
    <3> QED
      BY <2>3, <3>1
  <2>5. F[T] = i + p
    BY <1>1, <2>1 DEF SumsOf
  <2>6. a * n =< p /\ p =< b * n /\ a =< i /\ i =< b
    BY <1>3, <2>1, <2>2
  <2> HIDE DEF p, i, n, m
  <2>7. a * (n + 1) = a * n + a /\ b * (n + 1) = b * n + b /\ a * n \in Int /\ b * n \in Int
    BY <2>3
  <2>8. a * m =< i + p /\ i + p =< b * m
    BY <2>3, <2>4, <2>6, <2>7
  <2> QED
    BY <2>5, <2>8 DEF m
<1>4. S \in Good
  <2> HIDE DEF Good
  <2>1. \A T \in SUBSET S : T # {} /\ (\A x \in T : T \ {x} \in Good) => T \in Good
    BY <1>3
  <2>2. \A T \in SUBSET S : T \in Good
    BY <1>2, <2>1, SubsetsGrow
  <2> QED
    BY <2>2
<1>5. F[S] \in Int
  BY <1>1 DEF SumsOf
<1> QED
  BY <1>0, <1>1, <1>4, <1>5

\* Only weights that are not zero count.
LEMMA SumSupport ==
  ASSUME NEW S, IsFiniteSet(S), NEW f \in [S -> Int], NEW R \in SUBSET S,
         \A x \in S \ R : f[x] = 0
  PROVE  SumFunction([x \in R |-> f[x]]) = SumFunction(f)
<1> DEFINE h == [x \in R |-> f[x]]
<1>1. PICK F : SumsOf(F, f, S) /\ SumFunction(f) = F[S]
  BY SumParts
<1> DEFINE H == [T \in SUBSET R |-> F[T]]
<1>2. SumsOf(H, h, R)
  <2>1. \A T \in SUBSET R : T \in SUBSET S /\ H[T] = F[T] /\ \A y \in T : T \ {y} \in SUBSET R
    OBVIOUS
  <2>2. H \in [SUBSET R -> Int] /\ {} \in SUBSET R /\ \A x \in R : h[x] = f[x]
    BY <1>1, <2>1 DEF SumsOf
  <2> HIDE DEF h, H
  <2> QED
    BY <1>1, <2>1, <2>2 DEF SumsOf
<1>3. SumFunction(h) = F[R]
  <2>1. IsFiniteSet(R) /\ DOMAIN h = R
    BY FS_Subset
  <2>2. SumFunction(h) = H[R]
    <3> HIDE DEF h, H
    <3> QED
      BY <1>2, <2>1, SumIs
  <2> QED
    BY <2>2
<1> DEFINE Good == {T \in SUBSET S : F[T] = F[T \cap R]}
<1>4. {} \in Good
  <2>1. {} \cap R = {}
    OBVIOUS
  <2> QED
    BY <2>1
<1>5. ASSUME NEW T \in SUBSET S, T # {}, \A x \in T : T \ {x} \in Good PROVE T \in Good
  <2>1. PICK x : x \in T
    BY <1>5
  <2>2. F[T \ {x}] = F[(T \ {x}) \cap R] /\ F[T] = f[x] + F[T \ {x}]
    BY <1>1, <1>5, <2>1 DEF SumsOf
  <2>3. CASE x \in R
    <3>1. x \in T \cap R /\ T \cap R \in SUBSET S /\ (T \cap R) \ {x} = (T \ {x}) \cap R
      BY <2>1, <2>3
    <3>2. F[T \cap R] = f[x] + F[(T \ {x}) \cap R]
      <4>1. PICK W \in SUBSET S : W = T \cap R
        BY <3>1
      <4>2. F[W] = f[x] + F[W \ {x}]
        BY <1>1, <3>1, <4>1 DEF SumsOf
      <4> QED
        BY <3>1, <4>1, <4>2
    <3> QED
      BY <2>2, <3>2
  <2>4. CASE x \notin R
    <3>1. f[x] = 0 /\ T \cap R = (T \ {x}) \cap R /\ (T \ {x}) \cap R \in SUBSET S
      BY <2>1, <2>4
    <3>2. F[(T \ {x}) \cap R] \in Int
      BY <1>1, <3>1 DEF SumsOf
    <3>3. F[T] = 0 + F[T \cap R] /\ F[T \cap R] \in Int
      BY <2>2, <3>1, <3>2
    <3> QED
      BY <3>3
  <2> QED
    BY <2>3, <2>4
<1>6. S \in Good
  <2> HIDE DEF Good
  <2>1. \A T \in SUBSET S : T # {} /\ (\A x \in T : T \ {x} \in Good) => T \in Good
    BY <1>5
  <2>2. \A T \in SUBSET S : T \in Good
    BY <1>4, <2>1, SubsetsGrow
  <2> QED
    BY <2>2
<1>7. S \cap R = R
  OBVIOUS
<1> QED
  BY <1>1, <1>3, <1>6, <1>7

-----------------------------------------------------------------------------
(* Targets.                                                                 *)

LEMMA MinMaxOfTwo ==
  ASSUME NEW a \in Int, NEW b \in Int
  PROVE  /\ Min({a, b}) = IF a =< b THEN a ELSE b
         /\ Max({a, b}) = IF a >= b THEN a ELSE b
<1>1. PICK m : m = (IF a =< b THEN a ELSE b)
  OBVIOUS
<1>2. m \in {a, b} /\ \A y \in {a, b} : m =< y
  BY <1>1
<1>3. \A x \in {a, b} : (\A y \in {a, b} : x =< y) => x = m
  BY <1>1, <1>2
<1>4. Min({a, b}) = m
  BY <1>2, <1>3 DEF Min
<1>5. PICK n : n = (IF a >= b THEN a ELSE b)
  OBVIOUS
<1>6. n \in {a, b} /\ \A y \in {a, b} : n >= y
  BY <1>5
<1>7. \A x \in {a, b} : (\A y \in {a, b} : x >= y) => x = n
  BY <1>5, <1>6
<1>8. Max({a, b}) = n
  BY <1>6, <1>7 DEF Max
<1> QED
  BY <1>1, <1>4, <1>5, <1>8

LEMMA NearlyAllIs ==
  ASSUME NEW n \in Nat, NEW m \in Nat, m =< n, n =< m + 1
  PROVE  m \in NearlyAll(n)
<1>1. Max({n - 1, 0}) = IF n - 1 >= 0 THEN n - 1 ELSE 0
  <2>1. PICK k \in Int, l \in Int : k = n - 1 /\ l = 0
    OBVIOUS
  <2>2. Max({k, l}) = IF k >= l THEN k ELSE l
    BY MinMaxOfTwo
  <2> QED
    BY <2>1, <2>2
<1> QED
  BY <1>1 DEF NearlyAll

LEMMA SignedIs ==
  ASSUME NEW x \in Int, NEW n \in Nat
  PROVE  /\ Signed(x, n) \in Int /\ Magnitude(Signed(x, n)) = n
         /\ Signed(x, n) # 0 <=> n # 0
         /\ x # 0 /\ n # 0 => Sign(Signed(x, n)) = Sign(x)
BY DEF Signed, Magnitude, Sign

\* A score is a sum of as many directions as it counts.
ScoreFits(score) ==
  /\ score.sum \in Int /\ score.count \in Nat /\ score.count =< Cardinality(Lookbacks)
  /\ Magnitude(score.sum) =< score.count

LEMMA ScoresFit ==
  ASSUME NEW s, NEW score, score = TrendScore(s, Lookbacks)
  PROVE  ScoreFits(score)
<1> DEFINE A == Active(s, Lookbacks)
           f == [k \in A |-> Sign(s[Len(s)].close - s[Len(s) - k].close)]
<1>1. IsFiniteSet(A) /\ Cardinality(A) \in Nat /\ Cardinality(A) =< Cardinality(Lookbacks)
  <2>1. A \in SUBSET Lookbacks /\ IsFiniteSet(Lookbacks)
    BY InputsAssumption DEF Active
  <2> QED
    BY <2>1, FS_Subset, FS_CardinalityType
<1>2. f \in [A -> Int] /\ \A k \in A : -1 =< f[k] /\ f[k] =< 1
  BY DEF Sign
<1>3. score.sum = SumFunction(f) /\ score.count = Cardinality(A)
  BY DEF TrendScore
<1> HIDE DEF f, A
<1>4. /\ SumFunction(f) \in Int /\ (-1) * Cardinality(A) =< SumFunction(f)
      /\ SumFunction(f) =< 1 * Cardinality(A)
  BY <1>1, <1>2, SumBounded
<1> QED
  BY <1>1, <1>3, <1>4 DEF ScoreFits, Magnitude

\* The digits are enough for n instruments and the volatility v.
DigitsSuffice(n) ==
  /\ 16 * (Cardinality(Lookbacks) * Budget) =< Scale
  /\ 4 * (MaxContracts * MaxGross) =< Scale
  /\ 4 * (MaxContracts * (Budget * n)) =< Unit

UnitSuffices(v) == 4 * (Cardinality(Lookbacks) * (Budget + v)) =< Unit

LEMMA SizedFits ==
  ASSUME NEW score, ScoreFits(score), score.sum # 0, NEW v \in Nat \ {0},
         NEW n, DigitsSuffice(n), UnitSuffices(v)
  PROVE  LET target == SizedTarget(score, v)
             exact == (Budget * Magnitude(score.sum)) \div (score.count * v)
         IN /\ target \in Int
            /\ Magnitude(target) =< MaxContracts
            /\ Magnitude(target) * v =< Budget
            /\ Magnitude(target) \in NearlyAll(Min({MaxContracts, exact}))
            /\ target # 0 => Sign(target) = Sign(score.sum)
<1> DEFINE s == Magnitude(score.sum)
           c == score.count
           B == Budget
           N == Cardinality(Lookbacks)
           w == WholeContracts(s, c, v)
           exact == (B * s) \div (c * v)
           m == Min({w, MaxContracts})
<1>0. B \in Nat \ {0} /\ MaxContracts \in Nat \ {0} /\ N \in Nat
  BY SizingAssumption, InputsAssumption, FS_CardinalityType
<1>1. s \in Nat \ {0} /\ c \in Nat \ {0} /\ s =< c /\ c =< N
  BY DEF ScoreFits, Magnitude
<1>2. 16 * (c * B) =< Scale /\ 4 * (c * (B + v)) =< Unit
  <2>1. 16 * (N * B) =< Scale /\ 4 * (N * (B + v)) =< Unit
    BY DEF DigitsSuffice, UnitSuffices
  <2> HIDE DEF s, c, B, N
  <2>2. c * B =< N * B /\ c * (B + v) =< N * (B + v)
    <3>1. B \in Nat /\ B + v \in Nat
      BY <1>0
    <3> DEFINE d == B + v
    <3>2. d \in Nat
      BY <3>1
    <3> HIDE DEF d
    <3>3. c * B =< N * B /\ c * d =< N * d
      BY <1>0, <1>1, <3>1, <3>2
    <3> QED
      BY <3>3 DEF d
  <2>3. c * B \in Nat /\ N * B \in Nat /\ c * (B + v) \in Nat /\ N * (B + v) \in Nat
    BY <1>0, <1>1
  <2> QED
    BY <2>1, <2>2, <2>3, ScalePositive
<1>3. w \in Nat /\ exact \in Nat /\ w =< exact /\ exact =< w + 1
  <2> HIDE DEF s, c
  <2> QED
    BY <1>1, <1>2, SizingNear
<1>4. m = IF w =< MaxContracts THEN w ELSE MaxContracts
  <2> HIDE DEF w
  <2> QED
    BY <1>0, <1>3, MinMaxOfTwo
<1>5. m \in Nat /\ m =< MaxContracts /\ m =< w
  <2> HIDE DEF w, m
  <2> QED
    BY <1>0, <1>3, <1>4
<1>6. m * v =< B
  <2> HIDE DEF s, c, B, w, m
  <2>1. B * s \in Nat /\ c * v \in Nat \ {0} /\ B * s =< B * c
    BY <1>0, <1>1
  <2> DEFINE t == B * s
             r == c * v
  <2>2. (t \div r) * r =< t /\ t \in Nat /\ r \in Nat \ {0}
    <3>1. t \in Nat /\ r \in Nat \ {0}
      BY <2>1
    <3> HIDE DEF t, r
    <3> QED
      BY <3>1
  <2>3. exact * r =< t
    BY <2>2
  <2> HIDE DEF exact
  <2>4. m * r =< exact * r
    <3>1. m =< exact
      BY <1>3, <1>5
    <3> HIDE DEF r
    <3> QED
      BY <1>3, <1>5, <2>2, <3>1
  <2>5. c * (m * v) =< c * B
    <3>1. m * r = c * (m * v) /\ B * c = c * B
      BY <1>0, <1>1, <1>5
    <3>2. m * r \in Nat /\ exact * r \in Nat /\ t \in Nat /\ B * c \in Nat
      BY <1>0, <1>1, <1>3, <1>5, <2>2
    <3>3. m * r =< B * c
      <4> DEFINE x == m * r
                 y == exact * r
                 z == B * c
      <4>1. x \in Nat /\ y \in Nat /\ t \in Nat /\ z \in Nat /\ x =< y /\ y =< t /\ t =< z
        BY <2>1, <2>3, <2>4, <3>2
      <4> HIDE DEF x, y, z, t
      <4>2. x =< z
        BY <4>1
      <4> QED
        BY <4>2 DEF x, z
    <3> QED
      BY <3>1, <3>3
  <2>6. m * v \in Nat
    BY <1>5
  <2> DEFINE x == m * v
  <2> HIDE DEF x
  <2>7. c * x =< c * B /\ x \in Nat
    BY <2>5, <2>6 DEF x
  <2>8. x =< B
    BY <1>0, <1>1, <2>7
  <2> QED
    BY <2>8 DEF x
<1>7. m \in NearlyAll(Min({MaxContracts, exact}))
  <2> DEFINE l == Min({MaxContracts, exact})
  <2> HIDE DEF exact, w, m
  <2>1. l = IF MaxContracts =< exact THEN MaxContracts ELSE exact
    BY <1>0, <1>3, MinMaxOfTwo
  <2> HIDE DEF l
  <2>2. l \in Nat /\ m =< l /\ l =< m + 1
    BY <1>0, <1>3, <1>4, <2>1
  <2>3. m \in NearlyAll(l)
    BY <1>5, <2>2, NearlyAllIs
  <2> QED
    BY <2>3 DEF l
<1>8. SizedTarget(score, v) = Signed(score.sum, m)
  BY DEF SizedTarget, ScoreMagnitude, WholeContracts
<1>9. score.sum \in Int
  BY DEF ScoreFits
<1> DEFINE target == Signed(score.sum, m)
<1>10. /\ target \in Int /\ Magnitude(target) = m
       /\ target # 0 => Sign(target) = Sign(score.sum)
  <2> HIDE DEF m
  <2> QED
    BY <1>5, <1>9, SignedIs
<1> HIDE DEF target, m
<1> QED
  BY <1>5, <1>6, <1>7, <1>8, <1>10 DEF target

\* What TargetsWithinRisk says of the scores, the volatilities, what is tradable,
\* and the targets.
Fits(scores, volatility, tradable, targets) ==
  LET raw == RawTargets(scores, volatility, tradable)
      gross == GrossRisk(raw, volatility)
  IN
  /\ GrossRisk(targets, volatility) =< MaxGross
  /\ \A i \in DOMAIN targets :
       LET target == targets[i]
           score == scores[i]
       IN IF i \notin tradable \/ score.sum = 0 THEN target = 0
          ELSE
          /\ target # 0 => Sign(target) = Sign(score.sum)
          /\ Magnitude(raw[i]) \in
               NearlyAll(Min({MaxContracts, (Budget * Magnitude(score.sum)) \div
                                              (score.count * volatility[i])}))
          /\ Magnitude(target) \in
               IF gross =< MaxGross THEN {Magnitude(raw[i])}
               ELSE NearlyAll((Magnitude(raw[i]) * MaxGross) \div gross)

LEMMA StrategyFits ==
  ASSUME NEW S, IsFiniteSet(S), NEW n \in Nat, Cardinality(S) =< n, DigitsSuffice(n),
         NEW scores, DOMAIN scores = S, \A i \in S : ScoreFits(scores[i]),
         NEW volatility, \A i \in S : volatility[i] \in Nat /\ UnitSuffices(volatility[i]),
         NEW tradable, Sizable(scores, volatility, tradable)
  PROVE  Fits(scores, volatility, tradable, StrategyTargets(scores, volatility, tradable))
<1> DEFINE raw == RawTargets(scores, volatility, tradable)
           Flat(i) == scores[i].sum = 0 \/ i \notin tradable
           f == [i \in S |-> Magnitude(raw[i]) * volatility[i]]
           gross == GrossRisk(raw, volatility)
           R == {i \in S : raw[i] # 0}
           part == [i \in R |-> raw[i]]
           capped == Capped(part, volatility)
           targets == StrategyTargets(scores, volatility, tradable)
<1>0. MaxGross \in Nat \ {0} /\ Budget \in Nat \ {0} /\ MaxContracts \in Nat \ {0}
  BY SizingAssumption
<1>1. DOMAIN raw = S
  BY DEF RawTargets
<1>2. ASSUME NEW i \in S, Flat(i) PROVE raw[i] = 0
  BY <1>2 DEF RawTargets
<1>3. ASSUME NEW i \in S, ~Flat(i)
      PROVE  /\ raw[i] \in Int
             /\ Magnitude(raw[i]) =< MaxContracts
             /\ Magnitude(raw[i]) * volatility[i] =< Budget
             /\ Magnitude(raw[i]) \in
                  NearlyAll(Min({MaxContracts, (Budget * Magnitude(scores[i].sum)) \div
                                                 (scores[i].count * volatility[i])}))
             /\ raw[i] # 0 => Sign(raw[i]) = Sign(scores[i].sum)
  <2>1. PICK v \in Nat \ {0} : v = volatility[i]
    BY <1>3 DEF Sizable
  <2>2. PICK score : score = scores[i]
    OBVIOUS
  <2>3. ScoreFits(score) /\ score.sum # 0 /\ UnitSuffices(v)
    BY <1>3, <2>1, <2>2
  <2>4. raw[i] = SizedTarget(score, v)
    BY <1>3, <2>1, <2>2 DEF RawTargets
  <2> HIDE DEF raw
  <2>5. /\ raw[i] \in Int /\ Magnitude(raw[i]) =< MaxContracts
        /\ Magnitude(raw[i]) * v =< Budget
        /\ Magnitude(raw[i]) \in NearlyAll(Min({MaxContracts, (Budget * Magnitude(score.sum)) \div (score.count * v)}))
        /\ raw[i] # 0 => Sign(raw[i]) = Sign(score.sum)
    BY <2>3, <2>4, SizedFits
  <2> QED
    BY <2>1, <2>2, <2>5
<1> HIDE DEF raw
<1>4. \A i \in S : /\ raw[i] \in Int /\ Magnitude(raw[i]) \in Nat
                   /\ Magnitude(raw[i]) =< MaxContracts
                   /\ (Magnitude(raw[i]) = 0 <=> raw[i] = 0)
                   /\ f[i] \in Nat /\ f[i] =< Budget
  <2> SUFFICES ASSUME NEW i \in S
               PROVE  /\ raw[i] \in Int /\ Magnitude(raw[i]) \in Nat
                      /\ Magnitude(raw[i]) =< MaxContracts
                      /\ (Magnitude(raw[i]) = 0 <=> raw[i] = 0)
                      /\ f[i] \in Nat /\ f[i] =< Budget
    OBVIOUS
  <2>1. raw[i] \in Int /\ Magnitude(raw[i]) =< MaxContracts
        /\ Magnitude(raw[i]) * volatility[i] =< Budget
    <3>1. CASE Flat(i)
      BY <1>0, <1>2, <3>1 DEF Magnitude
    <3>2. CASE ~Flat(i)
      BY <1>3, <3>2
    <3> QED
      BY <3>1, <3>2
  <2>2. Magnitude(raw[i]) \in Nat /\ (Magnitude(raw[i]) = 0 <=> raw[i] = 0)
    BY <2>1 DEF Magnitude
  <2> QED
    BY <2>1, <2>2
<1>5. f \in [S -> Int] /\ gross = SumFunction(f)
  BY <1>1, <1>4 DEF GrossRisk
<1>6. gross \in Nat /\ gross =< Budget * n
  <2> HIDE DEF f, gross
  <2>1. /\ SumFunction(f) \in Int /\ Cardinality(S) \in Nat
        /\ 0 * Cardinality(S) =< SumFunction(f) /\ SumFunction(f) =< Budget * Cardinality(S)
    BY <1>0, <1>4, <1>5, SumBounded
  <2> DEFINE m == Cardinality(S)
  <2>2. m \in Nat /\ m =< n
    BY <2>1
  <2> HIDE DEF m
  <2>3. Budget * m =< Budget * n
    BY <1>0, <2>2
  <2>4. Budget * m \in Int /\ Budget * n \in Int
    BY <1>0, <2>2
  <2> QED
    BY <1>5, <2>1, <2>3, <2>4 DEF m
<1>7. GrossRisk(part, volatility) = gross
  <2>1. GrossRisk(part, volatility) = SumFunction([i \in R |-> f[i]])
    <3>1. DOMAIN part = R /\ \A i \in R : i \in S /\ part[i] = raw[i] /\ f[i] = Magnitude(raw[i]) * volatility[i]
      OBVIOUS
    <3>2. [i \in DOMAIN part |-> Magnitude(part[i]) * volatility[i]] = [i \in R |-> f[i]]
      <4> HIDE DEF part, f, R
      <4> QED
        BY <3>1
    <3> QED
      BY <3>2 DEF GrossRisk
  <2>2. R \in SUBSET S /\ \A x \in S \ R : f[x] = 0
    BY <1>4 DEF Magnitude
  <2> HIDE DEF f, R
  <2>3. SumFunction([i \in R |-> f[i]]) = SumFunction(f)
    BY <1>5, <2>2, SumSupport
  <2> QED
    BY <1>5, <2>1, <2>3
<1>8. DOMAIN targets = S /\ \A i \in S : targets[i] = IF i \in R THEN capped[i] ELSE raw[i]
  BY <1>1 DEF StrategyTargets, raw
<1>9. DOMAIN part = R /\ \A i \in R : part[i] = raw[i]
  OBVIOUS
<1>10. gross =< MaxGross => \A i \in S : targets[i] = raw[i]
  <2> HIDE DEF part, gross, targets
  <2>1. gross =< MaxGross => capped = part
    BY <1>7 DEF Capped
  <2> QED
    BY <1>8, <1>9, <2>1
<1>11. ASSUME gross > MaxGross, NEW i \in R
       PROVE  targets[i] = Signed(raw[i], ScaledTarget(Magnitude(raw[i]), gross))
  <2> HIDE DEF part, gross, targets
  <2>1. ~(GrossRisk(part, volatility) =< MaxGross)
    BY <1>0, <1>6, <1>7, <1>11
  <2>2. capped[i] = Signed(part[i], ScaledTarget(Magnitude(part[i]), gross))
    BY <1>7, <1>9, <2>1 DEF Capped, ScaledTarget
  <2> QED
    BY <1>8, <1>9, <2>2
<1> HIDE DEF targets, capped, part
<1>12. ASSUME gross > MaxGross, NEW i \in R
       PROVE  LET t == Magnitude(raw[i])
                  z == Magnitude(targets[i])
              IN /\ targets[i] \in Int /\ z \in Nat
                 /\ z \in NearlyAll((t * MaxGross) \div gross)
                 /\ z * gross =< t * MaxGross
                 /\ targets[i] # 0 => Sign(targets[i]) = Sign(raw[i])
  <2>1. PICK t \in Nat \ {0} : t = Magnitude(raw[i])
    BY <1>4
  <2>2. t =< MaxContracts /\ raw[i] \in Int /\ raw[i] # 0
    BY <1>4, <2>1
  <2>3. PICK g \in Nat \ {0} : g = gross
    BY <1>0, <1>6, <1>12
  <2> HIDE DEF gross, R
  <2>4. MaxGross < g /\ g =< Budget * n
    BY <1>0, <1>6, <1>12, <2>3
  <2>5. 4 * (t * MaxGross) =< Scale
    <3>1. t * MaxGross =< MaxContracts * MaxGross
      BY <1>0, <2>2
    <3>2. t * MaxGross \in Nat /\ MaxContracts * MaxGross \in Nat
          /\ 4 * (MaxContracts * MaxGross) =< Scale
      BY <1>0 DEF DigitsSuffice
    <3> QED
      BY <3>1, <3>2, ScalePositive
  <2>6. 4 * (t * g) =< Unit
    <3> DEFINE b == Budget * n
    <3>1. b \in Nat /\ g =< b /\ 4 * (MaxContracts * b) =< Unit
      BY <1>0, <2>4 DEF DigitsSuffice
    <3> HIDE DEF b
    <3>2. t * g =< MaxContracts * b
      <4>1. t * g =< MaxContracts * g /\ MaxContracts * g =< MaxContracts * b
        BY <1>0, <2>2, <3>1
      <4>2. t * g \in Nat /\ MaxContracts * g \in Nat /\ MaxContracts * b \in Nat
        BY <1>0, <3>1
      <4> QED
        BY <4>1, <4>2
    <3>3. t * g \in Nat /\ MaxContracts * b \in Nat
      BY <1>0, <3>1
    <3> QED
      BY <3>1, <3>2, <3>3, ScalePositive
  <2> DEFINE z == ScaledTarget(t, g)
             exact == (t * MaxGross) \div g
  <2>7. z \in Nat /\ exact \in Nat /\ z =< exact /\ exact =< z + 1
    BY <2>4, <2>5, <2>6, CapNear
  <2>8. exact * g =< t * MaxGross
    <3> DEFINE k == t * MaxGross
    <3>1. k \in Nat
      BY <1>0
    <3> HIDE DEF k
    <3>2. (k \div g) * g =< k
      BY <3>1
    <3> QED
      BY <3>2 DEF k
  <2>9. z * g =< t * MaxGross
    <3> HIDE DEF z, exact
    <3>1. z * g =< exact * g /\ z * g \in Nat /\ exact * g \in Nat /\ t * MaxGross \in Nat
      BY <1>0, <2>7
    <3> QED
      BY <2>8, <3>1
  <2>10. z \in NearlyAll(exact)
    <3> HIDE DEF z, exact
    <3> QED
      BY <2>7, NearlyAllIs
  <2>11. targets[i] = Signed(raw[i], z)
    BY <1>11, <1>12, <2>1, <2>3
  <2> HIDE DEF z
  <2>12. /\ targets[i] \in Int /\ Magnitude(targets[i]) = z
         /\ targets[i] # 0 => Sign(targets[i]) = Sign(raw[i])
    BY <2>2, <2>7, <2>11, SignedIs
  <2> QED
    BY <2>1, <2>3, <2>7, <2>9, <2>10, <2>12
<1>13. \A i \in S \ R : targets[i] = 0 /\ raw[i] = 0
  BY <1>8
<1>14. GrossRisk(targets, volatility) =< MaxGross
  <2> DEFINE h == [i \in S |-> Magnitude(targets[i]) * volatility[i]]
  <2>1. GrossRisk(targets, volatility) = SumFunction(h)
    BY <1>8 DEF GrossRisk
  <2>2. CASE gross =< MaxGross
    <3>1. h = f
      BY <1>10, <2>2
    <3> QED
      BY <1>5, <2>1, <2>2, <3>1
  <2>3. CASE ~(gross =< MaxGross)
    <3>1. PICK g \in Nat \ {0} : g = gross /\ g > MaxGross
      BY <1>0, <1>6, <2>3
    <3>2. ASSUME NEW i \in S PROVE h[i] \in Int /\ g * h[i] =< MaxGross * f[i]
      <4>1. PICK v \in Nat : v = volatility[i]
        OBVIOUS
      <4>2. CASE i \in R
        <5>1. PICK t \in Nat, z \in Nat :
                t = Magnitude(raw[i]) /\ z = Magnitude(targets[i]) /\ z * g =< t * MaxGross
          BY <1>4, <1>12, <3>1, <4>2
        <5>2. h[i] = z * v /\ f[i] = t * v
          BY <4>1, <5>1
        <5>3. (z * g) * v =< (t * MaxGross) * v
          <6> DEFINE l == z * g
                     r == t * MaxGross
          <6>1. l \in Nat /\ r \in Nat /\ l =< r
            BY <1>0, <5>1
          <6> HIDE DEF l, r
          <6>2. l * v =< r * v
            BY <6>1
          <6> QED
            BY <6>2 DEF l, r
        <5>4. g * (z * v) = (z * g) * v /\ MaxGross * (t * v) = (t * MaxGross) * v /\ z * v \in Int
          BY <1>0
        <5> HIDE DEF h, f
        <5> QED
          BY <5>2, <5>3, <5>4
      <4>3. CASE i \notin R
        <5>1. h[i] = 0 /\ f[i] = 0
          BY <1>13, <4>1, <4>3 DEF Magnitude
        <5> HIDE DEF h, f
        <5> QED
          BY <1>0, <5>1
      <4> QED
        BY <4>2, <4>3
    <3>3. h \in [S -> Int] /\ \A i \in S : g * h[i] =< MaxGross * f[i]
      BY <3>2
    <3> HIDE DEF h, f, gross
    <3>4. SumFunction(h) \in Int /\ g * SumFunction(h) =< MaxGross * SumFunction(f)
      <4>1. PICK a \in Int, m \in Int : a = g /\ m = MaxGross
        BY <1>0
      <4>2. f \in [S -> Int] /\ \A i \in S : a * h[i] =< m * f[i]
        BY <1>5, <3>3, <4>1
      <4>3. SumFunction(h) \in Int /\ a * SumFunction(h) =< m * SumFunction(f)
        BY <3>3, <4>2, SumsOrdered
      <4> QED
        BY <4>1, <4>3
    <3> DEFINE x == SumFunction(h)
    <3>5. x \in Int /\ g * x =< g * MaxGross
      BY <1>0, <1>5, <3>1, <3>4
    <3> HIDE DEF x
    <3>6. x =< MaxGross
      <4> SUFFICES ASSUME MaxGross + 1 =< x PROVE FALSE
        BY <1>0, <3>5
      <4>1. g * (MaxGross + 1) =< g * x /\ g * (MaxGross + 1) = g * MaxGross + g
        BY <1>0, <3>5
      <4>2. g * MaxGross \in Nat /\ g * x \in Int
        BY <1>0, <3>5
      <4> QED
        BY <3>5, <4>1, <4>2
    <3> QED
      BY <2>1, <3>6 DEF x
  <2> QED
    BY <2>2, <2>3
<1>15. ASSUME NEW i \in S
       PROVE  IF i \notin tradable \/ scores[i].sum = 0 THEN targets[i] = 0
              ELSE
              /\ targets[i] # 0 => Sign(targets[i]) = Sign(scores[i].sum)
              /\ Magnitude(raw[i]) \in
                   NearlyAll(Min({MaxContracts, (Budget * Magnitude(scores[i].sum)) \div
                                                  (scores[i].count * volatility[i])}))
              /\ Magnitude(targets[i]) \in
                   IF gross =< MaxGross THEN {Magnitude(raw[i])}
                   ELSE NearlyAll((Magnitude(raw[i]) * MaxGross) \div gross)
  <2>1. CASE Flat(i)
    BY <1>2, <1>13, <2>1
  <2>2. CASE ~Flat(i)
    <3>1. CASE gross =< MaxGross
      BY <1>3, <1>10, <2>2, <3>1
    <3>2. CASE ~(gross =< MaxGross) /\ i \in R
      <4>1. gross > MaxGross
        BY <1>0, <1>6, <3>2
      <4> HIDE DEF gross
      <4>2. /\ Magnitude(targets[i]) \in NearlyAll((Magnitude(raw[i]) * MaxGross) \div gross)
            /\ targets[i] # 0 => Sign(targets[i]) = Sign(raw[i])
        BY <1>12, <3>2, <4>1
      <4>3. raw[i] # 0
        BY <3>2
      <4> QED
        BY <1>3, <2>2, <3>2, <4>2, <4>3
    <3>3. CASE ~(gross =< MaxGross) /\ i \notin R
      <4>1. targets[i] = 0 /\ raw[i] = 0
        BY <1>13, <3>3
      <4>2. Magnitude(targets[i]) = 0 /\ Magnitude(raw[i]) = 0
        BY <4>1 DEF Magnitude
      <4>3. PICK g \in Nat \ {0} : g = gross
        BY <1>0, <1>6, <3>3
      <4>4. (0 * MaxGross) \div g = 0
        BY <1>0
      <4>5. 0 \in NearlyAll(0)
        BY NearlyAllIs
      <4> HIDE DEF gross
      <4> QED
        BY <1>3, <2>2, <3>3, <4>1, <4>2, <4>3, <4>4, <4>5
    <3> QED
      BY <3>1, <3>2, <3>3
  <2> QED
    BY <2>1, <2>2
<1> QED
  BY <1>8, <1>14, <1>15 DEF Fits, raw, targets

\* The digits of the arithmetic suffice for the budget, the cap, the volatilities
\* and the instruments; the code has 28 of them.
EnoughDigits ==
  /\ IsFiniteSet(Builds) /\ DigitsSuffice(Cardinality(Builds))
  /\ \A v \in Volatilities : UnitSuffices(v)

\* With enough digits the targets risk no more than the cap, keep the direction of
\* their scores, and are what exact arithmetic makes of them, but for at most one
\* contract that is lost each time a quotient is rounded before its floor:
\* calculate_volatility_target_position, cap_position_targets_by_gross_risk and
\* build_strategy_position_targets.
THEOREM TargetsStayWithinRisk ==
  ASSUME EnoughDigits
  PROVE  Spec => []TargetsWithinRisk
<1>1. Init => TargetsWithinRisk
  BY DEF Init, TargetsWithinRisk
<1>2. TargetsWithinRisk /\ [Next]_vars => TargetsWithinRisk'
  <2> SUFFICES ASSUME TargetsWithinRisk, [Next]_vars PROVE TargetsWithinRisk'
    OBVIOUS
  <2>1. CASE UNCHANGED plan
    BY <2>1 DEF TargetsWithinRisk
  <2>2. ASSUME NEW tradable, NEW volatility \in [{Instrument(b) : b \in Delivered} -> Volatilities],
               Size(volatility, tradable)
        PROVE  TargetsWithinRisk'
    <3> DEFINE S == {Instrument(b) : b \in Delivered}
               build(i) == CHOOSE b \in Delivered : Instrument(b) = i
               scores == [i \in S |-> TrendScore(series[build(i)], Lookbacks)]
    <3>1. /\ Sizable(scores, volatility, tradable)
          /\ Cardinality(S) = Cardinality(Delivered)
          /\ plan' = [scores |-> scores, volatilities |-> volatility, tradable |-> tradable,
                      targets |-> StrategyTargets(scores, volatility, tradable)]
      BY <2>2 DEF Size
    <3>2. IsFiniteSet(S) /\ Cardinality(S) =< Cardinality(Builds) /\ Cardinality(Builds) \in Nat
      <4>1. IsFiniteSet(Builds) /\ Delivered \in SUBSET Builds
        BY DEF EnoughDigits, Delivered
      <4>2. IsFiniteSet(Delivered) /\ Cardinality(Delivered) =< Cardinality(Builds)
            /\ Cardinality(Builds) \in Nat
        BY <4>1, FS_Subset, FS_CardinalityType
      <4> DEFINE f == [b \in Delivered |-> Instrument(b)]
      <4>3. f \in Surjection(Delivered, S)
        BY DEF Surjection
      <4>4. IsFiniteSet(S)
        <5> HIDE DEF f, S
        <5> QED
          BY <4>2, <4>3, FS_Surjection
      <4> QED
        BY <3>1, <4>2, <4>4
    <3>3. \A i \in S : ScoreFits(scores[i])
      BY ScoresFit
    <3>4. \A i \in S : volatility[i] \in Nat /\ UnitSuffices(volatility[i])
      BY <2>2, InputsAssumption DEF EnoughDigits
    <3>5. DOMAIN scores = S /\ DigitsSuffice(Cardinality(Builds))
      BY DEF EnoughDigits
    <3> HIDE DEF S, scores
    <3>6. Fits(scores, volatility, tradable, StrategyTargets(scores, volatility, tradable))
      BY <3>1, <3>2, <3>3, <3>4, <3>5, StrategyFits
    <3> QED
      BY <3>1, <3>6 DEF TargetsWithinRisk, Fits
  <2>3. CASE \E b \in Builds : Build(b)
    BY <2>1, <2>3 DEF Build, Begin, Fetch, Load, Truncate, Write, GiveUp
  <2>4. CASE \E k \in DOMAIN quotes, close \in Closes : Revise(k, close)
    BY <2>1, <2>4 DEF Revise
  <2>5. CASE UNCHANGED vars
    BY <2>1, <2>5 DEF vars
  <2> QED
    BY <2>2, <2>3, <2>4, <2>5 DEF Next
<1> QED
  BY <1>1, <1>2, PTL DEF Spec
=============================================================================
