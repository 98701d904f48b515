--------------------------- MODULE RebalanceProofs ---------------------------
(***************************************************************************)
(* Proofs about Rebalance, for any number of targets, plans, crashes and   *)
(* lost replies, and all positions, quantities and limits.  The first part *)
(* is about the orders, their lifecycles and the broker; the second about  *)
(* the course of an undisturbed plan, which follows for each instrument    *)
(* what its orders have filled according to their lifecycles, what they    *)
(* can still fill at the broker, and the two positions in between; the     *)
(* last about the position limit.                                          *)
(***************************************************************************)
EXTENDS Rebalance, TLAPS

-----------------------------------------------------------------------------
(* The files and the book.                                                 *)

\* A save changes the lifecycle of one order.
LEMMA SaveChangesOne ==
  ASSUME NEW x, NEW lc, Save(x, lc)
  PROVE  /\ DOMAIN lifecycle' = DOMAIN lifecycle \cup {x}
         /\ Load(x)' = lc
         /\ lifecycle'[x] = lc
         /\ \A y \in DOMAIN lifecycle : y # x => lifecycle'[y] = lifecycle[y]
         /\ \A y : y # x => Load(y)' = Load(y)
BY DEF Save, Load

\* Unchanged lifecycles are loaded unchanged.
LEMMA LoadUnchanged ==
  ASSUME UNCHANGED lifecycle
  PROVE  \A y : Load(y)' = Load(y)
BY DEF Load

LEMMA OpenAddsOne ==
  ASSUME NEW x, Open(x)
  PROVE  /\ DOMAIN live' = DOMAIN live \cup {x}
         /\ live'[x] = 0
         /\ \A y \in DOMAIN live : y # x => live'[y] = live[y]
BY DEF Open

LEMMA CloseRemovesOne ==
  ASSUME NEW x, Close(x)
  PROVE  /\ DOMAIN live' = DOMAIN live \ {x}
         /\ \A y \in DOMAIN live' : live'[y] = live[y]
BY DEF Close

\* After a fill the order is open with more filled, or closed when nothing
\* was left.
LEMMA FillMovesOne ==
  ASSUME NEW x \in DOMAIN live, NEW q, FillInBook(x, q)
  PROVE  /\ DOMAIN live' = IF live[x] + q = x.quantity
                           THEN DOMAIN live \ {x} ELSE DOMAIN live
         /\ x \in DOMAIN live' => live'[x] = live[x] + q
         /\ \A y \in DOMAIN live' : y # x => live'[y] = live[y]
BY DEF FillInBook, Close

-----------------------------------------------------------------------------
(* Planned phases.                                                         *)

\* A phase has at most one order for an instrument.
LEMMA OneOrderEach ==
  ASSUME NEW p, NEW k \in {1, 2}, NEW x \in Phases(p)[k], NEW y \in Phases(p)[k],
         x.instrument = y.instrument
  PROVE  x = y
<1>1. ASSUME NEW i, NEW z,
             \/ z \in ReducingIntents(p.prefix, i, p.start[i], p.target[i])
             \/ z \in OpeningIntents(p.prefix, i, p.start[i], p.target[i])
      PROVE  z.instrument = i
  <2>1. \/ z = FlattenIntent(p.prefix, i, p.start[i])
        \/ z = OpenIntent(p.prefix, i, p.start[i], p.target[i])
        \/ z = PlanOrderToTarget(p.prefix, i, p.start[i], p.target[i])
    BY <1>1 DEF ReducingIntents, OpeningIntents
  <2>2. \A side, quantity, suffix :
          BuildOrderIntent(p.prefix, i, side, quantity, suffix).instrument = i
    BY DEF BuildOrderIntent
  <2> QED
    BY <2>1, <2>2 DEF FlattenIntent, OpenIntent, PlanOrderToTarget
<1>2. \A i : \A z, w \in ReducingIntents(p.prefix, i, p.start[i], p.target[i]) :
        z = w
  BY DEF ReducingIntents
<1>3. \A i : \A z, w \in OpeningIntents(p.prefix, i, p.start[i], p.target[i]) :
        z = w
  BY DEF OpeningIntents
<1>4. CASE k = 1
  <2>1. Phases(p)[1] =
          UNION {ReducingIntents(p.prefix, i, p.start[i], p.target[i])
                   : i \in DOMAIN p.target}
    BY DEF Phases, PlanRebalanceOrderPhases
  <2>2. PICK i \in DOMAIN p.target :
          x \in ReducingIntents(p.prefix, i, p.start[i], p.target[i])
    BY <1>4, <2>1
  <2>3. PICK j \in DOMAIN p.target :
          y \in ReducingIntents(p.prefix, j, p.start[j], p.target[j])
    BY <1>4, <2>1
  <2>4. i = j
    BY <1>1, <2>2, <2>3
  <2> QED
    BY <1>2, <2>2, <2>3, <2>4
<1>5. CASE k = 2
  <2>1. Phases(p)[2] =
          UNION {OpeningIntents(p.prefix, i, p.start[i], p.target[i])
                   : i \in DOMAIN p.target}
    BY DEF Phases, PlanRebalanceOrderPhases
  <2>2. PICK i \in DOMAIN p.target :
          x \in OpeningIntents(p.prefix, i, p.start[i], p.target[i])
    BY <1>5, <2>1
  <2>3. PICK j \in DOMAIN p.target :
          y \in OpeningIntents(p.prefix, j, p.start[j], p.target[j])
    BY <1>5, <2>1
  <2>4. i = j
    BY <1>1, <2>2, <2>3
  <2> QED
    BY <1>1, <1>3, <2>2, <2>3, <2>4
<1> QED
  BY <1>4, <1>5

\* What is due belongs to one phase and has no lifecycle.
LEMMA DueInOnePhase ==
  ASSUME NEW p, NextIntents(p) # {}
  PROVE  /\ CurrentPhase(p) \in {1, 2}
         /\ NextIntents(p) \subseteq Phases(p)[CurrentPhase(p)]
         /\ NextIntents(p) \subseteq PlanIntents(p)
         /\ NextIntents(p) \cap DOMAIN lifecycle
              \subseteq {x \in DOMAIN lifecycle : lifecycle[x] = Unknown}
BY DEF NextIntents, CurrentPhase, PlanIntents, Load

-----------------------------------------------------------------------------
(* Types.                                                                  *)

\* The orders of the plan are orders the model's bounds allow.
PlanFits == plan # NoPlan => PlanIntents(plan) \subseteq Intents

TypeInv == RTypeOK /\ PlanFits

LEMMA TypeInit == Init => TypeInv
<1> SUFFICES ASSUME Init PROVE TypeInv
  OBVIOUS
<1>1. position \in [Instruments -> Int]
  BY PositionsAssumption DEF Init
<1>2. DOMAIN lifecycle = {} /\ DOMAIN live = {}
  BY DEF Init
<1> QED
  BY <1>1, <1>2 DEF Init, TypeInv, RTypeOK, PlanFits

LEMMA IntentTypes ==
  ASSUME NEW x \in Intents
  PROVE  /\ x.instrument \in Instruments
         /\ x.quantity \in Nat
         /\ 1 =< x.quantity /\ x.quantity =< MaxQuantity
         /\ x.price = LimitPrice
<1>1. /\ x.instrument \in Instruments
      /\ x.quantity \in 1..MaxQuantity
      /\ x.price \in {LimitPrice}
  BY DEF Intents
<1> QED
  BY <1>1, BoundsAssumption

\* A submitted order gets a well-typed lifecycle.
LEMMA SavedTypes ==
  ASSUME TypeInv, NEW x \in Intents, NEW lc, Save(x, lc),
         lc \in [status : Statuses, filled : 0..x.quantity]
  PROVE  /\ DOMAIN lifecycle' \subseteq Intents
         /\ \A y \in DOMAIN lifecycle' :
              lifecycle'[y] \in [status : Statuses, filled : 0..y.quantity]
         /\ activity \cup {x} \subseteq DOMAIN lifecycle'
<1>1. /\ DOMAIN lifecycle' = DOMAIN lifecycle \cup {x}
      /\ lifecycle'[x] = lc
      /\ \A y \in DOMAIN lifecycle : y # x => lifecycle'[y] = lifecycle[y]
  BY SaveChangesOne
<1> QED
  BY <1>1 DEF TypeInv, RTypeOK

LEMMA NewLifecycleTypes ==
  ASSUME NEW x \in Intents
  PROVE  /\ MarkRejected(PendingSubmit) \in [status : Statuses, filled : 0..x.quantity]
         /\ MarkWorking(PendingSubmit) \in [status : Statuses, filled : 0..x.quantity]
<1>1. 0 \in 0..x.quantity
  BY IntentTypes
<1> QED
  BY <1>1 DEF MarkRejected, MarkWorking, PendingSubmit, Statuses

LEMMA OpenedTypes ==
  ASSUME TypeInv, NEW x \in Intents, Open(x)
  PROVE  /\ DOMAIN live' \subseteq Intents
         /\ \A y \in DOMAIN live' : live'[y] \in 0..(y.quantity - 1)
<1>1. 0 \in 0..(x.quantity - 1)
  BY IntentTypes
<1>2. /\ DOMAIN live' = DOMAIN live \cup {x}
      /\ live'[x] = 0
      /\ \A y \in DOMAIN live : y # x => live'[y] = live[y]
  BY OpenAddsOne
<1> QED
  BY <1>1, <1>2 DEF TypeInv, RTypeOK

LEMMA ClosedTypes ==
  ASSUME TypeInv, NEW x, Close(x)
  PROVE  /\ DOMAIN live' \subseteq Intents
         /\ \A y \in DOMAIN live' : live'[y] \in 0..(y.quantity - 1)
BY CloseRemovesOne DEF TypeInv, RTypeOK

LEMMA FillTypes ==
  ASSUME TypeInv, NEW x \in DOMAIN live, NEW q \in 1..MaxQuantity, Fill(x, q)
  PROVE  TypeInv'
<1>1. /\ x \in Intents /\ x.instrument \in Instruments
      /\ x.quantity \in Nat /\ x.quantity >= 1
      /\ live[x] \in Nat /\ q \in Nat /\ q >= 1
  <2>1. x \in Intents /\ live[x] \in 0..(x.quantity - 1)
    BY DEF TypeInv, RTypeOK
  <2> QED
    BY <2>1, IntentTypes, BoundsAssumption
<1>2. live[x] + q =< x.quantity
  BY DEF Fill
<1>3. /\ DOMAIN live' \subseteq Intents
      /\ \A y \in DOMAIN live' : live'[y] \in 0..(y.quantity - 1)
  <2>1. FillInBook(x, q)
    BY DEF Fill
  <2>2. /\ DOMAIN live' = IF live[x] + q = x.quantity
                          THEN DOMAIN live \ {x} ELSE DOMAIN live
        /\ x \in DOMAIN live' => live'[x] = live[x] + q
        /\ \A y \in DOMAIN live' : y # x => live'[y] = live[y]
    BY <2>1, FillMovesOne
  <2>3. x \in DOMAIN live' => live'[x] \in 0..(x.quantity - 1)
    BY <1>1, <1>2, <2>2
  <2> QED
    BY <2>2, <2>3 DEF TypeInv, RTypeOK
<1>4. held' \in [Instruments -> Int]
  BY <1>1 DEF Fill, QuantityAfter, TypeInv, RTypeOK
<1>5. /\ position' \in [Instruments -> Int]
      /\ DOMAIN lifecycle' \subseteq Intents
      /\ \A y \in DOMAIN lifecycle' :
           lifecycle'[y] \in [status : Statuses, filled : 0..y.quantity]
      /\ activity \subseteq DOMAIN lifecycle'
  <2>1. CASE /\ x \in activity
             /\ CanRecordFill(Load(x), q, x.quantity)
             /\ Save(x, RecordFill(Load(x), q, x.quantity))
             /\ position' = [position EXCEPT ![x.instrument] =
                               QuantityAfter(@, x.side, q)]
    <3>1. Load(x) \in [status : Statuses, filled : 0..x.quantity]
      BY <2>1 DEF TypeInv, RTypeOK, Load
    <3>2. RecordFill(Load(x), q, x.quantity)
            \in [status : Statuses, filled : 0..x.quantity]
      BY <1>1, <2>1, <3>1 DEF RecordFill, CanRecordFill, Statuses
    <3>3. position' \in [Instruments -> Int]
      BY <1>1, <2>1 DEF QuantityAfter, TypeInv, RTypeOK
    <3> QED
      BY <1>1, <2>1, <3>2, <3>3, SavedTypes
  <2>2. CASE UNCHANGED <<lifecycle, position>>
    BY <2>2 DEF TypeInv, RTypeOK
  <2> QED
    BY <2>1, <2>2 DEF Fill
<1> QED
  BY <1>3, <1>4, <1>5
     DEF Fill, callerVars, historyVars, TypeInv, RTypeOK, PlanFits

\* The submission of one order.
LEMMA SubmitTypes ==
  ASSUME TypeInv, NEW x \in queue, Submit(x)
  PROVE  TypeInv'
<1>1. x \in Intents /\ queue \ {x} \subseteq Intents
  BY DEF TypeInv, RTypeOK
<1>2. CASE GatewayBlocks(x)
  BY <1>2 DEF GatewayBlocks, EndPhase, storeVars, brokerVars, historyVars,
     TypeInv, RTypeOK, PlanFits
<1>3. CASE RiskRejects(x) \/ BrokerRefuses(x)
  <2>1. /\ DOMAIN lifecycle' \subseteq Intents
        /\ \A y \in DOMAIN lifecycle' :
             lifecycle'[y] \in [status : Statuses, filled : 0..y.quantity]
        /\ activity \cup {x} \subseteq DOMAIN lifecycle'
    BY <1>1, <1>3, NewLifecycleTypes, SavedTypes DEF RiskRejects, BrokerRefuses
  <2> QED
    BY <1>3, <2>1 DEF RiskRejects, BrokerRefuses, EndPhase, brokerVars,
       historyVars, TypeInv, RTypeOK, PlanFits
<1>4. CASE BrokerAccepts(x) \/ AcceptanceLost(x)
  <2>1. /\ DOMAIN lifecycle' \subseteq Intents
        /\ \A y \in DOMAIN lifecycle' :
             lifecycle'[y] \in [status : Statuses, filled : 0..y.quantity]
        /\ activity \cup {x} \subseteq DOMAIN lifecycle'
    BY <1>1, <1>4, NewLifecycleTypes, SavedTypes
       DEF BrokerAccepts, AcceptanceLost
  <2>2. /\ DOMAIN live' \subseteq Intents
        /\ \A y \in DOMAIN live' : live'[y] \in 0..(y.quantity - 1)
    BY <1>1, <1>4, OpenedTypes DEF BrokerAccepts, AcceptanceLost
  <2>3. CASE BrokerAccepts(x)
    BY <1>1, <2>1, <2>2, <2>3 DEF BrokerAccepts, historyVars, TypeInv, RTypeOK,
       PlanFits
  <2>4. CASE AcceptanceLost(x)
    BY <2>1, <2>2, <2>4 DEF AcceptanceLost, EndPhase, TypeInv, RTypeOK, PlanFits
  <2> QED
    BY <1>4, <2>3, <2>4
<1> QED
  BY <1>2, <1>3, <1>4 DEF Submit

\* The end of an order at the broker, or the request for it.
LEMMA EndTypes ==
  ASSUME TypeInv, NEW x \in DOMAIN live, RequestCancel(x) \/ BrokerEnds(x)
  PROVE  TypeInv'
<1>1. x \in Intents
  BY DEF TypeInv, RTypeOK
<1>2. ASSUME NEW status \in Statuses, Load(x) # Unknown,
             Save(x, [Load(x) EXCEPT !.status = status])
      PROVE  /\ DOMAIN lifecycle' \subseteq Intents
             /\ \A y \in DOMAIN lifecycle' :
                  lifecycle'[y] \in [status : Statuses, filled : 0..y.quantity]
             /\ activity \subseteq DOMAIN lifecycle'
  <2>1. Load(x) \in [status : Statuses, filled : 0..x.quantity]
    BY <1>2 DEF TypeInv, RTypeOK, Load
  <2>2. [Load(x) EXCEPT !.status = status]
          \in [status : Statuses, filled : 0..x.quantity]
    BY <2>1
  <2> QED
    BY <1>1, <1>2, <2>2, SavedTypes
<1>3. CASE RequestCancel(x)
  <2>1. Load(x) # Unknown
    BY <1>3 DEF RequestCancel, CanMarkPendingCancel, Unknown
  <2>2. "pending_cancel" \in Statuses
    BY DEF Statuses
  <2> QED
    BY <1>2, <1>3, <2>1, <2>2 DEF RequestCancel, MarkPendingCancel, callerVars,
       brokerVars, historyVars, TypeInv, RTypeOK, PlanFits
<1>4. CASE BrokerEnds(x)
  <2>1. /\ DOMAIN live' \subseteq Intents
        /\ \A y \in DOMAIN live' : live'[y] \in 0..(y.quantity - 1)
    BY <1>4, ClosedTypes DEF BrokerEnds, BrokerCancels, BrokerRejects
  <2>2. /\ DOMAIN lifecycle' \subseteq Intents
        /\ \A y \in DOMAIN lifecycle' :
             lifecycle'[y] \in [status : Statuses, filled : 0..y.quantity]
        /\ activity \subseteq DOMAIN lifecycle'
    <3>1. CASE UNCHANGED lifecycle
      BY <3>1 DEF TypeInv, RTypeOK
    <3>2. CASE CanMarkCanceled(Load(x)) /\ Save(x, MarkCanceled(Load(x)))
      BY <1>2, <3>2 DEF CanMarkCanceled, MarkCanceled, Unknown, Statuses
    <3>3. CASE CanMarkRejected(Load(x)) /\ Save(x, MarkRejected(Load(x)))
      BY <1>2, <3>3 DEF CanMarkRejected, MarkRejected, Unknown, Statuses
    <3> QED
      BY <1>4, <3>1, <3>2, <3>3 DEF BrokerEnds, BrokerCancels, BrokerRejects
  <2> QED
    BY <1>4, <2>1, <2>2 DEF BrokerEnds, BrokerCancels, BrokerRejects,
       callerVars, historyVars, TypeInv, RTypeOK, PlanFits
<1> QED
  BY <1>3, <1>4

LEMMA TypeStep == TypeInv /\ [Next]_vars => TypeInv'
<1> SUFFICES ASSUME TypeInv, [Next]_vars PROVE TypeInv'
  OBVIOUS
<1>1. ASSUME NEW prefix \in Prefixes, NEW target \in Courses,
             Plan(prefix, target)
      PROVE  TypeInv'
  BY <1>1 DEF Plan, storeVars, brokerVars, TypeInv, RTypeOK, PlanFits
<1>2. ASSUME NEW reading \in Readings, BuildContexts(reading) PROVE TypeInv'
  <2>1. contexts'.for = NextIntents(plan) /\ NextIntents(plan) \subseteq Intents
    BY <1>2, DueInOnePhase DEF BuildContexts, TypeInv, PlanFits
  <2> QED
    BY <1>2, <2>1 DEF BuildContexts, storeVars, brokerVars, historyVars,
       TypeInv, RTypeOK, PlanFits
<1>3. CASE SubmitNextPhase
  <2>1. NextIntents(plan) \subseteq Intents
    BY <1>3, DueInOnePhase DEF SubmitNextPhase, TypeInv, PlanFits
  <2> QED
    BY <1>3, <2>1 DEF SubmitNextPhase, storeVars, brokerVars, historyVars,
       TypeInv, RTypeOK, PlanFits
<1>4. ASSUME NEW x \in queue, Submit(x) PROVE TypeInv'
  BY <1>4, SubmitTypes
<1>5. ASSUME NEW x \in DOMAIN live, NEW q \in 1..MaxQuantity, Fill(x, q)
      PROVE  TypeInv'
  BY <1>5, FillTypes
<1>6. ASSUME NEW x \in DOMAIN live, RequestCancel(x) \/ BrokerEnds(x)
      PROVE  TypeInv'
  BY <1>6, EndTypes
<1>7. CASE WindowPasses
  BY <1>7 DEF WindowPasses, callerVars, brokerVars, historyVars, TypeInv,
     RTypeOK, PlanFits
<1>8. CASE Crash
  BY <1>8 DEF Crash, storeVars, brokerVars, TypeInv, RTypeOK, PlanFits
<1>9. CASE UNCHANGED vars
  BY <1>9 DEF vars, callerVars, storeVars, brokerVars, historyVars, TypeInv,
     RTypeOK, PlanFits
<1> QED
  BY <1>1, <1>2, <1>3, <1>4, <1>5, <1>6, <1>7, <1>8, <1>9 DEF Next

LEMMA TypesInductive == Spec => []TypeInv
<1> QED
  BY TypeInit, TypeStep, PTL DEF Spec

\* Every reachable state of a rebalance is well typed; no open order is filled.
THEOREM RebalanceTypes == Spec => []RTypeOK
<1>1. TypeInv => RTypeOK
  BY DEF TypeInv
<1> QED
  BY <1>1, TypesInductive, PTL

-----------------------------------------------------------------------------
(* The rate limit.  recent may run ahead of the count in the contexts of a *)
(* phase by the orders submitted for earlier targets, and by no more.      *)

PhaseInv ==
  /\ queue # {} => contexts.built
  /\ queue \cap DOMAIN lifecycle = {}
  /\ contexts.built =>
       /\ plan # NoPlan
       /\ \E k \in {1, 2} : contexts.for \subseteq Phases(plan)[k]
       /\ queue \subseteq contexts.for
       /\ contexts.recent \in Nat
       /\ queue = {} => recent =< contexts.recent
       /\ \A y \in queue : recent < contexts.recent + y.instrument

RateInv == PhaseInv /\ RateExceededWithinPhase

\* What happens to an open order adds no lifecycle.
LEMMA EventsKeepDomain ==
  ASSUME TypeInv, NEW x \in DOMAIN live,
         (\E q \in 1..MaxQuantity : Fill(x, q)) \/ RequestCancel(x) \/ BrokerEnds(x)
  PROVE  DOMAIN lifecycle' = DOMAIN lifecycle
<1>1. ASSUME NEW lc, Save(x, lc), x \in DOMAIN lifecycle
      PROVE  DOMAIN lifecycle' = DOMAIN lifecycle
  BY <1>1, SaveChangesOne
<1>2. Load(x) # Unknown => x \in DOMAIN lifecycle
  BY DEF Load
<1>3. ASSUME NEW q \in 1..MaxQuantity, Fill(x, q)
      PROVE  DOMAIN lifecycle' = DOMAIN lifecycle
  <2>1. activity \subseteq DOMAIN lifecycle
    BY DEF TypeInv, RTypeOK
  <2> QED
    BY <1>1, <1>3, <2>1 DEF Fill
<1>4. CASE RequestCancel(x)
  BY <1>1, <1>2, <1>4 DEF RequestCancel, CanMarkPendingCancel, Unknown
<1>5. CASE BrokerEnds(x)
  BY <1>1, <1>2, <1>5 DEF BrokerEnds, BrokerCancels, BrokerRejects,
     CanMarkCanceled, CanMarkRejected, Unknown
<1> QED
  BY <1>3, <1>4, <1>5

LEMMA RateInit == Init => RateInv
BY BoundsAssumption, LimitsAssumption
   DEF Init, RateInv, PhaseInv, RateExceededWithinPhase, NoContexts

\* Contexts are built: the count is the current one.
LEMMA BuildKeepsRate ==
  ASSUME TypeInv, RateInv, NEW reading, BuildContexts(reading)
  PROVE  RateInv'
<1>1. /\ contexts'.built /\ contexts'.recent = recent
      /\ contexts'.for = NextIntents(plan)
      /\ queue = {} /\ plan # NoPlan
      /\ UNCHANGED <<plan, queue, recent, lifecycle>>
  BY DEF BuildContexts, storeVars
<1>2. \E k \in {1, 2} : NextIntents(plan) \subseteq Phases(plan)[k]
  BY DueInOnePhase DEF BuildContexts
<1> QED
  BY <1>1, <1>2 DEF RateInv, PhaseInv, RateExceededWithinPhase, TypeInv, RTypeOK

\* The submission of a phase begins.
LEMMA SubmitPhaseKeepsRate ==
  ASSUME TypeInv, RateInv, SubmitNextPhase
  PROVE  RateInv'
<1>1. /\ contexts.built /\ queue = {} /\ queue' = NextIntents(plan)
      /\ NextIntents(plan) \subseteq contexts.for
      /\ UNCHANGED <<plan, contexts, recent, lifecycle>>
  BY DEF SubmitNextPhase, storeVars
<1>2. queue' \cap DOMAIN lifecycle = {}
  <2>1. \A x \in DOMAIN lifecycle : lifecycle[x] # Unknown
    BY DEF TypeInv, RTypeOK, Unknown, Statuses
  <2> QED
    BY <1>1, <2>1, DueInOnePhase DEF SubmitNextPhase
<1>3. \A y \in queue' : recent < contexts.recent + y.instrument
  <2>1. recent =< contexts.recent /\ recent \in Nat /\ contexts.recent \in Nat
    BY <1>1 DEF RateInv, PhaseInv, TypeInv, RTypeOK
  <2>2. \A y \in queue' : y \in Intents
    BY <1>1, DueInOnePhase DEF SubmitNextPhase, TypeInv, PlanFits
  <2>3. \A y \in queue' : y.instrument \in Nat /\ y.instrument >= 1
    BY <2>2, IntentTypes, BoundsAssumption DEF Instruments
  <2> QED
    BY <2>1, <2>3
<1> QED
  BY <1>1, <1>2, <1>3 DEF RateInv, PhaseInv, RateExceededWithinPhase

\* One order is submitted.  The orders left are for later targets.
LEMMA SubmitKeepsRate ==
  ASSUME TypeInv, RateInv, NEW x \in queue, Submit(x)
  PROVE  RateInv'
<1>1. CASE GatewayBlocks(x) \/ RiskRejects(x) \/ BrokerRefuses(x) \/ AcceptanceLost(x)
  <2>1. queue' = {} /\ ~contexts'.built /\ recent' = recent
    BY <1>1 DEF GatewayBlocks, RiskRejects, BrokerRefuses, AcceptanceLost,
       EndPhase, NoContexts, storeVars
  <2> QED
    BY <2>1 DEF RateInv, PhaseInv, RateExceededWithinPhase
<1>2. CASE BrokerAccepts(x)
  <2>1. /\ recent \in Nat /\ contexts.recent \in Nat
        /\ recent < contexts.recent + x.instrument
        /\ queue \subseteq contexts.for
    BY DEF RateInv, PhaseInv, TypeInv, RTypeOK
  <2>2. queue \subseteq Intents
    BY DEF TypeInv, RTypeOK
  <2>3. \A y \in queue : y.instrument \in 1..Targets
    BY <2>2, IntentTypes DEF Instruments
  <2>4. \A y \in queue \ {x} : x.instrument < y.instrument
    <3>1. PICK k \in {1, 2} : contexts.for \subseteq Phases(plan)[k]
      BY DEF RateInv, PhaseInv
    <3>2. \A y \in queue \ {x} : y.instrument # x.instrument
      BY <2>1, <3>1, OneOrderEach
    <3>3. \A y \in queue : x.instrument =< y.instrument
      BY <1>2 DEF BrokerAccepts, IsNext
    <3> QED
      BY <2>3, <3>2, <3>3, BoundsAssumption
  <2>5. recent' = recent + 1 /\ queue' = queue \ {x} /\ plan' = plan
    BY <1>2 DEF BrokerAccepts
  <2>6. \A y \in queue' : recent' < contexts.recent + y.instrument
    BY <2>1, <2>3, <2>4, <2>5, BoundsAssumption
  <2>7. recent' < Limits.maxOrdersPerWindow + Targets
    <3>1. contexts.recent < Limits.maxOrdersPerWindow
      <4>1. ~RateLimitReached(Limits, contexts.recent)
        BY <1>2 DEF BrokerAccepts, RiskApproves, Approves, ContextOf
      <4> QED
        BY <2>1, <4>1, LimitsAssumption DEF RateLimitReached
    <3> QED
      BY <2>1, <2>3, <2>5, <3>1, BoundsAssumption, LimitsAssumption
  <2>8. queue' \cap DOMAIN lifecycle' = {}
    <3>1. DOMAIN lifecycle' = DOMAIN lifecycle \cup {x}
      BY <1>2, SaveChangesOne DEF BrokerAccepts
    <3> QED
      BY <2>5, <3>1 DEF RateInv, PhaseInv
  <2>9. contexts' = IF queue' = {} THEN NoContexts ELSE contexts
    BY <1>2 DEF BrokerAccepts
  <2>10. CASE contexts' = contexts /\ queue' # {}
    BY <2>1, <2>5, <2>6, <2>7, <2>8, <2>10
       DEF RateInv, PhaseInv, RateExceededWithinPhase
  <2>11. CASE contexts' = NoContexts /\ queue' = {}
    BY <2>7, <2>11
       DEF RateInv, PhaseInv, RateExceededWithinPhase, NoContexts
  <2> QED
    BY <2>9, <2>10, <2>11
<1> QED
  BY <1>1, <1>2 DEF Submit

LEMMA RateStep == TypeInv /\ RateInv /\ [Next]_vars => RateInv'
<1> SUFFICES ASSUME TypeInv, RateInv, [Next]_vars PROVE RateInv'
  OBVIOUS
<1>1. ASSUME NEW prefix, NEW target, Plan(prefix, target) PROVE RateInv'
  BY <1>1 DEF Plan, storeVars, NoContexts, RateInv, PhaseInv,
     RateExceededWithinPhase
<1>2. ASSUME NEW reading, BuildContexts(reading) PROVE RateInv'
  BY <1>2, BuildKeepsRate
<1>3. CASE SubmitNextPhase
  BY <1>3, SubmitPhaseKeepsRate
<1>4. ASSUME NEW x \in queue, Submit(x) PROVE RateInv'
  BY <1>4, SubmitKeepsRate
<1>5. ASSUME NEW x \in DOMAIN live,
             \/ \E q \in 1..MaxQuantity : Fill(x, q)
             \/ RequestCancel(x) \/ BrokerEnds(x)
      PROVE  RateInv'
  <2>1. UNCHANGED <<callerVars, recent>>
    BY <1>5 DEF Fill, RequestCancel, BrokerEnds, BrokerCancels, BrokerRejects
  <2> QED
    BY <1>5, <2>1, EventsKeepDomain
       DEF callerVars, RateInv, PhaseInv, RateExceededWithinPhase
<1>6. CASE WindowPasses
  <2>1. /\ recent \in Nat /\ recent' = recent - 1 /\ recent > 0
        /\ UNCHANGED <<plan, contexts, queue, lifecycle>>
    BY <1>6 DEF WindowPasses, callerVars, TypeInv, RTypeOK
  <2>2. recent' < Limits.maxOrdersPerWindow + Targets
    BY <2>1, BoundsAssumption, LimitsAssumption
       DEF RateInv, RateExceededWithinPhase
  <2>3. contexts.built => \A y \in queue : recent' < contexts.recent + y.instrument
    <3>1. \A y \in queue : y.instrument \in Int
      BY IntentTypes, BoundsAssumption DEF TypeInv, RTypeOK, Instruments
    <3> QED
      BY <2>1, <3>1 DEF RateInv, PhaseInv
  <2> QED
    BY <2>1, <2>2, <2>3 DEF RateInv, PhaseInv, RateExceededWithinPhase
<1>7. CASE Crash
  BY <1>7 DEF Crash, storeVars, NoContexts, RateInv, PhaseInv,
     RateExceededWithinPhase
<1>8. CASE UNCHANGED vars
  BY <1>8 DEF vars, callerVars, storeVars, RateInv, PhaseInv,
     RateExceededWithinPhase
<1> QED
  BY <1>1, <1>2, <1>3, <1>4, <1>5, <1>6, <1>7, <1>8 DEF Next

LEMMA RateInductive == Spec => []RateInv
BY TypesInductive, RateInit, RateStep, PTL DEF Spec

\* RateExceededWithinPhase: the orders in the rate window are fewer than the
\* limit plus the number of targets, although a phase is checked against one
\* count.
THEOREM RateBoundedByPhase == Spec => []RateExceededWithinPhase
<1>1. RateInv => RateExceededWithinPhase
  BY DEF RateInv
<1> QED
  BY <1>1, RateInductive, PTL

-----------------------------------------------------------------------------
(* Self-matching.  An open order has a lifecycle that is not ahead of the  *)
(* broker, and what is working now was working when the contexts were      *)
(* built or belongs to the phase in submission.                            *)

Ending(x) == Load(x).status \in {"pending_cancel", "rejected"}

BookInv ==
  \A x \in DOMAIN live :
    /\ x \in DOMAIN lifecycle
    /\ lifecycle[x].filled =< live[x]
    /\ Ending(x) \/ x \in WorkingRecords

MatchInv ==
  /\ contexts.built => WorkingRecords \subseteq contexts.working \cup contexts.for
  /\ MatchableOnlyWhenEnding

LEMMA BookInit == Init => BookInv /\ MatchInv
<1> SUFFICES ASSUME Init PROVE BookInv /\ MatchInv
  OBVIOUS
<1>1. DOMAIN live = {} /\ ~contexts.built
  BY DEF Init, NoContexts
<1> QED
  BY <1>1 DEF BookInv, MatchInv, MatchableOnlyWhenEnding

\* Nothing but a fill, a request or a submission touches files and book.
LEMMA BookUntouched ==
  ASSUME BookInv, UNCHANGED <<lifecycle, activity, live>>
  PROVE  /\ BookInv'
         /\ WorkingRecords' = WorkingRecords
         /\ MatchableOnlyWhenEnding => MatchableOnlyWhenEnding'
<1>1. \A y : Load(y)' = Load(y)
  BY LoadUnchanged
<1>2. WorkingRecords' = WorkingRecords
  BY <1>1 DEF WorkingRecords
<1> QED
  BY <1>1, <1>2 DEF BookInv, Ending, MatchableOnlyWhenEnding

\* A lifecycle saved for one order leaves the records of the others.
LEMMA OtherRecords ==
  ASSUME NEW x, NEW lc, Save(x, lc), activity' \in {activity, activity \cup {x}}
  PROVE  /\ \A y : y # x => (y \in WorkingRecords' <=> y \in WorkingRecords)
         /\ \A y : y # x => (Ending(y)' <=> Ending(y))
         /\ x \in WorkingRecords' <=>
              x \in activity' /\ lc.status \in {"working", "partially_filled"}
         /\ Ending(x)' <=> lc.status \in {"pending_cancel", "rejected"}
<1>1. Load(x)' = lc /\ \A y : y # x => Load(y)' = Load(y)
  BY SaveChangesOne
<1> QED
  BY <1>1 DEF WorkingRecords, Ending

LEMMA SubmitKeepsBook ==
  ASSUME TypeInv, RateInv, BookInv, NEW x \in queue, Submit(x)
  PROVE  BookInv'
<1>1. x \notin DOMAIN live /\ x \notin DOMAIN lifecycle
  BY DEF RateInv, PhaseInv, BookInv
<1>2. CASE GatewayBlocks(x)
  BY <1>2, BookUntouched DEF GatewayBlocks, storeVars, brokerVars
<1>3. CASE RiskRejects(x) \/ BrokerRefuses(x)
  <2>1. /\ Save(x, MarkRejected(PendingSubmit))
        /\ activity' = activity /\ live' = live
    BY <1>3 DEF RiskRejects, BrokerRefuses, brokerVars
  <2>2. /\ DOMAIN lifecycle' = DOMAIN lifecycle \cup {x}
        /\ \A y \in DOMAIN lifecycle : y # x => lifecycle'[y] = lifecycle[y]
    BY <2>1, SaveChangesOne
  <2>3. /\ \A y : y # x => (y \in WorkingRecords' <=> y \in WorkingRecords)
        /\ \A y : y # x => (Ending(y)' <=> Ending(y))
    BY <2>1, OtherRecords
  <2> QED
    BY <1>1, <2>1, <2>2, <2>3 DEF BookInv
<1>4. ASSUME NEW lc \in {MarkWorking(PendingSubmit), MarkRejected(PendingSubmit)},
             Save(x, lc), Open(x), activity' \in {activity, activity \cup {x}},
             lc = MarkWorking(PendingSubmit) => x \in activity'
      PROVE  BookInv'
  <2>1. /\ DOMAIN lifecycle' = DOMAIN lifecycle \cup {x}
        /\ lifecycle'[x] = lc
        /\ \A y \in DOMAIN lifecycle : y # x => lifecycle'[y] = lifecycle[y]
    BY <1>4, SaveChangesOne
  <2>2. /\ DOMAIN live' = DOMAIN live \cup {x}
        /\ live'[x] = 0
        /\ \A y \in DOMAIN live : y # x => live'[y] = live[y]
    BY <1>4, OpenAddsOne
  <2>3. lc.filled = 0
    BY <1>4 DEF MarkWorking, MarkRejected, PendingSubmit
  <2>4. Ending(x)' \/ x \in WorkingRecords'
    BY <1>4, OtherRecords DEF MarkWorking, MarkRejected, PendingSubmit
  <2>5. /\ \A y : y # x => (y \in WorkingRecords' <=> y \in WorkingRecords)
        /\ \A y : y # x => (Ending(y)' <=> Ending(y))
    BY <1>4, OtherRecords
  <2> QED
    BY <2>1, <2>2, <2>3, <2>4, <2>5 DEF BookInv
<1>5. MarkWorking(PendingSubmit) # MarkRejected(PendingSubmit)
  BY DEF MarkWorking, MarkRejected, PendingSubmit
<1> QED
  BY <1>2, <1>3, <1>4, <1>5 DEF Submit, BrokerAccepts, AcceptanceLost

LEMMA FillKeepsBook ==
  ASSUME TypeInv, BookInv, NEW x \in DOMAIN live, NEW q \in 1..MaxQuantity,
         Fill(x, q)
  PROVE  BookInv'
<1>1. /\ DOMAIN live' = IF live[x] + q = x.quantity
                        THEN DOMAIN live \ {x} ELSE DOMAIN live
      /\ x \in DOMAIN live' => live'[x] = live[x] + q
      /\ \A y \in DOMAIN live' : y # x => live'[y] = live[y]
  BY FillMovesOne DEF Fill
<1>2. /\ x \in Intents /\ x.quantity \in Nat /\ q \in Nat /\ live[x] \in Nat
      /\ lifecycle[x].filled \in Nat /\ lifecycle[x].filled =< live[x]
      /\ x \in DOMAIN lifecycle /\ Load(x) = lifecycle[x]
  <2>1. x \in Intents /\ live[x] \in 0..(x.quantity - 1) /\ x \in DOMAIN lifecycle
    BY DEF TypeInv, RTypeOK, BookInv
  <2>2. lifecycle[x].filled \in 0..x.quantity
    BY <2>1 DEF TypeInv, RTypeOK
  <2> QED
    BY <2>1, <2>2, IntentTypes, BoundsAssumption DEF BookInv, Load
<1>3. activity' = activity /\ live[x] + q =< x.quantity
  BY DEF Fill
<1>4. CASE /\ x \in activity
           /\ CanRecordFill(Load(x), q, x.quantity)
           /\ Save(x, RecordFill(Load(x), q, x.quantity))
  <2> DEFINE lc == RecordFill(Load(x), q, x.quantity)
  <2>1. /\ DOMAIN lifecycle' = DOMAIN lifecycle \cup {x}
        /\ lifecycle'[x] = lc
        /\ \A y \in DOMAIN lifecycle : y # x => lifecycle'[y] = lifecycle[y]
    BY <1>4, SaveChangesOne
  <2>2. /\ \A y : y # x => (y \in WorkingRecords' <=> y \in WorkingRecords)
        /\ \A y : y # x => (Ending(y)' <=> Ending(y))
        /\ x \in WorkingRecords' <=>
              x \in activity' /\ lc.status \in {"working", "partially_filled"}
    BY <1>3, <1>4, OtherRecords
  <2>3. ASSUME x \in DOMAIN live'
        PROVE  lc.filled =< live'[x] /\ x \in WorkingRecords'
    <3>1. lc.filled = lifecycle[x].filled + q
      BY <1>2 DEF RecordFill
    <3>2. lc.filled =< live[x] + q /\ live[x] + q # x.quantity
      BY <1>1, <1>2, <2>3, <3>1
    <3>3. lc.filled # x.quantity
      BY <1>2, <1>3, <3>1, <3>2
    <3>4. lc.status = "partially_filled"
      BY <1>2, <3>1, <3>3 DEF RecordFill
    <3> QED
      BY <1>1, <1>3, <1>4, <2>2, <2>3, <3>2, <3>4
  <2> HIDE DEF lc
  <2> QED
    BY <1>1, <2>1, <2>2, <2>3 DEF BookInv
<1>5. CASE UNCHANGED lifecycle
  <2>1. \A y : Load(y)' = Load(y)
    BY <1>5, LoadUnchanged
  <2>2. \A y : /\ Ending(y)' <=> Ending(y)
               /\ y \in WorkingRecords' <=> y \in WorkingRecords
    BY <1>3, <2>1 DEF Ending, WorkingRecords
  <2>3. x \in DOMAIN live' => lifecycle[x].filled =< live'[x]
    BY <1>1, <1>2
  <2> QED
    BY <1>1, <1>5, <2>2, <2>3 DEF BookInv
<1> QED
  BY <1>4, <1>5 DEF Fill

LEMMA EndKeepsBook ==
  ASSUME TypeInv, BookInv, NEW x \in DOMAIN live,
         RequestCancel(x) \/ BrokerEnds(x)
  PROVE  BookInv'
<1>1. x \in DOMAIN lifecycle /\ activity' = activity
  BY DEF BookInv, RequestCancel, BrokerEnds, BrokerCancels, BrokerRejects
<1>2. CASE RequestCancel(x)
  <2>1. Save(x, MarkPendingCancel(Load(x))) /\ live' = live
    BY <1>2 DEF RequestCancel, brokerVars
  <2>2. /\ DOMAIN lifecycle' = DOMAIN lifecycle \cup {x}
        /\ lifecycle'[x] = MarkPendingCancel(Load(x))
        /\ \A y \in DOMAIN lifecycle : y # x => lifecycle'[y] = lifecycle[y]
    BY <2>1, SaveChangesOne
  <2>3. /\ Load(x) = lifecycle[x]
        /\ lifecycle[x] \in [status : Statuses, filled : 0..x.quantity]
    BY <1>1 DEF Load, TypeInv, RTypeOK
  <2>4. /\ MarkPendingCancel(Load(x)).status = "pending_cancel"
        /\ MarkPendingCancel(Load(x)).filled = lifecycle[x].filled
    BY <2>3 DEF MarkPendingCancel
  <2>5. /\ \A y : y # x => (y \in WorkingRecords' <=> y \in WorkingRecords)
        /\ \A y : y # x => (Ending(y)' <=> Ending(y))
        /\ Ending(x)'
    BY <1>1, <2>1, <2>4, OtherRecords
  <2> QED
    BY <2>1, <2>2, <2>4, <2>5 DEF BookInv
<1>3. CASE BrokerEnds(x)
  <2>1. /\ DOMAIN live' = DOMAIN live \ {x}
        /\ \A y \in DOMAIN live' : live'[y] = live[y]
    BY <1>3, CloseRemovesOne DEF BrokerEnds, BrokerCancels, BrokerRejects
  <2>2. CASE UNCHANGED lifecycle
    <3>1. \A y : Load(y)' = Load(y)
      BY <2>2, LoadUnchanged
    <3> QED
      BY <1>1, <2>1, <2>2, <3>1 DEF BookInv, Ending, WorkingRecords
  <2>3. ASSUME NEW lc, Save(x, lc)
        PROVE  BookInv'
    <3>1. /\ DOMAIN lifecycle' = DOMAIN lifecycle \cup {x}
          /\ \A y \in DOMAIN lifecycle : y # x => lifecycle'[y] = lifecycle[y]
      BY <2>3, SaveChangesOne
    <3>2. /\ \A y : y # x => (y \in WorkingRecords' <=> y \in WorkingRecords)
          /\ \A y : y # x => (Ending(y)' <=> Ending(y))
      BY <1>1, <2>3, OtherRecords
    <3> QED
      BY <2>1, <3>1, <3>2 DEF BookInv
  <2> QED
    BY <1>3, <2>2, <2>3 DEF BrokerEnds, BrokerCancels, BrokerRejects
<1> QED
  BY <1>2, <1>3

LEMMA BookStep == TypeInv /\ RateInv /\ BookInv /\ [Next]_vars => BookInv'
<1> SUFFICES ASSUME TypeInv, RateInv, BookInv, [Next]_vars PROVE BookInv'
  OBVIOUS
<1>1. CASE UNCHANGED <<lifecycle, activity, live>>
  BY <1>1, BookUntouched
<1>2. ASSUME NEW x \in queue, Submit(x) PROVE BookInv'
  BY <1>2, SubmitKeepsBook
<1>3. ASSUME NEW x \in DOMAIN live, NEW q \in 1..MaxQuantity, Fill(x, q)
      PROVE  BookInv'
  BY <1>3, FillKeepsBook
<1>4. ASSUME NEW x \in DOMAIN live, RequestCancel(x) \/ BrokerEnds(x)
      PROVE  BookInv'
  BY <1>4, EndKeepsBook
<1> QED
  BY <1>1, <1>2, <1>3, <1>4
     DEF Next, Plan, BuildContexts, SubmitNextPhase, WindowPasses, Crash, vars,
         storeVars, brokerVars

\* A broker update or a cancel request makes no record working, keeps an
\* ending order ending while it is open, and opens nothing.
LEMMA EventsKeepEnding ==
  ASSUME TypeInv, BookInv, NEW x \in DOMAIN live,
         (\E q \in 1..MaxQuantity : Fill(x, q)) \/ RequestCancel(x) \/ BrokerEnds(x)
  PROVE  /\ WorkingRecords' \subseteq WorkingRecords
         /\ DOMAIN live' \subseteq DOMAIN live
         /\ \A y \in DOMAIN live' : Ending(y) => Ending(y)'
<1>1. activity' = activity /\ DOMAIN live' \subseteq DOMAIN live
  BY FillMovesOne, CloseRemovesOne DEF Fill, RequestCancel, BrokerEnds,
     BrokerCancels, BrokerRejects, brokerVars
<1>2. CASE UNCHANGED lifecycle
  <2>1. \A y : Load(y)' = Load(y)
    BY <1>2, LoadUnchanged
  <2> QED
    BY <1>1, <2>1 DEF WorkingRecords, Ending
<1>3. ASSUME NEW lc, Save(x, lc),
             Load(x).status \in {"working", "partially_filled"} \/ x \notin DOMAIN live',
             x \in activity /\ lc.status \in {"working", "partially_filled"}
               => Load(x).status \in {"working", "partially_filled"}
      PROVE  /\ WorkingRecords' \subseteq WorkingRecords
             /\ \A y \in DOMAIN live' : Ending(y) => Ending(y)'
  <2>1. /\ \A y : y # x => (y \in WorkingRecords' <=> y \in WorkingRecords)
        /\ \A y : y # x => (Ending(y)' <=> Ending(y))
        /\ x \in WorkingRecords' <=>
             x \in activity' /\ lc.status \in {"working", "partially_filled"}
    BY <1>1, <1>3, OtherRecords
  <2>2. x \in WorkingRecords' => x \in WorkingRecords
    BY <1>1, <1>3, <2>1 DEF WorkingRecords
  <2>3. x \in DOMAIN live' => ~Ending(x)
    BY <1>3 DEF Ending
  <2> QED
    BY <2>1, <2>2, <2>3
<1>4. ASSUME NEW q \in 1..MaxQuantity, Fill(x, q), ~UNCHANGED lifecycle
      PROVE  /\ WorkingRecords' \subseteq WorkingRecords
             /\ \A y \in DOMAIN live' : Ending(y) => Ending(y)'
  <2>1. /\ CanRecordFill(Load(x), q, x.quantity)
        /\ Save(x, RecordFill(Load(x), q, x.quantity))
    BY <1>4 DEF Fill
  <2> QED
    BY <1>3, <2>1 DEF CanRecordFill
<1>5. CASE RequestCancel(x)
  <2>1. /\ Load(x).status \in {"working", "partially_filled"}
        /\ Save(x, MarkPendingCancel(Load(x)))
    BY <1>5 DEF RequestCancel, CanMarkPendingCancel
  <2> QED
    BY <1>1, <1>3, <2>1
<1>6. CASE BrokerEnds(x) /\ ~UNCHANGED lifecycle
  <2>1. Load(x) \in [status : Statuses, filled : 0..x.quantity]
    BY DEF TypeInv, RTypeOK, BookInv, Load
  <2>2. /\ MarkCanceled(Load(x)).status = "canceled"
        /\ MarkRejected(Load(x)).status = "rejected"
    BY <2>1 DEF MarkCanceled, MarkRejected
  <2>3. x \notin DOMAIN live'
    BY <1>6, CloseRemovesOne DEF BrokerEnds, BrokerCancels, BrokerRejects
  <2>4. CASE Save(x, MarkCanceled(Load(x)))
    BY <1>1, <1>3, <2>2, <2>3, <2>4
  <2>5. CASE Save(x, MarkRejected(Load(x)))
    BY <1>1, <1>3, <2>2, <2>3, <2>5
  <2> QED
    BY <1>6, <2>4, <2>5 DEF BrokerEnds, BrokerCancels, BrokerRejects
<1> QED
  BY <1>1, <1>2, <1>4, <1>5, <1>6

\* Matching does not depend on which order came first.
LEMMA CouldMatchSymmetric ==
  ASSUME NEW x \in Intents, NEW y \in Intents, CouldMatch(x, y)
  PROVE  CouldMatch(y, x)
<1>1. /\ x.price = LimitPrice /\ y.price = LimitPrice
      /\ x.side \in {"buy", "sell"} /\ y.side \in {"buy", "sell"}
  BY IntentTypes DEF Intents
<1> QED
  BY <1>1, PriceAssumption DEF CouldMatch, NoPrice

\* An order is accepted: among the working orders that the contexts do not
\* know there is none for its instrument.
LEMMA AcceptKeepsMatch ==
  ASSUME TypeInv, RateInv, BookInv, MatchInv, NEW x \in queue, BrokerAccepts(x)
  PROVE  MatchInv'
<1>1. /\ x \in Intents /\ x \notin DOMAIN lifecycle /\ x \notin DOMAIN live
      /\ DOMAIN live \subseteq Intents
      /\ contexts.built /\ x \in contexts.for
  BY DEF TypeInv, RTypeOK, RateInv, PhaseInv, BookInv
<1>2. /\ Save(x, MarkWorking(PendingSubmit)) /\ activity' = activity \cup {x}
      /\ contexts' = contexts \/ contexts' = NoContexts
  BY DEF BrokerAccepts
<1>3. DOMAIN live' = DOMAIN live \cup {x}
  BY OpenAddsOne DEF BrokerAccepts
<1>4. /\ \A y : y # x => (y \in WorkingRecords' <=> y \in WorkingRecords)
      /\ \A y : y # x => (Ending(y)' <=> Ending(y))
  BY <1>2, OtherRecords
<1>5. contexts'.built => WorkingRecords' \subseteq contexts'.working \cup contexts'.for
  BY <1>1, <1>2, <1>4 DEF MatchInv, NoContexts
<1>6. ASSUME NEW y \in DOMAIN live, CouldMatch(x, y)
      PROVE  Ending(y)
  <2>1. x.instrument = y.instrument
    BY <1>6 DEF CouldMatch
  <2>2. y \notin contexts.for
    <3>1. PICK k \in {1, 2} : contexts.for \subseteq Phases(plan)[k]
      BY <1>1 DEF RateInv, PhaseInv
    <3> QED
      BY <1>1, <2>1, <3>1, OneOrderEach
  <2>3. ~HasPotentialSelfMatch(x, ContextOf(x).working)
    BY DEF BrokerAccepts, RiskApproves, Approves
  <2>4. ContextOf(x).working =
          {w \in contexts.working : w.instrument = x.instrument /\ w # x}
    BY DEF ContextOf
  <2>5. y \notin contexts.working
    BY <1>1, <1>6, <2>1, <2>3, <2>4 DEF HasPotentialSelfMatch
  <2>6. y \notin WorkingRecords
    BY <1>1, <2>2, <2>5 DEF MatchInv
  <2> QED
    BY <2>6 DEF BookInv
<1>7. \A y : ~CouldMatch(y, y)
  BY DEF CouldMatch
<1>8. ASSUME NEW y \in DOMAIN live', NEW z \in DOMAIN live', CouldMatch(y, z)
      PROVE  Ending(y)' \/ Ending(z)'
  <2>1. CASE y # x /\ z # x
    BY <1>3, <1>4, <1>8, <2>1 DEF MatchInv, MatchableOnlyWhenEnding, Ending
  <2>2. CASE y = x
    BY <1>3, <1>4, <1>6, <1>7, <1>8, <2>2
  <2>3. CASE z = x
    <3>1. CouldMatch(x, y) /\ y \in DOMAIN live
      BY <1>1, <1>3, <1>7, <1>8, <2>3, CouldMatchSymmetric
    <3> QED
      BY <1>4, <1>6, <1>7, <3>1
  <2> QED
    BY <2>1, <2>2, <2>3
<1> QED
  BY <1>5, <1>8 DEF MatchInv, MatchableOnlyWhenEnding, Ending

LEMMA MatchStep ==
  TypeInv /\ RateInv /\ BookInv /\ MatchInv /\ [Next]_vars => MatchInv'
<1> SUFFICES ASSUME TypeInv, RateInv, BookInv, MatchInv, [Next]_vars
             PROVE  MatchInv'
  OBVIOUS
<1>1. CASE /\ UNCHANGED <<lifecycle, activity, live>>
           /\ \/ contexts' = contexts \/ ~contexts'.built
              \/ \E reading : BuildContexts(reading)
  BY <1>1, BookUntouched DEF MatchInv, BuildContexts
<1>2. ASSUME NEW x \in queue, BrokerAccepts(x) PROVE MatchInv'
  BY <1>2, AcceptKeepsMatch
<1>3. ASSUME NEW x \in queue,
             RiskRejects(x) \/ BrokerRefuses(x) \/ AcceptanceLost(x)
      PROVE  MatchInv'
  <2>1. /\ Save(x, MarkRejected(PendingSubmit)) /\ activity' = activity
        /\ ~contexts'.built
        /\ Open(x) \/ live' = live
    BY <1>3 DEF RiskRejects, BrokerRefuses, AcceptanceLost, EndPhase,
       NoContexts, brokerVars
  <2>2. MarkRejected(PendingSubmit).status = "rejected"
    BY DEF MarkRejected, PendingSubmit
  <2>3. Ending(x)' /\ \A y : y # x => (Ending(y)' <=> Ending(y))
    BY <2>1, <2>2, OtherRecords
  <2>4. DOMAIN live' \subseteq DOMAIN live \cup {x}
    BY <2>1, OpenAddsOne
  <2> QED
    BY <2>1, <2>3, <2>4 DEF MatchInv, MatchableOnlyWhenEnding, Ending
<1>4. ASSUME NEW x \in DOMAIN live,
             \/ \E q \in 1..MaxQuantity : Fill(x, q)
             \/ RequestCancel(x) \/ BrokerEnds(x)
      PROVE  MatchInv'
  <2>1. contexts' = contexts
    BY <1>4 DEF Fill, RequestCancel, BrokerEnds, BrokerCancels, BrokerRejects,
       callerVars
  <2>2. /\ WorkingRecords' \subseteq WorkingRecords
        /\ DOMAIN live' \subseteq DOMAIN live
        /\ \A y \in DOMAIN live' : Ending(y) => Ending(y)'
    BY <1>4, EventsKeepEnding
  <2>3. ASSUME NEW y \in DOMAIN live', NEW z \in DOMAIN live', CouldMatch(y, z)
        PROVE  Ending(y)' \/ Ending(z)'
    BY <2>2, <2>3 DEF MatchInv, MatchableOnlyWhenEnding, Ending
  <2> QED
    BY <2>1, <2>2, <2>3 DEF MatchInv, MatchableOnlyWhenEnding, Ending
<1>5. ASSUME NEW x \in queue, GatewayBlocks(x) PROVE MatchInv'
  BY <1>1, <1>5 DEF GatewayBlocks, EndPhase, NoContexts, storeVars, brokerVars
<1>6. ASSUME NEW prefix, NEW target, Plan(prefix, target) PROVE MatchInv'
  BY <1>1, <1>6 DEF Plan, NoContexts, storeVars, brokerVars
<1>7. ASSUME NEW reading, BuildContexts(reading) PROVE MatchInv'
  <2>1. UNCHANGED <<lifecycle, activity, live>>
    BY <1>7 DEF BuildContexts, storeVars, brokerVars
  <2> QED
    BY <1>1, <1>7, <2>1
<1>8. CASE SubmitNextPhase \/ WindowPasses \/ UNCHANGED vars
  BY <1>1, <1>8 DEF SubmitNextPhase, WindowPasses, vars, callerVars, storeVars,
     brokerVars
<1>9. CASE Crash
  BY <1>1, <1>9 DEF Crash, NoContexts, storeVars, brokerVars
<1> QED
  BY <1>2, <1>3, <1>4, <1>5, <1>6, <1>7, <1>8, <1>9 DEF Next, Submit

\* MatchableOnlyWhenEnding: of two open orders that could be matched with each
\* other one is ending, although the contexts of a phase are older than its
\* orders.
THEOREM NoSelfMatch == Spec => []MatchableOnlyWhenEnding
<1>1. MatchInv => MatchableOnlyWhenEnding
  BY DEF MatchInv
<1> QED
  BY <1>1, TypesInductive, RateInductive, BookInit, BookStep, MatchStep, PTL
     DEF Spec

-----------------------------------------------------------------------------
(* The orders of one instrument: two for a reversal, otherwise one, or     *)
(* none when the position is at its target.                                *)

Reverses(p, i) == IsPositionReversal(p.start[i], p.target[i])
FlattenOf(p, i) == FlattenIntent(p.prefix, i, p.start[i])
OpenOf(p, i) == OpenIntent(p.prefix, i, p.start[i], p.target[i])
OrderOf(p, i) == PlanOrderToTarget(p.prefix, i, p.start[i], p.target[i])

IsOrderOf(x, p, i) ==
  \/ Reverses(p, i) /\ (x = FlattenOf(p, i) \/ x = OpenOf(p, i))
  \/ ~Reverses(p, i) /\ p.start[i] # p.target[i] /\ x = OrderOf(p, i)

\* What an order can still fill at the broker, and what it has filled
\* according to its lifecycle.
Left(x) ==
  IF x \in DOMAIN live THEN x.quantity - live[x]
  ELSE IF x \in DOMAIN lifecycle THEN 0 ELSE x.quantity

Done(x) == Load(x).filled

LeftFor(p, i) ==
  IF Reverses(p, i) THEN Left(FlattenOf(p, i)) + Left(OpenOf(p, i))
  ELSE IF p.start[i] = p.target[i] THEN 0 ELSE Left(OrderOf(p, i))

DoneFor(p, i) ==
  IF Reverses(p, i) THEN Done(FlattenOf(p, i)) + Done(OpenOf(p, i))
  ELSE IF p.start[i] = p.target[i] THEN 0 ELSE Done(OrderOf(p, i))

-----------------------------------------------------------------------------
(* The inductive invariant.                                                *)

OnCourse(p, i) ==
  IF p.start[i] =< p.target[i]
  THEN /\ position[i] = p.start[i] + DoneFor(p, i)
       /\ position[i] =< held[i]
       /\ held[i] + LeftFor(p, i) =< p.target[i]
  ELSE /\ position[i] = p.start[i] - DoneFor(p, i)
       /\ held[i] =< position[i]
       /\ p.target[i] =< held[i] - LeftFor(p, i)

CourseInv ==
  undisturbed =>
    \A p \in {plan} \ {NoPlan} :
      /\ DOMAIN live \subseteq PlanIntents(p)
      /\ \A i \in Instruments : OnCourse(p, i)

\* A filled lifecycle holds the whole order.
FilledInv ==
  \A x \in DOMAIN lifecycle :
    lifecycle[x].status = "filled" => lifecycle[x].filled = x.quantity

\* Orders of the second phase wait for the first.
OrderInv ==
  undisturbed =>
    \A p \in {plan} \ {NoPlan} :
      Phases(p)[2] \cap (DOMAIN lifecycle \cup queue) # {}
        => PhaseIsFilled(Phases(p)[1])

-----------------------------------------------------------------------------
(* Planning.                                                               *)

IsPlan(p) == /\ p.start \in [Instruments -> Int]
             /\ p.target \in [Instruments -> Int]

\* An order of an instrument is on the side of its target.
LEMMA OrderFields ==
  ASSUME NEW p, IsPlan(p), NEW i \in Instruments, NEW x, IsOrderOf(x, p, i)
  PROVE  /\ x.instrument = i
         /\ x.prefix = p.prefix
         /\ p.start[i] < p.target[i] => x.side = "buy"
         /\ p.target[i] < p.start[i] => x.side = "sell"
         /\ p.start[i] # p.target[i]
<1>1. p.start[i] \in Int /\ p.target[i] \in Int
  BY DEF IsPlan
<1>2. \A side, quantity, suffix :
        /\ BuildOrderIntent(p.prefix, i, side, quantity, suffix).instrument = i
        /\ BuildOrderIntent(p.prefix, i, side, quantity, suffix).prefix = p.prefix
        /\ BuildOrderIntent(p.prefix, i, side, quantity, suffix).side = side
  BY DEF BuildOrderIntent
<1>3. CASE Reverses(p, i)
  <2>1. x = FlattenOf(p, i) \/ x = OpenOf(p, i)
    BY <1>3 DEF IsOrderOf
  <2>2. /\ x.instrument = i /\ x.prefix = p.prefix
        /\ x.side = ReversalSide(p.start[i])
    BY <1>2, <2>1 DEF FlattenOf, OpenOf, FlattenIntent, OpenIntent
  <2> QED
    BY <1>1, <1>3, <2>2 DEF Reverses, IsPositionReversal, ReversalSide
<1>4. CASE ~Reverses(p, i)
  <2>1. p.start[i] # p.target[i] /\ x = OrderOf(p, i)
    BY <1>4 DEF IsOrderOf
  <2> DEFINE side == IF p.target[i] > p.start[i] THEN "buy" ELSE "sell"
  <2>2. x = BuildOrderIntent(p.prefix, i, side, Abs(p.target[i] - p.start[i]), "")
    BY <2>1 DEF OrderOf, PlanOrderToTarget
  <2>3. /\ p.start[i] < p.target[i] => side = "buy"
        /\ p.target[i] < p.start[i] => side = "sell"
    BY <1>1
  <2> HIDE DEF side
  <2>4. x.instrument = i /\ x.prefix = p.prefix /\ x.side = side
    BY <2>2 DEF BuildOrderIntent
  <2> QED
    BY <2>1, <2>3, <2>4
<1> QED
  BY <1>3, <1>4

\* The two orders of a reversal are different, and together they cover the
\* distance; otherwise the one order does.
LEMMA OrderQuantities ==
  ASSUME NEW p, IsPlan(p), NEW i \in Instruments
  PROVE  /\ FlattenOf(p, i) # OpenOf(p, i)
         /\ FlattenOf(p, i).quantity \in Nat
         /\ OpenOf(p, i).quantity \in Nat
         /\ OrderOf(p, i).quantity \in Nat
         /\ Reverses(p, i) =>
              FlattenOf(p, i).quantity + OpenOf(p, i).quantity
                = Abs(p.target[i] - p.start[i])
         /\ OrderOf(p, i).quantity = Abs(p.target[i] - p.start[i])
<1>1. p.start[i] \in Int /\ p.target[i] \in Int
  BY DEF IsPlan
<1>2. \A side, quantity, suffix :
        /\ BuildOrderIntent(p.prefix, i, side, quantity, suffix).quantity = quantity
        /\ BuildOrderIntent(p.prefix, i, side, quantity, suffix).suffix = suffix
  BY DEF BuildOrderIntent
<1>3. /\ FlattenOf(p, i).quantity = Abs(p.start[i])
      /\ FlattenOf(p, i).suffix = "flatten"
      /\ OpenOf(p, i).quantity = Abs(p.target[i])
      /\ OpenOf(p, i).suffix = "open"
      /\ OrderOf(p, i).quantity = Abs(p.target[i] - p.start[i])
  BY <1>2 DEF FlattenOf, OpenOf, OrderOf, FlattenIntent, OpenIntent,
     PlanOrderToTarget
<1>4. FlattenOf(p, i) # OpenOf(p, i)
  BY <1>3
<1>5. /\ Abs(p.start[i]) \in Nat /\ Abs(p.target[i]) \in Nat
      /\ Abs(p.target[i] - p.start[i]) \in Nat
      /\ Reverses(p, i) =>
           Abs(p.start[i]) + Abs(p.target[i]) = Abs(p.target[i] - p.start[i])
  BY <1>1 DEF Abs, Reverses, IsPositionReversal
<1> QED
  BY <1>3, <1>4, <1>5

\* The orders of a plan are the orders of its instruments.
LEMMA PlanOrders ==
  ASSUME NEW p, IsPlan(p)
  PROVE  \A x : x \in PlanIntents(p) <=> \E i \in Instruments : IsOrderOf(x, p, i)
<1>1. DOMAIN p.target = Instruments
  BY DEF IsPlan
<1>2. /\ Phases(p)[1] = UNION {ReducingIntents(p.prefix, i, p.start[i], p.target[i])
                                : i \in DOMAIN p.target}
      /\ Phases(p)[2] = UNION {OpeningIntents(p.prefix, i, p.start[i], p.target[i])
                                : i \in DOMAIN p.target}
  BY DEF Phases, PlanRebalanceOrderPhases
<1>3. ASSUME NEW i \in Instruments, NEW x
      PROVE  x \in ReducingIntents(p.prefix, i, p.start[i], p.target[i])
               \cup OpeningIntents(p.prefix, i, p.start[i], p.target[i])
             <=> IsOrderOf(x, p, i)
  <2>1. p.start[i] \in Int /\ p.target[i] \in Int
    BY DEF IsPlan
  <2>2. IsRiskReducingDelta(p.start[i], p.target[i]) => p.start[i] # p.target[i]
    BY <2>1 DEF IsRiskReducingDelta
  <2> QED
    BY <2>2 DEF ReducingIntents, OpeningIntents, IsOrderOf, Reverses, FlattenOf,
       OpenOf, OrderOf
<1>4. ASSUME NEW x, x \in PlanIntents(p)
      PROVE  \E i \in Instruments : IsOrderOf(x, p, i)
  <2>1. PICK i \in Instruments :
          x \in ReducingIntents(p.prefix, i, p.start[i], p.target[i])
             \cup OpeningIntents(p.prefix, i, p.start[i], p.target[i])
    BY <1>1, <1>2, <1>4 DEF PlanIntents
  <2> QED
    BY <1>3, <2>1
<1>5. ASSUME NEW x, NEW i \in Instruments, IsOrderOf(x, p, i)
      PROVE  x \in PlanIntents(p)
  <2>1. x \in ReducingIntents(p.prefix, i, p.start[i], p.target[i])
             \cup OpeningIntents(p.prefix, i, p.start[i], p.target[i])
    BY <1>3, <1>5
  <2> QED
    BY <1>1, <1>2, <2>1 DEF PlanIntents
<1> QED
  BY <1>4, <1>5

\* No order is in both phases.
LEMMA PhasesDisjoint ==
  ASSUME NEW p, IsPlan(p)
  PROVE  Phases(p)[1] \cap Phases(p)[2] = {}
<1> SUFFICES ASSUME NEW x, x \in Phases(p)[1], x \in Phases(p)[2] PROVE FALSE
  OBVIOUS
<1>1. DOMAIN p.target = Instruments
  BY DEF IsPlan
<1>2. PICK i \in Instruments :
        x \in ReducingIntents(p.prefix, i, p.start[i], p.target[i])
  BY <1>1 DEF Phases, PlanRebalanceOrderPhases
<1>3. PICK j \in Instruments :
        x \in OpeningIntents(p.prefix, j, p.start[j], p.target[j])
  BY <1>1 DEF Phases, PlanRebalanceOrderPhases
<1>4. /\ IsOrderOf(x, p, i) /\ IsOrderOf(x, p, j)
  <2>1. p.start[j] \in Int /\ p.target[j] \in Int /\ p.start[i] \in Int /\ p.target[i] \in Int
    BY DEF IsPlan
  <2>2. IsRiskReducingDelta(p.start[i], p.target[i]) => p.start[i] # p.target[i]
    BY <2>1 DEF IsRiskReducingDelta
  <2> QED
    BY <1>2, <1>3, <2>2 DEF ReducingIntents, OpeningIntents, IsOrderOf, Reverses,
       FlattenOf, OpenOf, OrderOf
<1>5. i = j
  BY <1>4, OrderFields
<1> QED
  BY <1>2, <1>3, <1>5, OrderQuantities DEF ReducingIntents, OpeningIntents,
     FlattenOf, OpenOf

-----------------------------------------------------------------------------
(* The sums.                                                               *)

\* What an order can still fill and what it has filled are no less than 0.
LEMMA OrderAmounts ==
  ASSUME TypeInv, NEW x \in Intents
  PROVE  Left(x) \in Nat /\ Done(x) \in Nat
<1>1. x.quantity \in Nat
  BY IntentTypes
<1>2. x \in DOMAIN live => live[x] \in 0..(x.quantity - 1)
  BY DEF TypeInv, RTypeOK
<1>3. x \in DOMAIN lifecycle => lifecycle[x].filled \in 0..x.quantity
  BY DEF TypeInv, RTypeOK
<1> QED
  BY <1>1, <1>2, <1>3 DEF Left, Done, Load, Unknown

\* What a course needs of the plan.
IsCourse(p) == IsPlan(p) /\ PlanIntents(p) \subseteq Intents

LEMMA PlanIsCourse ==
  ASSUME TypeInv, plan # NoPlan
  PROVE  IsCourse(plan)
BY PositionsAssumption DEF TypeInv, RTypeOK, PlanFits, IsCourse, IsPlan

\* The amounts of an instrument's orders are no less than 0.
LEMMA OrdersOfInstrument ==
  ASSUME TypeInv, NEW p, IsCourse(p), NEW i \in Instruments
  PROVE  /\ Reverses(p, i) =>
              /\ FlattenOf(p, i) \in Intents /\ OpenOf(p, i) \in Intents
              /\ Left(FlattenOf(p, i)) \in Nat /\ Left(OpenOf(p, i)) \in Nat
              /\ Done(FlattenOf(p, i)) \in Nat /\ Done(OpenOf(p, i)) \in Nat
         /\ (~Reverses(p, i) /\ p.start[i] # p.target[i]) =>
              /\ OrderOf(p, i) \in Intents
              /\ Left(OrderOf(p, i)) \in Nat /\ Done(OrderOf(p, i)) \in Nat
<1>1. \A x : IsOrderOf(x, p, i) => x \in Intents
  BY PlanOrders DEF IsCourse
<1>2. /\ Reverses(p, i) => FlattenOf(p, i) \in Intents /\ OpenOf(p, i) \in Intents
      /\ (~Reverses(p, i) /\ p.start[i] # p.target[i]) => OrderOf(p, i) \in Intents
  BY <1>1 DEF IsOrderOf
<1> QED
  BY <1>2, OrderAmounts

LEMMA SumsAreNat ==
  ASSUME TypeInv, NEW p, IsCourse(p), NEW i \in Instruments
  PROVE  LeftFor(p, i) \in Nat /\ DoneFor(p, i) \in Nat
BY OrdersOfInstrument DEF LeftFor, DoneFor

\* When one order's amounts change, the sums of its instrument change by as
\* much and those of the others do not.
LEMMA SumsChange ==
  ASSUME TypeInv, NEW p, IsCourse(p), NEW i \in Instruments, NEW x,
         IsOrderOf(x, p, i), Left(x)' \in Nat, Done(x)' \in Nat,
         \A y \in Intents : y # x => Left(y)' = Left(y) /\ Done(y)' = Done(y)
  PROVE  /\ LeftFor(p, i)' - LeftFor(p, i) = Left(x)' - Left(x)
         /\ DoneFor(p, i)' - DoneFor(p, i) = Done(x)' - Done(x)
         /\ \A j \in Instruments \ {i} :
              LeftFor(p, j)' = LeftFor(p, j) /\ DoneFor(p, j)' = DoneFor(p, j)
<1> DEFINE F == FlattenOf(p, i)
           O == OpenOf(p, i)
           R == OrderOf(p, i)
<1>1. ASSUME NEW j \in Instruments \ {i}
      PROVE  LeftFor(p, j)' = LeftFor(p, j) /\ DoneFor(p, j)' = DoneFor(p, j)
  <2>1. \A y : IsOrderOf(y, p, j) => y # x /\ y \in Intents
    BY OrderFields, PlanOrders DEF IsCourse
  <2>2. \A y : IsOrderOf(y, p, j) => Left(y)' = Left(y) /\ Done(y)' = Done(y)
    BY <2>1
  <2> QED
    BY <2>2 DEF IsOrderOf, LeftFor, DoneFor
<1>2. CASE Reverses(p, i)
  <2>1. x = F \/ x = O
    BY <1>2 DEF IsOrderOf
  <2>2. F # O
    BY OrderQuantities DEF IsCourse
  <2>3. /\ Left(F) \in Nat /\ Left(O) \in Nat /\ Done(F) \in Nat /\ Done(O) \in Nat
        /\ F \in Intents /\ O \in Intents
    BY <1>2, OrdersOfInstrument
  <2>4. /\ LeftFor(p, i) = Left(F) + Left(O) /\ LeftFor(p, i)' = Left(F)' + Left(O)'
        /\ DoneFor(p, i) = Done(F) + Done(O) /\ DoneFor(p, i)' = Done(F)' + Done(O)'
    BY <1>2 DEF LeftFor, DoneFor
  <2> HIDE DEF F, O
  <2>5. CASE x = F
    <3>1. Left(O)' = Left(O) /\ Done(O)' = Done(O)
      BY <2>2, <2>3, <2>5
    <3> QED
      BY <1>1, <2>3, <2>4, <2>5, <3>1
  <2>6. CASE x = O
    <3>1. Left(F)' = Left(F) /\ Done(F)' = Done(F)
      BY <2>2, <2>3, <2>6
    <3> QED
      BY <1>1, <2>3, <2>4, <2>6, <3>1
  <2> QED
    BY <2>1, <2>5, <2>6
<1>3. CASE ~Reverses(p, i)
  <2>1. x = R /\ p.start[i] # p.target[i]
    BY <1>3 DEF IsOrderOf
  <2>2. /\ LeftFor(p, i) = Left(x) /\ LeftFor(p, i)' = Left(x)'
        /\ DoneFor(p, i) = Done(x) /\ DoneFor(p, i)' = Done(x)'
    BY <1>3, <2>1 DEF LeftFor, DoneFor
  <2> QED
    BY <1>1, <2>2
<1> QED
  BY <1>2, <1>3

-----------------------------------------------------------------------------
(* A step moves the position an order is for by what it fills, the ledger  *)
(* by what is recorded, and takes as much, or all, from what is left.      *)

LEMMA CourseChange ==
  ASSUME TypeInv, NEW p, IsCourse(p), NEW i \in Instruments, NEW x,
         IsOrderOf(x, p, i), \A j \in Instruments : OnCourse(p, j),
         NEW filled \in Nat, NEW recorded \in Nat, recorded =< filled,
         Left(x)' \in Nat, Left(x)' + filled =< Left(x),
         Done(x)' = Done(x) + recorded,
         \A y \in Intents : y # x => Left(y)' = Left(y) /\ Done(y)' = Done(y),
         held'[i] = QuantityAfter(held[i], x.side, filled),
         position'[i] = QuantityAfter(position[i], x.side, recorded),
         \A j \in Instruments \ {i} : held'[j] = held[j] /\ position'[j] = position[j]
  PROVE  \A j \in Instruments : OnCourse(p, j)'
<1>1. x \in Intents /\ Left(x) \in Nat /\ Done(x) \in Nat
  BY OrderAmounts, PlanOrders DEF IsCourse
<1>2. /\ LeftFor(p, i)' - LeftFor(p, i) = Left(x)' - Left(x)
      /\ DoneFor(p, i)' - DoneFor(p, i) = Done(x)' - Done(x)
      /\ \A j \in Instruments \ {i} :
           LeftFor(p, j)' = LeftFor(p, j) /\ DoneFor(p, j)' = DoneFor(p, j)
  BY <1>1, SumsChange
<1>3. ASSUME NEW j \in Instruments \ {i} PROVE OnCourse(p, j)'
  BY <1>2, <1>3 DEF OnCourse
<1>4. OnCourse(p, i)'
  <2>1. /\ LeftFor(p, i) \in Nat /\ DoneFor(p, i) \in Nat
        /\ held[i] \in Int /\ position[i] \in Int
        /\ p.start[i] \in Int /\ p.target[i] \in Int
    BY SumsAreNat DEF TypeInv, RTypeOK, IsCourse, IsPlan
  <2>2. DoneFor(p, i)' \in Int /\ LeftFor(p, i)' \in Int
    <3>1. IsOrderOf(x, p, i) /\ Done(x)' \in Int
      BY <1>1
    <3>2. /\ Reverses(p, i) => LeftFor(p, i)' = Left(FlattenOf(p, i))' + Left(OpenOf(p, i))'
                            /\ DoneFor(p, i)' = Done(FlattenOf(p, i))' + Done(OpenOf(p, i))'
          /\ ~Reverses(p, i) => LeftFor(p, i)' = Left(x)' /\ DoneFor(p, i)' = Done(x)'
      BY DEF LeftFor, DoneFor, IsOrderOf
    <3>3. Reverses(p, i) =>
            /\ Left(FlattenOf(p, i))' \in Int /\ Left(OpenOf(p, i))' \in Int
            /\ Done(FlattenOf(p, i))' \in Int /\ Done(OpenOf(p, i))' \in Int
      BY <1>1, <3>1, OrdersOfInstrument
    <3> QED
      BY <3>1, <3>2, <3>3
  <2>3. /\ DoneFor(p, i)' = DoneFor(p, i) + recorded
        /\ LeftFor(p, i)' + filled =< LeftFor(p, i)
    BY <1>1, <1>2, <2>1, <2>2
  <2>4. CASE p.start[i] < p.target[i]
    <3>1. held'[i] = held[i] + filled /\ position'[i] = position[i] + recorded
      BY <2>4, OrderFields DEF IsCourse, QuantityAfter
    <3>2. /\ position[i] = p.start[i] + DoneFor(p, i)
          /\ position[i] =< held[i]
          /\ held[i] + LeftFor(p, i) =< p.target[i]
      BY <2>1, <2>4 DEF OnCourse
    <3>3. /\ position'[i] = p.start[i] + DoneFor(p, i)'
          /\ position'[i] =< held'[i]
          /\ held'[i] + LeftFor(p, i)' =< p.target[i]
      BY <2>1, <2>2, <2>3, <3>1, <3>2
    <3> QED
      BY <2>1, <2>4, <3>3 DEF OnCourse
  <2>5. CASE p.target[i] < p.start[i]
    <3>1. held'[i] = held[i] - filled /\ position'[i] = position[i] - recorded
      BY <2>5, OrderFields DEF IsCourse, QuantityAfter
    <3>2. /\ position[i] = p.start[i] - DoneFor(p, i)
          /\ held[i] =< position[i]
          /\ p.target[i] =< held[i] - LeftFor(p, i)
      BY <2>1, <2>5 DEF OnCourse
    <3>3. /\ position'[i] = p.start[i] - DoneFor(p, i)'
          /\ held'[i] =< position'[i]
          /\ p.target[i] =< held'[i] - LeftFor(p, i)'
      BY <2>1, <2>2, <2>3, <3>1, <3>2
    <3> QED
      BY <2>1, <2>5, <3>3 DEF OnCourse
  <2>6. p.start[i] < p.target[i] \/ p.target[i] < p.start[i]
    BY <2>1, OrderFields DEF IsCourse
  <2> QED
    BY <2>4, <2>5, <2>6
<1> QED
  BY <1>3, <1>4

-----------------------------------------------------------------------------
(* The invariant is inductive.                                             *)

LEMMA CourseUntouched ==
  ASSUME CourseInv, UNCHANGED <<plan, undisturbed, lifecycle, position, held, live>>
  PROVE  CourseInv'
BY DEF CourseInv, OnCourse, LeftFor, DoneFor, Left, Done, Load

\* A save for one order and a change of its entry in the book leave the amounts
\* of the others.
LEMMA OtherAmounts ==
  ASSUME NEW x,
         lifecycle' = lifecycle \/ \E lc : Save(x, lc),
         \A y : y # x => (y \in DOMAIN live' <=> y \in DOMAIN live),
         \A y \in DOMAIN live' : y # x => live'[y] = live[y]
  PROVE  \A y : y # x => Left(y)' = Left(y) /\ Done(y)' = Done(y)
<1>1. \A y : y # x => (y \in DOMAIN lifecycle' <=> y \in DOMAIN lifecycle)
                      /\ Load(y)' = Load(y)
  BY SaveChangesOne, LoadUnchanged
<1> QED
  BY <1>1 DEF Left, Done

LEMMA PlanStartsCourse ==
  ASSUME TypeInv, NEW prefix \in Prefixes, NEW target \in Courses,
         Plan(prefix, target)
  PROVE  CourseInv'
<1> SUFFICES ASSUME undisturbed', NEW p, p = plan'
             PROVE  /\ DOMAIN live' \subseteq PlanIntents(p)
                    /\ \A i \in Instruments : OnCourse(p, i)'
  BY DEF CourseInv
<1>1. /\ p = [prefix |-> prefix, start |-> position, target |-> target]
      /\ DOMAIN live = {} /\ position = held
      /\ \A x \in DOMAIN lifecycle : x.prefix # prefix
      /\ UNCHANGED <<lifecycle, live, held, position>>
      /\ PlanIntents(p) \subseteq Intents
  BY DEF Plan, storeVars, brokerVars
<1>2. IsPlan(p) /\ p.prefix = prefix /\ p.start = position
  BY <1>1, PositionsAssumption DEF IsPlan, TypeInv, RTypeOK
<1>3. ASSUME NEW i \in Instruments PROVE OnCourse(p, i)'
  <2>1. \A x : IsOrderOf(x, p, i) => Left(x)' = x.quantity /\ Done(x)' = 0
    <3>1. \A x : IsOrderOf(x, p, i) => x \notin DOMAIN lifecycle
      BY <1>1, <1>2, OrderFields
    <3> QED
      BY <1>1, <3>1 DEF Left, Done, Load, Unknown
  <2>2. /\ p.start[i] \in Int /\ p.target[i] \in Int
        /\ position[i] = p.start[i] /\ held[i] = p.start[i]
    BY <1>1, <1>2 DEF IsPlan
  <2>3. LeftFor(p, i)' = Abs(p.target[i] - p.start[i]) /\ DoneFor(p, i)' = 0
    <3>1. CASE Reverses(p, i)
      <4>1. /\ LeftFor(p, i)' = FlattenOf(p, i).quantity + OpenOf(p, i).quantity
            /\ DoneFor(p, i)' = 0 + 0
        BY <2>1, <3>1 DEF LeftFor, DoneFor, IsOrderOf
      <4> QED
        BY <1>2, <3>1, <4>1, OrderQuantities
    <3>2. CASE ~Reverses(p, i) /\ p.start[i] # p.target[i]
      <4>1. LeftFor(p, i)' = OrderOf(p, i).quantity /\ DoneFor(p, i)' = 0
        BY <2>1, <3>2 DEF LeftFor, DoneFor, IsOrderOf
      <4> QED
        BY <1>2, <4>1, OrderQuantities
    <3>3. CASE ~Reverses(p, i) /\ p.start[i] = p.target[i]
      <4>1. LeftFor(p, i)' = 0 /\ DoneFor(p, i)' = 0
        BY <3>3 DEF LeftFor, DoneFor
      <4> QED
        BY <2>2, <3>3, <4>1 DEF Abs
    <3> QED
      BY <3>1, <3>2, <3>3
  <2> QED
    BY <1>1, <2>2, <2>3 DEF OnCourse, Abs
<1> QED
  BY <1>1, <1>3

\* An order of the plan in submission belongs to the plan.
LEMMA QueueOfPlan ==
  ASSUME TypeInv, RateInv, NEW x \in queue
  PROVE  plan # NoPlan /\ x \in PlanIntents(plan)
<1>1. /\ plan # NoPlan
      /\ \E k \in {1, 2} : x \in Phases(plan)[k]
  BY DEF RateInv, PhaseInv
<1> QED
  BY <1>1 DEF PlanIntents

\* The outcome of a submission.  An accepted order can still fill what it could
\* before; a refused one nothing.
LEMMA SubmitKeepsCourse ==
  ASSUME TypeInv, RateInv, BookInv, CourseInv, NEW x \in queue, Submit(x)
  PROVE  CourseInv'
<1>1. CASE GatewayBlocks(x)
  BY <1>1, CourseUntouched DEF GatewayBlocks, storeVars, brokerVars, historyVars
<1>2. CASE ~GatewayBlocks(x)
  <2> SUFFICES ASSUME undisturbed', NEW p, p = plan', p # NoPlan
               PROVE  /\ DOMAIN live' \subseteq PlanIntents(p)
                      /\ \A i \in Instruments : OnCourse(p, i)'
    BY DEF CourseInv
  <2>1. /\ p = plan /\ undisturbed
        /\ UNCHANGED <<held, position>>
    BY <1>2 DEF Submit, RiskRejects, BrokerAccepts, BrokerRefuses, AcceptanceLost,
       EndPhase, brokerVars, historyVars
  <2>2. IsCourse(p) /\ x \in PlanIntents(p)
    BY <2>1, PlanIsCourse, QueueOfPlan
  <2>3. PICK i \in Instruments : IsOrderOf(x, p, i)
    BY <2>2, PlanOrders DEF IsCourse
  <2>4. /\ x \in Intents /\ x \notin DOMAIN lifecycle /\ x \notin DOMAIN live
        /\ x.quantity \in Nat
        /\ Left(x) = x.quantity /\ Done(x) = 0
    <3>1. x \in Intents /\ x \notin DOMAIN lifecycle
      BY DEF TypeInv, RTypeOK, RateInv, PhaseInv
    <3>2. x \notin DOMAIN live
      BY <3>1 DEF BookInv
    <3> QED
      BY <3>1, <3>2, IntentTypes DEF Left, Done, Load, Unknown
  <2>5. PICK lc : /\ Save(x, lc) /\ lc.filled = 0
                  /\ Open(x) \/ live' = live
    <3>1. /\ MarkRejected(PendingSubmit).filled = 0
          /\ MarkWorking(PendingSubmit).filled = 0
      BY DEF MarkRejected, MarkWorking, PendingSubmit
    <3>2. \/ Save(x, MarkRejected(PendingSubmit)) /\ (Open(x) \/ live' = live)
          \/ Save(x, MarkWorking(PendingSubmit)) /\ (Open(x) \/ live' = live)
      BY <1>2 DEF Submit, RiskRejects, BrokerAccepts, BrokerRefuses,
         AcceptanceLost, brokerVars
    <3> QED
      BY <3>1, <3>2
  <2>6. /\ x \in DOMAIN lifecycle' /\ Load(x)' = lc
    BY <2>5, SaveChangesOne
  <2>7. /\ \A y : y # x => (y \in DOMAIN live' <=> y \in DOMAIN live)
        /\ \A y \in DOMAIN live' : y # x => live'[y] = live[y]
        /\ DOMAIN live' \subseteq DOMAIN live \cup {x}
        /\ x \in DOMAIN live' => live'[x] = 0
    <3>1. CASE live' = live
      BY <2>4, <3>1
    <3>2. CASE Open(x)
      <4>1. /\ DOMAIN live' = DOMAIN live \cup {x}
            /\ live'[x] = 0
            /\ \A y \in DOMAIN live : y # x => live'[y] = live[y]
        BY <3>2, OpenAddsOne
      <4> QED
        BY <4>1
    <3> QED
      BY <2>5, <3>1, <3>2
  <2>8. \A y : y # x => Left(y)' = Left(y) /\ Done(y)' = Done(y)
    BY <2>5, <2>7, OtherAmounts
  <2>9. Left(x)' \in {0, x.quantity} /\ Done(x)' = 0
    BY <2>4, <2>5, <2>6, <2>7 DEF Left, Done
  <2>10. /\ DOMAIN live \subseteq PlanIntents(p)
         /\ \A j \in Instruments : OnCourse(p, j)
    BY <2>1 DEF CourseInv
  <2>11. /\ held'[i] = QuantityAfter(held[i], x.side, 0)
         /\ position'[i] = QuantityAfter(position[i], x.side, 0)
    BY <2>1 DEF QuantityAfter, TypeInv, RTypeOK
  <2>12. \A j \in Instruments : OnCourse(p, j)'
    <3>1. /\ 0 \in Nat /\ 0 =< 0
          /\ Left(x)' \in Nat /\ Left(x)' + 0 =< Left(x)
          /\ Done(x)' = Done(x) + 0
      BY <2>4, <2>9
    <3>2. \A j \in Instruments \ {i} : held'[j] = held[j] /\ position'[j] = position[j]
      BY <2>1
    <3> QED
      BY <2>2, <2>3, <2>8, <2>10, <2>11, <3>1, <3>2, CourseChange
  <2> QED
    BY <2>2, <2>7, <2>10, <2>12
<1> QED
  BY <1>1, <1>2

\* A fill takes from what is left what it adds to the position; the ledger
\* follows if the update is applied.
LEMMA FillKeepsCourse ==
  ASSUME TypeInv, BookInv, CourseInv, NEW x \in DOMAIN live,
         NEW q \in 1..MaxQuantity, Fill(x, q)
  PROVE  CourseInv'
<1> SUFFICES ASSUME undisturbed', NEW p, p = plan', p # NoPlan
             PROVE  /\ DOMAIN live' \subseteq PlanIntents(p)
                    /\ \A i \in Instruments : OnCourse(p, i)'
  BY DEF CourseInv
<1>1. p = plan /\ undisturbed
  BY DEF Fill, callerVars, historyVars
<1>2. /\ DOMAIN live \subseteq PlanIntents(p)
      /\ \A j \in Instruments : OnCourse(p, j)
  BY <1>1 DEF CourseInv
<1>3. IsCourse(p) /\ x \in PlanIntents(p)
  BY <1>1, <1>2, PlanIsCourse
<1>4. PICK i \in Instruments : IsOrderOf(x, p, i)
  BY <1>3, PlanOrders DEF IsCourse
<1>5. x.instrument = i
  BY <1>3, <1>4, OrderFields DEF IsCourse
<1>6. /\ x \in Intents /\ x.quantity \in Nat
      /\ live[x] \in Nat /\ q \in Nat /\ live[x] + q =< x.quantity
      /\ x \in DOMAIN lifecycle
      /\ Left(x) = x.quantity - live[x] /\ Done(x) \in Nat
  <2>1. x \in Intents /\ live[x] \in 0..(x.quantity - 1) /\ x \in DOMAIN lifecycle
    BY DEF TypeInv, RTypeOK, BookInv
  <2> QED
    BY <2>1, IntentTypes, BoundsAssumption, OrderAmounts DEF Fill, Left
<1>7. /\ DOMAIN live' = IF live[x] + q = x.quantity
                        THEN DOMAIN live \ {x} ELSE DOMAIN live
      /\ x \in DOMAIN live' => live'[x] = live[x] + q
      /\ \A y \in DOMAIN live' : y # x => live'[y] = live[y]
  BY FillMovesOne DEF Fill
<1>8. lifecycle' = lifecycle \/ \E lc : Save(x, lc)
  BY DEF Fill
<1>9. \A y : y # x => Left(y)' = Left(y) /\ Done(y)' = Done(y)
  BY <1>7, <1>8, OtherAmounts
<1>10. Left(x)' \in Nat /\ Left(x)' + q =< Left(x)
  <2>1. x \in DOMAIN lifecycle'
    BY <1>6, <1>8, SaveChangesOne
  <2>2. CASE live[x] + q = x.quantity
    <3>1. Left(x)' = 0
      BY <1>7, <2>1, <2>2 DEF Left
    <3> QED
      BY <1>6, <2>2, <3>1
  <2>3. CASE live[x] + q # x.quantity
    <3>1. Left(x)' = x.quantity - (live[x] + q)
      BY <1>7, <2>3 DEF Left
    <3> QED
      BY <1>6, <3>1
  <2> QED
    BY <2>2, <2>3
<1>11. /\ held'[i] = QuantityAfter(held[i], x.side, q)
       /\ \A j \in Instruments \ {i} : held'[j] = held[j]
  BY <1>5 DEF Fill, TypeInv, RTypeOK
<1>12. CASE /\ Save(x, RecordFill(Load(x), q, x.quantity))
            /\ position' = [position EXCEPT ![x.instrument] =
                              QuantityAfter(@, x.side, q)]
  <2>1. Done(x)' = Done(x) + q
    <3>1. Load(x)' = RecordFill(Load(x), q, x.quantity)
      BY <1>12, SaveChangesOne
    <3>2. RecordFill(Load(x), q, x.quantity).filled = Load(x).filled + q
      BY DEF RecordFill
    <3> QED
      BY <3>1, <3>2 DEF Done
  <2>2. /\ position'[i] = QuantityAfter(position[i], x.side, q)
        /\ \A j \in Instruments \ {i} : position'[j] = position[j]
    BY <1>5, <1>12 DEF TypeInv, RTypeOK
  <2>3. q =< q
    BY <1>6
  <2>4. \A j \in Instruments \ {i} : held'[j] = held[j] /\ position'[j] = position[j]
    BY <1>11, <2>2
  <2>5. \A j \in Instruments : OnCourse(p, j)'
    BY <1>2, <1>3, <1>4, <1>6, <1>9, <1>10, <1>11, <2>1, <2>2, <2>3, <2>4,
       CourseChange
  <2> QED
    BY <1>2, <1>7, <2>5
<1>13. CASE UNCHANGED <<lifecycle, position>>
  <2>1. Done(x)' = Done(x) + 0
    BY <1>6, <1>13, LoadUnchanged DEF Done
  <2>2. position'[i] = QuantityAfter(position[i], x.side, 0)
    BY <1>13 DEF QuantityAfter, TypeInv, RTypeOK
  <2>3. 0 \in Nat /\ 0 =< q
    BY <1>6
  <2>4. \A j \in Instruments \ {i} : held'[j] = held[j] /\ position'[j] = position[j]
    BY <1>11, <1>13
  <2>5. \A j \in Instruments : OnCourse(p, j)'
    BY <1>2, <1>3, <1>4, <1>6, <1>9, <1>10, <1>11, <2>1, <2>2, <2>3, <2>4,
       CourseChange
  <2> QED
    BY <1>2, <1>7, <2>5
<1> QED
  BY <1>12, <1>13 DEF Fill

\* A cancel request changes no amount; an order that ends has nothing left.
LEMMA EndKeepsCourse ==
  ASSUME TypeInv, BookInv, CourseInv, NEW x \in DOMAIN live,
         RequestCancel(x) \/ BrokerEnds(x)
  PROVE  CourseInv'
<1> SUFFICES ASSUME undisturbed', NEW p, p = plan', p # NoPlan
             PROVE  /\ DOMAIN live' \subseteq PlanIntents(p)
                    /\ \A i \in Instruments : OnCourse(p, i)'
  BY DEF CourseInv
<1>1. /\ p = plan /\ undisturbed
      /\ UNCHANGED <<held, position>>
  BY DEF RequestCancel, BrokerEnds, BrokerCancels, BrokerRejects, callerVars,
     brokerVars, historyVars
<1>2. /\ DOMAIN live \subseteq PlanIntents(p)
      /\ \A j \in Instruments : OnCourse(p, j)
  BY <1>1 DEF CourseInv
<1>3. IsCourse(p) /\ x \in PlanIntents(p)
  BY <1>1, <1>2, PlanIsCourse
<1>4. PICK i \in Instruments : IsOrderOf(x, p, i)
  BY <1>3, PlanOrders DEF IsCourse
<1>5. x \in Intents /\ x \in DOMAIN lifecycle /\ Left(x) \in Nat /\ Done(x) \in Nat
  BY OrderAmounts DEF TypeInv, RTypeOK, BookInv
<1>6. /\ lifecycle' = lifecycle \/ \E lc : Save(x, lc)
      /\ x \in DOMAIN lifecycle'
      /\ Done(x)' = Done(x)
  <2>1. Load(x) \in [status : Statuses, filled : 0..x.quantity]
    BY <1>5 DEF TypeInv, RTypeOK, Load
  <2>2. /\ MarkPendingCancel(Load(x)).filled = Load(x).filled
        /\ MarkCanceled(Load(x)).filled = Load(x).filled
        /\ MarkRejected(Load(x)).filled = Load(x).filled
    BY <2>1 DEF MarkPendingCancel, MarkCanceled, MarkRejected
  <2>3. \/ lifecycle' = lifecycle
        \/ \E lc : Save(x, lc) /\ lc.filled = Load(x).filled
    BY <2>2 DEF RequestCancel, BrokerEnds, BrokerCancels, BrokerRejects
  <2> QED
    BY <1>5, <2>3, SaveChangesOne, LoadUnchanged DEF Done
<1>7. /\ live' = live \/ DOMAIN live' = DOMAIN live \ {x}
      /\ \A y \in DOMAIN live' : live'[y] = live[y]
  BY CloseRemovesOne DEF RequestCancel, BrokerEnds, BrokerCancels, BrokerRejects,
     brokerVars
<1>8. \A y : y # x => Left(y)' = Left(y) /\ Done(y)' = Done(y)
  BY <1>6, <1>7, OtherAmounts
<1>9. /\ Left(x)' \in Nat /\ Left(x)' + 0 =< Left(x)
      /\ Done(x)' = Done(x) + 0 /\ 0 =< 0 /\ 0 \in Nat
  <2>1. Left(x)' = Left(x) \/ Left(x)' = 0
    BY <1>6, <1>7 DEF Left
  <2> QED
    BY <1>5, <1>6, <2>1
<1>10. /\ held'[i] = QuantityAfter(held[i], x.side, 0)
       /\ position'[i] = QuantityAfter(position[i], x.side, 0)
       /\ \A j \in Instruments \ {i} : held'[j] = held[j] /\ position'[j] = position[j]
  BY <1>1 DEF QuantityAfter, TypeInv, RTypeOK
<1>11. \A j \in Instruments : OnCourse(p, j)'
  BY <1>2, <1>3, <1>4, <1>8, <1>9, <1>10, CourseChange
<1> QED
  BY <1>2, <1>7, <1>11

LEMMA CourseStep ==
  TypeInv /\ RateInv /\ BookInv /\ CourseInv /\ [Next]_vars => CourseInv'
<1> SUFFICES ASSUME TypeInv, RateInv, BookInv, CourseInv, [Next]_vars
             PROVE  CourseInv'
  OBVIOUS
<1>1. ASSUME NEW prefix \in Prefixes, NEW target \in Courses,
             Plan(prefix, target)
      PROVE  CourseInv'
  BY <1>1, PlanStartsCourse
<1>2. CASE UNCHANGED <<plan, undisturbed, lifecycle, position, held, live>>
  BY <1>2, CourseUntouched
<1>3. ASSUME NEW x \in queue, Submit(x) PROVE CourseInv'
  BY <1>3, SubmitKeepsCourse
<1>4. ASSUME NEW x \in DOMAIN live, NEW q \in 1..MaxQuantity, Fill(x, q)
      PROVE  CourseInv'
  BY <1>4, FillKeepsCourse
<1>5. ASSUME NEW x \in DOMAIN live, RequestCancel(x) \/ BrokerEnds(x)
      PROVE  CourseInv'
  BY <1>5, EndKeepsCourse
<1>6. CASE Crash
  BY <1>6 DEF Crash, CourseInv
<1> QED
  BY <1>1, <1>2, <1>3, <1>4, <1>5, <1>6
     DEF Next, BuildContexts, SubmitNextPhase, WindowPasses, vars, callerVars,
         storeVars, brokerVars, historyVars

LEMMA CourseInit == Init => CourseInv
BY DEF Init, CourseInv

LEMMA CourseInductive == Spec => []CourseInv
BY TypesInductive, RateInductive, BookInit, BookStep, CourseInit, CourseStep, PTL
   DEF Spec

\* StaysOnCourse: while an undisturbed plan is carried out, every position the
\* broker holds is between where it was and its target, whatever is filled,
\* canceled, rejected or lost and in which order.
THEOREM PositionsStayOnCourse == Spec => []StaysOnCourse
<1>1. TypeInv /\ CourseInv => StaysOnCourse
  <2> SUFFICES ASSUME TypeInv, CourseInv, plan # NoPlan, undisturbed,
                      NEW i \in Instruments
               PROVE  Between(held[i], plan.start[i], plan.target[i])
    BY DEF StaysOnCourse
  <2>1. IsCourse(plan) /\ OnCourse(plan, i)
    BY PlanIsCourse DEF CourseInv
  <2>2. LeftFor(plan, i) \in Nat /\ DoneFor(plan, i) \in Nat
    BY <2>1, SumsAreNat
  <2>3. /\ plan.start[i] \in Int /\ plan.target[i] \in Int
        /\ held[i] \in Int /\ position[i] \in Int
    BY <2>1 DEF IsCourse, IsPlan, TypeInv, RTypeOK
  <2> QED
    BY <2>1, <2>2, <2>3 DEF OnCourse, Between
<1> QED
  BY <1>1, TypesInductive, CourseInductive, PTL

-----------------------------------------------------------------------------
(* Filled phases.                                                          *)

LEMMA FilledInit == Init => FilledInv
BY DEF Init, FilledInv

\* Only a fill that completes an order makes it filled.
LEMMA FilledStep == TypeInv /\ BookInv /\ FilledInv /\ [Next]_vars => FilledInv'
<1> SUFFICES ASSUME TypeInv, BookInv, FilledInv, [Next]_vars PROVE FilledInv'
  OBVIOUS
<1>1. CASE UNCHANGED lifecycle
  BY <1>1 DEF FilledInv
<1>2. ASSUME NEW x, NEW lc, Save(x, lc),
             lc.status = "filled" => lc.filled = x.quantity
      PROVE  FilledInv'
  <2>1. /\ DOMAIN lifecycle' = DOMAIN lifecycle \cup {x}
        /\ lifecycle'[x] = lc
        /\ \A y \in DOMAIN lifecycle : y # x => lifecycle'[y] = lifecycle[y]
    BY <1>2, SaveChangesOne
  <2> QED
    BY <1>2, <2>1 DEF FilledInv
<1>3. ASSUME NEW x \in queue, Submit(x) PROVE FilledInv'
  <2>1. /\ MarkRejected(PendingSubmit).status = "rejected"
        /\ MarkWorking(PendingSubmit).status = "working"
    BY DEF MarkRejected, MarkWorking, PendingSubmit
  <2>2. \/ UNCHANGED lifecycle
        \/ Save(x, MarkRejected(PendingSubmit))
        \/ Save(x, MarkWorking(PendingSubmit))
    BY <1>3 DEF Submit, GatewayBlocks, RiskRejects, BrokerAccepts, BrokerRefuses,
       AcceptanceLost, storeVars
  <2> QED
    BY <1>1, <1>2, <2>1, <2>2
<1>4. ASSUME NEW x \in DOMAIN live, NEW q \in 1..MaxQuantity, Fill(x, q)
      PROVE  FilledInv'
  <2>1. RecordFill(Load(x), q, x.quantity).status = "filled"
          => RecordFill(Load(x), q, x.quantity).filled = x.quantity
    BY DEF RecordFill
  <2>2. UNCHANGED lifecycle \/ Save(x, RecordFill(Load(x), q, x.quantity))
    BY <1>4 DEF Fill
  <2> QED
    BY <1>1, <1>2, <2>1, <2>2
<1>5. ASSUME NEW x \in DOMAIN live, RequestCancel(x) \/ BrokerEnds(x)
      PROVE  FilledInv'
  <2>1. Load(x) \in [status : Statuses, filled : 0..x.quantity]
    BY DEF TypeInv, RTypeOK, BookInv, Load
  <2>2. /\ MarkPendingCancel(Load(x)).status = "pending_cancel"
        /\ MarkCanceled(Load(x)).status = "canceled"
        /\ MarkRejected(Load(x)).status = "rejected"
    BY <2>1 DEF MarkPendingCancel, MarkCanceled, MarkRejected
  <2>3. \/ UNCHANGED lifecycle
        \/ Save(x, MarkPendingCancel(Load(x)))
        \/ Save(x, MarkCanceled(Load(x)))
        \/ Save(x, MarkRejected(Load(x)))
    BY <1>5 DEF RequestCancel, BrokerEnds, BrokerCancels, BrokerRejects
  <2> QED
    BY <1>1, <1>2, <2>2, <2>3
<1> QED
  BY <1>1, <1>3, <1>4, <1>5
     DEF Next, Plan, BuildContexts, SubmitNextPhase, WindowPasses, Crash, vars,
         storeVars

LEMMA FilledInductive == Spec => []FilledInv
BY TypesInductive, RateInductive, BookInit, BookStep, FilledInit, FilledStep, PTL
   DEF Spec

\* CompleteMeansOnTarget: when the coordinator finds an undisturbed plan
\* complete, ledger and broker hold its targets.
THEOREM CompletePlanOnTarget == Spec => []CompleteMeansOnTarget
<1>1. TypeInv /\ CourseInv /\ FilledInv => CompleteMeansOnTarget
  <2> SUFFICES ASSUME TypeInv, CourseInv, FilledInv, plan # NoPlan, undisturbed,
                      Complete(plan)
               PROVE  held = plan.target /\ position = held
    BY DEF CompleteMeansOnTarget
  <2>1. IsCourse(plan) /\ \A i \in Instruments : OnCourse(plan, i)
    BY PlanIsCourse DEF CourseInv
  <2>2. \A x \in PlanIntents(plan) : Done(x) = x.quantity
    <3>1. PhaseIsFilled(Phases(plan)[1]) /\ PhaseIsFilled(Phases(plan)[2])
      BY DEF Complete, CurrentPhase
    <3>2. \A x \in PlanIntents(plan) : Load(x).status = "filled"
      BY <3>1 DEF PhaseIsFilled, PlanIntents
    <3> QED
      BY <3>2 DEF FilledInv, Load, Done, Unknown
  <2>3. ASSUME NEW i \in Instruments
        PROVE  held[i] = plan.target[i] /\ position[i] = held[i]
    <3>1. \A x : IsOrderOf(x, plan, i) => Done(x) = x.quantity
      BY <2>1, <2>2, PlanOrders DEF IsCourse
    <3>2. /\ plan.start[i] \in Int /\ plan.target[i] \in Int
          /\ held[i] \in Int /\ position[i] \in Int
          /\ LeftFor(plan, i) \in Nat
      BY <2>1, SumsAreNat DEF IsCourse, IsPlan, TypeInv, RTypeOK
    <3>3. DoneFor(plan, i) = Abs(plan.target[i] - plan.start[i])
      <4>1. CASE Reverses(plan, i)
        BY <2>1, <3>1, <4>1, OrderQuantities DEF DoneFor, IsOrderOf, IsCourse
      <4>2. CASE ~Reverses(plan, i) /\ plan.start[i] # plan.target[i]
        BY <2>1, <3>1, <4>2, OrderQuantities DEF DoneFor, IsOrderOf, IsCourse
      <4>3. CASE ~Reverses(plan, i) /\ plan.start[i] = plan.target[i]
        BY <3>2, <4>3 DEF DoneFor, Abs
      <4> QED
        BY <4>1, <4>2, <4>3
    <3> QED
      BY <2>1, <3>2, <3>3 DEF OnCourse, Abs
  <2>4. /\ held \in [Instruments -> Int] /\ position \in [Instruments -> Int]
        /\ plan.target \in [Instruments -> Int]
    BY <2>1 DEF IsCourse, IsPlan, TypeInv, RTypeOK
  <2> QED
    BY <2>3, <2>4
<1> QED
  BY <1>1, TypesInductive, CourseInductive, FilledInductive, PTL

\* A filled order stays filled, and only a submission gives an order a
\* lifecycle.
LEMMA FilledStays ==
  ASSUME TypeInv, RateInv, BookInv, [Next]_vars
  PROVE  /\ \A y : Load(y).status = "filled" => Load(y)'.status = "filled"
         /\ DOMAIN lifecycle' \subseteq DOMAIN lifecycle \cup queue
<1>1. CASE UNCHANGED lifecycle
  BY <1>1, LoadUnchanged
<1>2. ASSUME NEW x \in DOMAIN lifecycle \cup queue, NEW lc, Save(x, lc),
             Load(x).status # "filled"
      PROVE  /\ \A y : Load(y).status = "filled" => Load(y)'.status = "filled"
             /\ DOMAIN lifecycle' \subseteq DOMAIN lifecycle \cup queue
  <2>1. /\ DOMAIN lifecycle' = DOMAIN lifecycle \cup {x}
        /\ \A y : y # x => Load(y)' = Load(y)
    BY <1>2, SaveChangesOne
  <2>2. ASSUME NEW y, Load(y).status = "filled"
        PROVE  Load(y)'.status = "filled"
    <3>1. y # x
      BY <1>2, <2>2
    <3> QED
      BY <2>1, <2>2, <3>1
  <2>3. DOMAIN lifecycle' \subseteq DOMAIN lifecycle \cup queue
    BY <1>2, <2>1
  <2> QED
    BY <2>2, <2>3
<1>3. ASSUME NEW x \in queue, Submit(x), ~UNCHANGED lifecycle
      PROVE  /\ \A y : Load(y).status = "filled" => Load(y)'.status = "filled"
             /\ DOMAIN lifecycle' \subseteq DOMAIN lifecycle \cup queue
  <2>1. Load(x).status # "filled"
    BY DEF RateInv, PhaseInv, Load, Unknown
  <2>2. \E lc : Save(x, lc)
    BY <1>3 DEF Submit, GatewayBlocks, RiskRejects, BrokerAccepts, BrokerRefuses,
       AcceptanceLost, storeVars
  <2> QED
    BY <1>2, <2>1, <2>2
<1>4. ASSUME NEW x \in DOMAIN live,
             \/ \E q \in 1..MaxQuantity : Fill(x, q)
             \/ RequestCancel(x) \/ BrokerEnds(x),
             ~UNCHANGED lifecycle
      PROVE  /\ \A y : Load(y).status = "filled" => Load(y)'.status = "filled"
             /\ DOMAIN lifecycle' \subseteq DOMAIN lifecycle \cup queue
  <2>1. x \in DOMAIN lifecycle
    BY DEF BookInv
  <2>2. Load(x).status # "filled" /\ \E lc : Save(x, lc)
    BY <1>4 DEF Fill, RequestCancel, BrokerEnds, BrokerCancels, BrokerRejects,
       CanRecordFill, CanMarkPendingCancel, CanMarkCanceled, CanMarkRejected
  <2> QED
    BY <1>2, <2>1, <2>2
<1> QED
  BY <1>1, <1>3, <1>4
     DEF Next, Plan, BuildContexts, SubmitNextPhase, WindowPasses, Crash, vars,
         storeVars

LEMMA OrderInit == Init => OrderInv
BY DEF Init, OrderInv

LEMMA OrderStep ==
  TypeInv /\ RateInv /\ BookInv /\ OrderInv /\ [Next]_vars => OrderInv'
<1> SUFFICES ASSUME TypeInv, RateInv, BookInv, OrderInv, [Next]_vars
             PROVE  OrderInv'
  OBVIOUS
<1>1. ASSUME NEW prefix \in Prefixes, NEW target \in Courses,
             Plan(prefix, target)
      PROVE  OrderInv'
  <2> SUFFICES ASSUME undisturbed', NEW p, p = plan'
               PROVE  Phases(p)[2] \cap (DOMAIN lifecycle' \cup queue') = {}
    BY DEF OrderInv
  <2>1. /\ p = [prefix |-> prefix, start |-> position, target |-> target]
        /\ \A x \in DOMAIN lifecycle : x.prefix # prefix
        /\ lifecycle' = lifecycle /\ queue' = {}
    BY <1>1 DEF Plan, storeVars
  <2>2. IsPlan(p) /\ p.prefix = prefix
    BY <2>1, PositionsAssumption DEF IsPlan, TypeInv, RTypeOK
  <2>3. \A x \in Phases(p)[2] : x.prefix = prefix
    BY <2>2, PlanOrders, OrderFields DEF PlanIntents
  <2> QED
    BY <2>1, <2>3
<1>2. CASE SubmitNextPhase
  <2> SUFFICES ASSUME undisturbed, NEW p, p = plan, p # NoPlan,
                      Phases(p)[2] \cap (DOMAIN lifecycle' \cup queue') # {}
               PROVE  PhaseIsFilled(Phases(p)[1])'
    BY <1>2 DEF OrderInv, SubmitNextPhase, historyVars
  <2>1. lifecycle' = lifecycle /\ queue' = NextIntents(p) /\ NextIntents(p) # {}
    BY <1>2 DEF SubmitNextPhase, storeVars
  <2>2. PhaseIsFilled(Phases(p)[1])
    <3>1. CASE Phases(p)[2] \cap DOMAIN lifecycle # {}
      BY <3>1 DEF OrderInv
    <3>2. CASE Phases(p)[2] \cap NextIntents(p) # {}
      <4>1. NextIntents(p) \subseteq Phases(p)[CurrentPhase(p)]
            /\ CurrentPhase(p) \in {1, 2}
        BY <2>1, DueInOnePhase
      <4>2. Phases(p)[1] \cap Phases(p)[2] = {}
        BY PlanIsCourse, PhasesDisjoint DEF IsCourse
      <4>3. CurrentPhase(p) # 1
        BY <3>2, <4>1, <4>2
      <4> QED
        BY <4>3 DEF CurrentPhase
    <3> QED
      BY <2>1, <3>1, <3>2
  <2> QED
    BY <2>1, <2>2, LoadUnchanged DEF PhaseIsFilled
<1>3. CASE Crash
  BY <1>3 DEF Crash, OrderInv
<1>4. CASE UNCHANGED <<plan, undisturbed>> /\ queue' \subseteq queue
  <2> SUFFICES ASSUME undisturbed, NEW p, p = plan, p # NoPlan,
                      Phases(p)[2] \cap (DOMAIN lifecycle' \cup queue') # {}
               PROVE  PhaseIsFilled(Phases(p)[1])'
    BY <1>4 DEF OrderInv
  <2>1. Phases(p)[2] \cap (DOMAIN lifecycle \cup queue) # {}
    BY <1>4, FilledStays
  <2>2. PhaseIsFilled(Phases(p)[1])
    BY <2>1 DEF OrderInv
  <2> QED
    BY <2>2, FilledStays DEF PhaseIsFilled
<1>5. \/ \E prefix \in Prefixes, target \in Courses : Plan(prefix, target)
      \/ SubmitNextPhase \/ Crash
      \/ UNCHANGED <<plan, undisturbed>> /\ queue' \subseteq queue
  BY DEF Next, BuildContexts, Submit, GatewayBlocks, RiskRejects, BrokerAccepts,
     BrokerRefuses, AcceptanceLost, EndPhase, Fill, RequestCancel, BrokerEnds,
     BrokerCancels, BrokerRejects, WindowPasses, vars, callerVars, historyVars
<1> QED
  BY <1>1, <1>2, <1>3, <1>4, <1>5

LEMMA OrderInductive == Spec => []OrderInv
BY TypesInductive, RateInductive, BookInit, BookStep, OrderInit, OrderStep, PTL
   DEF Spec

\* OpensAfterReducing: an order that opens exposure is at the broker only after
\* the whole reducing phase was filled there.
THEOREM OpeningWaits == Spec => []OpensAfterReducing
<1>1. TypeInv /\ BookInv /\ CourseInv /\ FilledInv /\ OrderInv => OpensAfterReducing
  <2> SUFFICES ASSUME TypeInv, BookInv, CourseInv, FilledInv, OrderInv,
                      plan # NoPlan, undisturbed,
                      Phases(plan)[2] \cap DOMAIN live # {},
                      NEW x \in Phases(plan)[1]
               PROVE  Between(held[x.instrument],
                              QuantityAfter(plan.start[x.instrument], x.side, x.quantity),
                              plan.target[x.instrument])
    BY DEF OpensAfterReducing
  <2>1. IsCourse(plan) /\ x \in PlanIntents(plan)
    BY PlanIsCourse DEF PlanIntents
  <2>2. PICK i \in Instruments : IsOrderOf(x, plan, i)
    BY <2>1, PlanOrders DEF IsCourse
  <2>3. x.instrument = i /\ OnCourse(plan, i)
    BY <2>1, <2>2, OrderFields DEF IsCourse, CourseInv
  <2>4. Done(x) = x.quantity
    <3>1. PhaseIsFilled(Phases(plan)[1])
      BY DEF OrderInv, BookInv
    <3> QED
      BY <3>1 DEF PhaseIsFilled, FilledInv, Load, Done, Unknown
  <2>5. x.quantity \in Nat /\ x.quantity =< DoneFor(plan, i)
    <3>1. x.quantity \in Nat
      BY <2>1, IntentTypes DEF IsCourse
    <3>2. CASE Reverses(plan, i)
      <4>1. x = FlattenOf(plan, i) \/ x = OpenOf(plan, i)
        BY <2>2, <3>2 DEF IsOrderOf
      <4>2. DoneFor(plan, i) = Done(FlattenOf(plan, i)) + Done(OpenOf(plan, i))
        BY <3>2 DEF DoneFor
      <4>3. Done(FlattenOf(plan, i)) \in Nat /\ Done(OpenOf(plan, i)) \in Nat
        BY <2>1, <3>2, OrdersOfInstrument
      <4> QED
        BY <2>4, <3>1, <4>1, <4>2, <4>3
    <3>3. CASE ~Reverses(plan, i)
      BY <2>2, <2>4, <3>1, <3>3 DEF IsOrderOf, DoneFor
    <3> QED
      BY <3>1, <3>2, <3>3
  <2>6. /\ plan.start[i] \in Int /\ plan.target[i] \in Int
        /\ held[i] \in Int /\ position[i] \in Int
        /\ LeftFor(plan, i) \in Nat /\ DoneFor(plan, i) \in Nat
    BY <2>1, SumsAreNat DEF IsCourse, IsPlan, TypeInv, RTypeOK
  <2>7. CASE plan.start[i] < plan.target[i]
    <3>1. QuantityAfter(plan.start[i], x.side, x.quantity) = plan.start[i] + x.quantity
      BY <2>1, <2>2, <2>7, OrderFields DEF QuantityAfter, IsCourse
    <3> QED
      BY <2>3, <2>5, <2>6, <2>7, <3>1 DEF OnCourse, Between
  <2>8. CASE plan.target[i] < plan.start[i]
    <3>1. QuantityAfter(plan.start[i], x.side, x.quantity) = plan.start[i] - x.quantity
      BY <2>1, <2>2, <2>8, OrderFields DEF QuantityAfter, IsCourse
    <3> QED
      BY <2>3, <2>5, <2>6, <2>8, <3>1 DEF OnCourse, Between
  <2>9. plan.start[i] < plan.target[i] \/ plan.target[i] < plan.start[i]
    BY <2>1, <2>2, <2>6, OrderFields DEF IsCourse
  <2> QED
    BY <2>7, <2>8, <2>9
<1> QED
  BY <1>1, TypesInductive, RateInductive, BookInit, BookStep, CourseInductive,
     FilledInductive, OrderInductive, PTL DEF Spec

-----------------------------------------------------------------------------
(* The position limit.  Only orders of the second phase take a position     *)
(* further out.  When their contexts are built the first phase is filled,   *)
(* so that what the risk engine holds against the limit is the target.      *)

\* The orders of an instrument in the two phases.
LEMMA PhaseOrders ==
  ASSUME NEW p, IsPlan(p), NEW i \in Instruments, NEW x, x.instrument = i
  PROVE  /\ x \in Phases(p)[1] => x \in ReducingIntents(p.prefix, i, p.start[i], p.target[i])
         /\ x \in Phases(p)[2] => x \in OpeningIntents(p.prefix, i, p.start[i], p.target[i])
         /\ ReducingIntents(p.prefix, i, p.start[i], p.target[i]) \subseteq Phases(p)[1]
         /\ OpeningIntents(p.prefix, i, p.start[i], p.target[i]) \subseteq Phases(p)[2]
<1>1. DOMAIN p.target = Instruments
  BY DEF IsPlan
<1>2. /\ Phases(p)[1] = UNION {ReducingIntents(p.prefix, j, p.start[j], p.target[j])
                                : j \in Instruments}
      /\ Phases(p)[2] = UNION {OpeningIntents(p.prefix, j, p.start[j], p.target[j])
                                : j \in Instruments}
  BY <1>1 DEF Phases, PlanRebalanceOrderPhases
<1>3. ASSUME NEW j, NEW z,
             \/ z \in ReducingIntents(p.prefix, j, p.start[j], p.target[j])
             \/ z \in OpeningIntents(p.prefix, j, p.start[j], p.target[j])
      PROVE  z.instrument = j
  <2>1. \/ z = FlattenIntent(p.prefix, j, p.start[j])
        \/ z = OpenIntent(p.prefix, j, p.start[j], p.target[j])
        \/ z = PlanOrderToTarget(p.prefix, j, p.start[j], p.target[j])
    BY <1>3 DEF ReducingIntents, OpeningIntents
  <2>2. \A side, quantity, suffix :
          BuildOrderIntent(p.prefix, j, side, quantity, suffix).instrument = j
    BY DEF BuildOrderIntent
  <2> QED
    BY <2>1, <2>2 DEF FlattenIntent, OpenIntent, PlanOrderToTarget
<1>4. ASSUME x \in Phases(p)[1]
      PROVE  x \in ReducingIntents(p.prefix, i, p.start[i], p.target[i])
  BY <1>2, <1>3, <1>4
<1>5. ASSUME x \in Phases(p)[2]
      PROVE  x \in OpeningIntents(p.prefix, i, p.start[i], p.target[i])
  BY <1>2, <1>3, <1>5
<1> QED
  BY <1>2, <1>4, <1>5

\* The contexts of the second phase hold the targets against the limit.
AimInv ==
  (undisturbed /\ contexts.built) =>
    \A p \in {plan} \ {NoPlan} : \A x \in contexts.for \cap Phases(p)[2] :
      QuantityAfter(contexts.position[x.instrument], x.side, x.quantity)
        = p.target[x.instrument]

\* A target beyond the limit is not worked at, unless the position was.
LimitInv ==
  undisturbed =>
    \A p \in {plan} \ {NoPlan} : \A i \in Instruments :
      (Abs(p.start[i]) =< Limits.maxPositionAbs /\ ~(Abs(p.target[i]) =< Limits.maxPositionAbs))
        => /\ \A x \in Phases(p)[2] \cap DOMAIN live : x.instrument # i
           /\ Abs(held[i]) =< Limits.maxPositionAbs

\* With its first phase filled and the second to come, the position of an
\* instrument is one order away from its target.
LEMMA OneOrderAway ==
  ASSUME TypeInv, CourseInv, FilledInv, undisturbed, plan # NoPlan,
         NEW x \in Phases(plan)[2], Load(x) = Unknown, PhaseIsFilled(Phases(plan)[1])
  PROVE  QuantityAfter(position[x.instrument], x.side, x.quantity)
           = plan.target[x.instrument]
<1>1. PICK p : p = plan
  OBVIOUS
<1>2. /\ IsCourse(p) /\ IsPlan(p) /\ x \in PlanIntents(p)
      /\ \A i \in Instruments : OnCourse(p, i)
  BY <1>1, PlanIsCourse DEF PlanIntents, IsCourse, CourseInv
<1>3. PICK i \in Instruments : IsOrderOf(x, p, i)
  BY <1>2, PlanOrders
<1>4. /\ x.instrument = i
      /\ p.start[i] < p.target[i] => x.side = "buy"
      /\ p.target[i] < p.start[i] => x.side = "sell"
      /\ p.start[i] # p.target[i]
  BY <1>2, <1>3, OrderFields
<1>5. x \in OpeningIntents(p.prefix, i, p.start[i], p.target[i])
  BY <1>1, <1>2, <1>4, PhaseOrders
<1>6. /\ p.start[i] \in Int /\ p.target[i] \in Int /\ position[i] \in Int
  BY <1>2 DEF IsPlan, TypeInv, RTypeOK
<1>7. Done(x) = 0
  BY DEF Done, Unknown
<1>8. CASE Reverses(p, i)
  <2>1. x = OpenOf(p, i)
    BY <1>5, <1>8 DEF OpeningIntents, Reverses, OpenOf
  <2>2. FlattenOf(p, i) \in Phases(p)[1]
    BY <1>2, <1>4, <1>8, PhaseOrders DEF ReducingIntents, Reverses, FlattenOf
  <2>3. Load(FlattenOf(p, i)).status = "filled"
    BY <1>1, <2>2 DEF PhaseIsFilled
  <2>4. Done(FlattenOf(p, i)) = FlattenOf(p, i).quantity
    BY <2>3 DEF FilledInv, Load, Done, Unknown
  <2>5. FlattenOf(p, i).quantity = Abs(p.start[i]) /\ x.quantity = Abs(p.target[i])
    BY <2>1 DEF FlattenOf, OpenOf, FlattenIntent, OpenIntent, BuildOrderIntent
  <2>6. DoneFor(p, i) = Abs(p.start[i])
    BY <1>6, <1>7, <1>8, <2>1, <2>4, <2>5 DEF DoneFor, Abs
  <2>7. IsPositionReversal(p.start[i], p.target[i])
    BY <1>8 DEF Reverses
  <2>8. position[i] = 0
    BY <1>2, <1>6, <2>6, <2>7 DEF OnCourse, IsPositionReversal, Abs
  <2> QED
    BY <1>1, <1>4, <1>6, <2>5, <2>7, <2>8 DEF QuantityAfter, IsPositionReversal, Abs
<1>9. CASE ~Reverses(p, i)
  <2>1. x = OrderOf(p, i)
    BY <1>3, <1>9 DEF IsOrderOf
  <2>2. DoneFor(p, i) = 0 /\ x.quantity = Abs(p.target[i] - p.start[i])
    BY <1>2, <1>4, <1>7, <1>9, <2>1, OrderQuantities DEF DoneFor
  <2>3. position[i] = p.start[i]
    BY <1>2, <1>6, <2>2 DEF OnCourse
  <2> QED
    BY <1>1, <1>4, <1>6, <2>2, <2>3 DEF QuantityAfter, Abs
<1> QED
  BY <1>8, <1>9

LEMMA AimStep ==
  TypeInv /\ CourseInv /\ FilledInv /\ AimInv /\ [Next]_vars => AimInv'
<1> SUFFICES ASSUME TypeInv, CourseInv, FilledInv, AimInv, [Next]_vars PROVE AimInv'
  OBVIOUS
<1>1. ASSUME NEW reading, BuildContexts(reading) PROVE AimInv'
  <2>1. /\ contexts'.for = NextIntents(plan) /\ contexts'.position = position
        /\ plan' = plan /\ plan # NoPlan /\ undisturbed' = undisturbed
        /\ NextIntents(plan) # {}
    BY <1>1 DEF BuildContexts, historyVars
  <2>2. ASSUME undisturbed, NEW x \in NextIntents(plan) \cap Phases(plan)[2]
        PROVE  QuantityAfter(position[x.instrument], x.side, x.quantity)
                 = plan.target[x.instrument]
    <3>1. x \in Phases(plan)[CurrentPhase(plan)] /\ CurrentPhase(plan) \in {1, 2}
      BY <2>1, <2>2, DueInOnePhase
    <3>2. Phases(plan)[1] \cap Phases(plan)[2] = {}
      BY <2>1, PlanIsCourse, PhasesDisjoint DEF IsCourse
    <3>3. CurrentPhase(plan) # 1
      BY <2>2, <3>1, <3>2
    <3>4. PhaseIsFilled(Phases(plan)[1])
      BY <3>3 DEF CurrentPhase
    <3>5. Load(x) = Unknown
      BY <2>2 DEF NextIntents
    <3> QED
      BY <2>1, <2>2, <3>4, <3>5, OneOrderAway
  <2> QED
    BY <2>1, <2>2 DEF AimInv
<1>2. CASE UNCHANGED <<plan, undisturbed>> /\ (contexts' = NoContexts \/ UNCHANGED contexts)
  BY <1>2 DEF AimInv, NoContexts
<1>3. CASE contexts' = NoContexts
  BY <1>3 DEF AimInv, NoContexts
<1>4. \/ \E reading \in Readings : BuildContexts(reading)
      \/ UNCHANGED <<plan, undisturbed>> /\ (contexts' = NoContexts \/ UNCHANGED contexts)
      \/ contexts' = NoContexts
  BY DEF Next, Plan, SubmitNextPhase, Submit, GatewayBlocks, RiskRejects, BrokerAccepts,
     BrokerRefuses, AcceptanceLost, EndPhase, Fill, RequestCancel, BrokerEnds,
     BrokerCancels, BrokerRejects, WindowPasses, Crash, vars, callerVars, historyVars
<1> QED
  BY <1>1, <1>2, <1>3, <1>4

\* A fill of an order of the first phase takes a reversal no further than flat.
LEMMA FlatAtMost ==
  ASSUME TypeInv, BookInv, CourseInv, FilledInv, OrderInv, undisturbed,
         plan # NoPlan, NEW x \in DOMAIN live, NEW q \in 1..MaxQuantity, Fill(x, q),
         NEW i \in Instruments, x \in Phases(plan)[1], x.instrument = i,
         Reverses(plan, i)
  PROVE  Abs(held'[i]) =< Abs(plan.start[i])
<1>1. PICK p : p = plan
  OBVIOUS
<1>2. IsCourse(p) /\ IsPlan(p) /\ OnCourse(p, i) /\ Reverses(p, i)
  BY <1>1, PlanIsCourse DEF CourseInv, IsCourse
<1>3. /\ x \in DOMAIN lifecycle /\ lifecycle[x].filled =< live[x] /\ x \in Intents
      /\ live[x] \in 0..(x.quantity - 1) /\ lifecycle[x].filled \in 0..x.quantity
      /\ x.quantity \in Nat /\ q \in Nat
  BY IntentTypes, BoundsAssumption DEF BookInv, TypeInv, RTypeOK
<1>4. Load(x).status # "filled"
  BY <1>3 DEF FilledInv, Load
<1>5. x = FlattenOf(p, i)
  BY <1>1, <1>2, PhaseOrders DEF ReducingIntents, Reverses, FlattenOf
<1>6. /\ x.side = ReversalSide(p.start[i]) /\ OpenOf(p, i).instrument = i
      /\ OpenOf(p, i).quantity = Abs(p.target[i])
  BY <1>5 DEF FlattenOf, FlattenIntent, OpenOf, OpenIntent, BuildOrderIntent
<1>7. OpenOf(p, i) \in Phases(p)[2]
  BY <1>2, <1>6, PhaseOrders DEF OpeningIntents, Reverses, OpenOf
<1>8. OpenOf(p, i) \notin DOMAIN lifecycle /\ OpenOf(p, i) \notin DOMAIN live
  BY <1>1, <1>4, <1>7 DEF OrderInv, PhaseIsFilled, BookInv
<1>9. LeftFor(p, i) = (x.quantity - live[x]) + Abs(p.target[i])
  BY <1>2, <1>5, <1>6, <1>8 DEF LeftFor, Left
<1>10. live[x] + q =< x.quantity /\ held'[i] = QuantityAfter(held[i], x.side, q)
  BY DEF Fill, TypeInv, RTypeOK
<1>11. /\ p.start[i] \in Int /\ p.target[i] \in Int
       /\ position[i] \in Int /\ held[i] \in Int /\ DoneFor(p, i) \in Nat
  BY <1>2, SumsAreNat DEF IsPlan, TypeInv, RTypeOK
<1>12. IsPositionReversal(p.start[i], p.target[i])
  BY <1>2 DEF Reverses
<1>13. IF p.start[i] =< p.target[i]
       THEN /\ p.start[i] =< held[i]
            /\ held[i] + ((x.quantity - live[x]) + Abs(p.target[i])) =< p.target[i]
       ELSE /\ held[i] =< p.start[i]
            /\ p.target[i] =< held[i] - ((x.quantity - live[x]) + Abs(p.target[i]))
  BY <1>2, <1>9, <1>11 DEF OnCourse
<1> DEFINE free == x.quantity - live[x]
           h == held[i]
<1>14. free \in Int /\ h \in Int /\ q =< free
  BY <1>3, <1>10, <1>11
<1>15. CASE p.start[i] =< p.target[i]
  <2>1. h + (free + Abs(p.target[i])) =< p.target[i] /\ p.start[i] =< h
    BY <1>13, <1>15
  <2>2. x.side = "buy"
    BY <1>6, <1>11, <1>12, <1>15 DEF ReversalSide, IsPositionReversal
  <2>3. held'[i] = h + q
    BY <1>10, <2>2 DEF QuantityAfter
  <2> HIDE DEF free, h
  <2> QED
    BY <1>1, <1>3, <1>11, <1>12, <1>14, <1>15, <2>1, <2>3 DEF IsPositionReversal, Abs
<1>16. CASE ~(p.start[i] =< p.target[i])
  <2>1. p.target[i] =< h - (free + Abs(p.target[i])) /\ h =< p.start[i]
    BY <1>13, <1>16
  <2>2. x.side = "sell"
    BY <1>6, <1>11, <1>12, <1>16 DEF ReversalSide, IsPositionReversal
  <2>3. held'[i] = h - q
    BY <1>10, <2>2 DEF QuantityAfter
  <2> HIDE DEF free, h
  <2> QED
    BY <1>1, <1>3, <1>11, <1>12, <1>14, <1>16, <2>1, <2>3 DEF IsPositionReversal, Abs
<1> QED
  BY <1>15, <1>16

LEMMA LimitStep ==
  TypeInv /\ RateInv /\ BookInv /\ CourseInv /\ FilledInv /\ OrderInv /\ AimInv /\ LimitInv
      /\ [Next]_vars
    => LimitInv'
<1> SUFFICES ASSUME TypeInv, RateInv, BookInv, CourseInv, FilledInv, OrderInv, AimInv,
                    LimitInv, [Next]_vars
             PROVE  LimitInv'
  OBVIOUS
<1>0. Limits.maxPositionAbs \in Nat
  BY LimitsAssumption
<1>1. ASSUME NEW prefix \in Prefixes, NEW target \in Courses, Plan(prefix, target)
      PROVE  LimitInv'
  <2>1. /\ plan'.start = position /\ UNCHANGED <<held, live>>
        /\ undisturbed' => DOMAIN live = {} /\ position = held
    BY <1>1 DEF Plan, brokerVars
  <2> QED
    BY <2>1 DEF LimitInv
<1>2. CASE Crash
  BY <1>2 DEF Crash, LimitInv
<1>3. CASE UNCHANGED <<plan, undisturbed, held>> /\ DOMAIN live' \subseteq DOMAIN live
  BY <1>3 DEF LimitInv
<1>4. ASSUME NEW x \in queue, Open(x), RiskApproves(x), UNCHANGED <<plan, undisturbed, held>>
      PROVE  LimitInv'
  <2> SUFFICES ASSUME undisturbed, plan # NoPlan, NEW i \in Instruments,
                      Abs(plan.start[i]) =< Limits.maxPositionAbs,
                      ~(Abs(plan.target[i]) =< Limits.maxPositionAbs)
               PROVE  \A y \in Phases(plan)[2] \cap DOMAIN live' : y.instrument # i
    BY <1>4 DEF LimitInv
  <2>1. contexts.built /\ queue \subseteq contexts.for
    BY DEF RateInv, PhaseInv
  <2>2. ASSUME x \in Phases(plan)[2], x.instrument = i PROVE FALSE
    <3>1. QuantityAfter(contexts.position[i], x.side, x.quantity) = plan.target[i]
      BY <2>1, <2>2 DEF AimInv
    <3>2. Abs(QuantityAfter(contexts.position[i], x.side, x.quantity)) =< Limits.maxPositionAbs
      BY <1>4, <2>2 DEF RiskApproves, Approves, SizesWithinLimits, PositionWithinLimit
    <3> QED
      BY <3>1, <3>2
  <2>3. DOMAIN live' = DOMAIN live \cup {x}
    BY <1>4, OpenAddsOne
  <2> QED
    BY <2>2, <2>3 DEF LimitInv
<1>5. ASSUME NEW x \in DOMAIN live, NEW q \in 1..MaxQuantity, Fill(x, q)
      PROVE  LimitInv'
  <2>1. /\ UNCHANGED <<plan, undisturbed>> /\ DOMAIN live' \subseteq DOMAIN live
        /\ \A i \in Instruments : i # x.instrument => held'[i] = held[i]
    BY <1>5, FillMovesOne DEF Fill, callerVars, historyVars, TypeInv, RTypeOK
  <2> SUFFICES ASSUME undisturbed, plan # NoPlan, NEW i \in Instruments,
                      Abs(plan.start[i]) =< Limits.maxPositionAbs,
                      ~(Abs(plan.target[i]) =< Limits.maxPositionAbs),
                      x.instrument = i
               PROVE  Abs(held'[i]) =< Limits.maxPositionAbs
    BY <2>1 DEF LimitInv
  <2>2. x \in Phases(plan)[1]
    BY DEF LimitInv, CourseInv, PlanIntents
  <2>3. IsCourse(plan) /\ IsPlan(plan)
    BY PlanIsCourse DEF IsCourse
  <2>4. /\ plan.start[i] \in Int /\ plan.target[i] \in Int /\ held'[i] \in Int
    BY <1>5, <2>3, FillTypes DEF IsPlan, TypeInv, RTypeOK
  <2>5. Reverses(plan, i)
    <3>1. x \in ReducingIntents(plan.prefix, i, plan.start[i], plan.target[i])
      BY <2>2, <2>3, PhaseOrders
    <3>2. IsRiskReducingDelta(plan.start[i], plan.target[i])
            => Abs(plan.target[i]) =< Abs(plan.start[i])
      BY <2>4 DEF IsRiskReducingDelta, Abs
    <3>3. /\ Abs(plan.target[i]) \in Int /\ Abs(plan.start[i]) \in Int
      BY <2>4 DEF Abs
    <3>4. ~IsRiskReducingDelta(plan.start[i], plan.target[i])
      BY <1>0, <3>2, <3>3
    <3> QED
      BY <3>1, <3>4 DEF ReducingIntents, Reverses
  <2>6. Abs(held'[i]) =< Abs(plan.start[i])
    BY <1>5, <2>2, <2>5, FlatAtMost
  <2>7. Abs(plan.start[i]) \in Int /\ Abs(held'[i]) \in Int
    BY <2>4 DEF Abs
  <2> QED
    BY <1>0, <2>6, <2>7
<1>6. ASSUME NEW x \in queue, Submit(x) PROVE LimitInv'
  <2>1. CASE GatewayBlocks(x) \/ RiskRejects(x) \/ BrokerRefuses(x)
    BY <1>3, <2>1 DEF GatewayBlocks, RiskRejects, BrokerRefuses, brokerVars, historyVars
  <2>2. CASE BrokerAccepts(x) \/ AcceptanceLost(x)
    BY <1>4, <2>2 DEF BrokerAccepts, AcceptanceLost, historyVars
  <2> QED
    BY <1>6, <2>1, <2>2 DEF Submit
<1>7. ASSUME NEW x \in DOMAIN live, RequestCancel(x) \/ BrokerEnds(x)
      PROVE  LimitInv'
  BY <1>3, <1>7, CloseRemovesOne DEF RequestCancel, BrokerEnds, BrokerCancels,
     BrokerRejects, brokerVars, callerVars, historyVars
<1> QED
  BY <1>1, <1>2, <1>3, <1>5, <1>6, <1>7
     DEF Next, BuildContexts, SubmitNextPhase, WindowPasses, vars, callerVars,
         brokerVars, historyVars

LEMMA LimitInductive == Spec => [](AimInv /\ LimitInv)
<1>1. Init => AimInv /\ LimitInv
  BY DEF Init, AimInv, LimitInv
<1>2. TypeInv /\ RateInv /\ BookInv /\ CourseInv /\ FilledInv /\ OrderInv
          /\ AimInv /\ LimitInv /\ [Next]_vars
        => (AimInv /\ LimitInv)'
  BY AimStep, LimitStep
<1> QED
  BY <1>1, <1>2, TypesInductive, RateInductive, BookInit, BookStep, CourseInductive,
     FilledInductive, OrderInductive, PTL DEF Spec

\* UndisturbedKeepsLimit: an undisturbed plan takes no position beyond the limit
\* that was not there before, although each order is checked alone.
THEOREM PlansKeepLimit == Spec => []UndisturbedKeepsLimit
<1>1. TypeInv /\ CourseInv /\ LimitInv => UndisturbedKeepsLimit
  <2> SUFFICES ASSUME TypeInv, CourseInv, LimitInv, plan # NoPlan, undisturbed,
                      NEW i \in Instruments, Abs(plan.start[i]) =< Limits.maxPositionAbs
               PROVE  Abs(held[i]) =< Limits.maxPositionAbs
    BY DEF UndisturbedKeepsLimit
  <2>1. CASE ~(Abs(plan.target[i]) =< Limits.maxPositionAbs)
    BY <2>1 DEF LimitInv
  <2>2. CASE Abs(plan.target[i]) =< Limits.maxPositionAbs
    <3>1. IsCourse(plan) /\ OnCourse(plan, i)
      BY PlanIsCourse DEF CourseInv
    <3>2. /\ plan.start[i] \in Int /\ plan.target[i] \in Int
          /\ held[i] \in Int /\ position[i] \in Int
          /\ LeftFor(plan, i) \in Nat /\ DoneFor(plan, i) \in Nat
          /\ Limits.maxPositionAbs \in Nat
      BY <3>1, SumsAreNat, LimitsAssumption DEF IsCourse, IsPlan, TypeInv, RTypeOK
    <3>3. Between(held[i], plan.start[i], plan.target[i])
      BY <3>1, <3>2 DEF OnCourse, Between
    <3> QED
      BY <2>2, <3>2, <3>3 DEF Between, Abs
  <2> QED
    BY <2>1, <2>2
<1> QED
  BY <1>1, TypesInductive, CourseInductive, LimitInductive, PTL
=============================================================================
