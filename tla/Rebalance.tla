----------------------------- MODULE Rebalance ------------------------------
(***************************************************************************)
(* A rebalance: positions are planned to targets in two phases             *)
(* (order_planning.py), RebalanceExecutionCoordinator decides from the     *)
(* persisted lifecycles which phase is due, risk contexts are built for    *)
(* its unsubmitted orders (rebalance_risk_context.py), and                 *)
(* RebalancePhaseSubmissionService submits them one after the other.       *)
(* Between any two of these steps orders are filled, canceled or rejected, *)
(* and a crash loses the plan but not the lifecycles.                      *)
(*                                                                         *)
(* One submission, and one broker update with what it does to lifecycle    *)
(* and ledger, is a single step here; OrderFlow takes them apart.          *)
(***************************************************************************)
EXTENDS RiskEngine, OrderLifecycle

CONSTANTS
  Targets,       \* how many targets a plan has
  Starts,        \* the positions a system may begin with
  Courses,       \* the targets a plan may be made for
  Prefixes,      \* client order prefixes
  Readings,      \* what account, market and margin inputs may read
  Limits,        \* the RiskLimits
  MaxQuantity,   \* bound: no order of a plan is larger
  MaxPlans,      \* bound: plans made
  MaxCrashes,    \* bound
  MaxLost        \* bound: acceptances reported as errors

\* Instruments are numbered in the order of the targets.
Instruments == 1..Targets

ASSUME BoundsAssumption == Targets \in Nat /\ MaxQuantity \in Nat

ASSUME PositionsAssumption ==
  /\ Starts \subseteq [Instruments -> Int]
  /\ Courses \subseteq [Instruments -> Int]

\* RiskLimits refuses other limits.
ASSUME LimitsAssumption ==
  /\ Limits.maxOrdersPerWindow \in Nat \ {0}
  /\ Limits.maxPositionAbs \in Nat \ {0}

VARIABLES
  plan,        \* the phases the caller holds, as what they were planned from
  contexts,    \* the risk contexts built for the orders of one phase
  queue,       \* orders of the phase submit_next_phase has yet to submit
  lifecycle,   \* persisted lifecycles, by intent
  activity,    \* intents in the activity log
  recent,      \* accepted orders in the rate window
  position,    \* positions.json
  held,        \* the broker's positions
  live,        \* open orders at the broker, with their filled quantity
  undisturbed, \* the plan was made from reconciled positions, with no order
               \* open and under a new prefix (history)
  plans,       \* history
  crashes,     \* history
  lost         \* history

callerVars == <<plan, contexts, queue>>
storeVars  == <<lifecycle, activity, recent, position>>
brokerVars == <<held, live>>
historyVars == <<undisturbed, plans, crashes, lost>>
vars == <<callerVars, storeVars, brokerVars, historyVars>>

-----------------------------------------------------------------------------
Intents ==
  [prefix : Prefixes, instrument : Instruments, side : {"buy", "sell"},
   quantity : 1..MaxQuantity, suffix : {"", "flatten", "open"},
   price : {LimitPrice}]

NoPlan == [prefix |-> "none"]
NoContexts == [built |-> FALSE]

Load(intent) ==
  IF intent \in DOMAIN lifecycle THEN lifecycle[intent] ELSE Unknown

Save(intent, lc) ==
  lifecycle' = [x \in DOMAIN lifecycle \cup {intent} |->
                  IF x = intent THEN lc ELSE lifecycle[x]]

Phases(p) == PlanRebalanceOrderPhases(p.prefix, p.start, p.target)

PlanIntents(p) == Phases(p)[1] \cup Phases(p)[2]

Init ==
  /\ plan = NoPlan
  /\ contexts = NoContexts
  /\ queue = {}
  /\ lifecycle = << >>
  /\ activity = {}
  /\ recent = 0
  /\ position \in Starts
  /\ held = position
  /\ live = << >>
  /\ undisturbed = FALSE
  /\ plans = 0
  /\ crashes = 0
  /\ lost = 0

-----------------------------------------------------------------------------
(* Planning.                                                               *)

Plan(prefix, target) ==
  /\ queue = {}
  /\ plans < MaxPlans
  /\ plans' = plans + 1
  /\ plan' = [prefix |-> prefix, start |-> position, target |-> target]
  /\ PlanIntents(plan') \subseteq Intents
  /\ contexts' = NoContexts
  /\ undisturbed' = /\ DOMAIN live = {}
                    /\ position = held
                    /\ \A x \in DOMAIN lifecycle : x.prefix # prefix
  /\ UNCHANGED <<queue, storeVars, brokerVars, crashes, lost>>

-----------------------------------------------------------------------------
(* The coordinator.                                                        *)

\* Mutant: a rejected order does not fail its phase.
CanceledOnly(phase) == \E x \in phase : Load(x).status = "canceled"

Failed(phase) == \E x \in phase : Load(x).status \in {"canceled", "rejected"}

\* Mutant: an order that has begun to fill lets its phase pass.
PhaseIsUnderWay(phase) ==
  \A x \in phase : Load(x).status \in {"filled", "partially_filled"}

PhaseIsFilled(phase) == \A x \in phase : Load(x).status = "filled"

\* The first phase that is not filled; 0 when the rebalance is complete.
CurrentPhase(p) ==
  IF ~PhaseIsFilled(Phases(p)[1]) THEN 1
  ELSE IF ~PhaseIsFilled(Phases(p)[2]) THEN 2 ELSE 0

\* A phase with a canceled or rejected order stops the rebalance; otherwise
\* its orders without a lifecycle are due, and when there is none the
\* rebalance waits for fills.
NextIntents(p) ==
  LET current == CurrentPhase(p) IN
  IF current = 0 \/ Failed(Phases(p)[current]) THEN {}
  ELSE {x \in Phases(p)[current] : Load(x) = Unknown}

Complete(p) == CurrentPhase(p) = 0

Stopped(p) == CurrentPhase(p) # 0 /\ Failed(Phases(p)[CurrentPhase(p)])

-----------------------------------------------------------------------------
(* Risk contexts.  All contexts of a phase share one set of inputs, taken  *)
(* before its first order is submitted.                                    *)

\* Mutant: an order that has begun to fill no longer counts as working.
UnfilledRecords == {x \in activity : Load(x).status = "working"}

\* working_order_intents_from_activity; the remaining quantity, which no check
\* reads, is left out.
WorkingRecords ==
  {x \in activity : Load(x).status \in {"working", "partially_filled"}}

BuildContexts(reading) ==
  /\ plan # NoPlan /\ queue = {}
  /\ NextIntents(plan) # {}
  /\ contexts' = [built |-> TRUE, for |-> NextIntents(plan),
                  reading |-> reading, position |-> position,
                  reconciled |-> (position = held), recent |-> recent,
                  used |-> activity, working |-> WorkingRecords]
  /\ UNCHANGED <<plan, queue, storeVars, brokerVars, historyVars>>

\* The RiskContext of one intent.
ContextOf(x) ==
  [killSwitchActive |-> contexts.reading.killSwitchActive,
   positionsReconciled |-> contexts.reconciled,
   account |-> contexts.reading.account,
   market |-> contexts.reading.market,
   instrumentId |-> x.instrument,
   instrument |-> contexts.reading.instrument,
   realizedPnl |-> contexts.reading.realizedPnl,
   recent |-> contexts.recent,
   working |-> {w \in contexts.working :
                  w.instrument = x.instrument /\ w # x},
   used |-> contexts.used,
   margin |-> [initial |-> contexts.reading.initialMargin * x.quantity,
               maintenance |-> contexts.reading.maintenanceMargin * x.quantity]]

RiskApproves(x) ==
  Approves(Limits, x,
           QuantityAfter(contexts.position[x.instrument], x.side, x.quantity),
           ContextOf(x))

-----------------------------------------------------------------------------
(* Submission of a phase.                                                  *)

\* Every order that is due needs a context; otherwise nothing is submitted.
SubmitNextPhase ==
  /\ plan # NoPlan /\ queue = {}
  /\ contexts.built
  /\ NextIntents(plan) # {}
  /\ NextIntents(plan) \subseteq contexts.for
  /\ queue' = NextIntents(plan)
  /\ UNCHANGED <<plan, contexts, storeVars, brokerVars, historyVars>>

\* The next order of the phase: the one of the first target.
IsNext(x) == x \in queue /\ \A y \in queue : x.instrument =< y.instrument

\* The phase ends: nothing is left to submit, and its contexts are used up.
EndPhase == queue' = {} /\ contexts' = NoContexts

\* The gateway blocks the order (a halt, readiness): nothing is saved.
GatewayBlocks(x) ==
  /\ IsNext(x)
  /\ EndPhase
  /\ UNCHANGED <<plan, storeVars, brokerVars, historyVars>>

RiskRejects(x) ==
  /\ IsNext(x)
  /\ ~RiskApproves(x)
  /\ Save(x, MarkRejected(PendingSubmit))
  /\ EndPhase
  /\ UNCHANGED <<plan, activity, recent, position, brokerVars, historyVars>>

\* The order is open at the broker, with nothing filled.
Open(x) == live' = [y \in DOMAIN live \cup {x} |-> IF y = x THEN 0 ELSE live[y]]

BrokerAccepts(x) ==
  /\ IsNext(x)
  /\ RiskApproves(x)
  /\ Open(x)
  /\ Save(x, MarkWorking(PendingSubmit))
  /\ activity' = activity \cup {x}
  /\ recent' = recent + 1
  /\ queue' = queue \ {x}
  /\ contexts' = IF queue' = {} THEN NoContexts ELSE contexts
  /\ UNCHANGED <<plan, position, held, historyVars>>

BrokerRefuses(x) ==
  /\ IsNext(x)
  /\ RiskApproves(x)
  /\ Save(x, MarkRejected(PendingSubmit))
  /\ EndPhase
  /\ UNCHANGED <<plan, activity, recent, position, brokerVars, historyVars>>

\* The broker takes the order, but the adapter reports an error.
AcceptanceLost(x) ==
  /\ IsNext(x)
  /\ RiskApproves(x)
  /\ lost < MaxLost
  /\ lost' = lost + 1
  /\ Open(x)
  /\ Save(x, MarkRejected(PendingSubmit))
  /\ EndPhase
  /\ UNCHANGED <<plan, activity, recent, position, held, undisturbed, plans,
                 crashes>>

-----------------------------------------------------------------------------
(* What happens to open orders.                                            *)

Close(x) == live' = [y \in DOMAIN live \ {x} |-> live[y]]

FillInBook(x, q) ==
  IF live[x] + q = x.quantity THEN Close(x)
  ELSE live' = [live EXCEPT ![x] = @ + q]

\* The broker fills; the update is applied to lifecycle and position, or
\* refused (no activity record, a cancel pending).
Fill(x, q) ==
  /\ x \in DOMAIN live
  /\ live[x] + q =< x.quantity
  /\ FillInBook(x, q)
  /\ held' = [held EXCEPT ![x.instrument] = QuantityAfter(@, x.side, q)]
  /\ \/ /\ x \in activity
        /\ CanRecordFill(Load(x), q, x.quantity)
        /\ Save(x, RecordFill(Load(x), q, x.quantity))
        /\ position' = [position EXCEPT ![x.instrument] =
                          QuantityAfter(@, x.side, q)]
     \/ /\ ~(x \in activity /\ CanRecordFill(Load(x), q, x.quantity))
        /\ UNCHANGED <<lifecycle, position>>
  /\ UNCHANGED <<callerVars, activity, recent, historyVars>>

\* An operator or a sweep requests a cancel, and the broker takes the request.
RequestCancel(x) ==
  /\ x \in DOMAIN live \cap activity
  /\ CanMarkPendingCancel(Load(x))
  /\ Save(x, MarkPendingCancel(Load(x)))
  /\ UNCHANGED <<callerVars, activity, recent, position, brokerVars, historyVars>>

\* The broker ends the order, on request or on its own (a day order expires);
\* without a pending cancel the update is refused.
BrokerCancels(x) ==
  /\ x \in DOMAIN live
  /\ Close(x)
  /\ \/ CanMarkCanceled(Load(x)) /\ Save(x, MarkCanceled(Load(x)))
     \/ ~CanMarkCanceled(Load(x)) /\ UNCHANGED lifecycle
  /\ UNCHANGED <<callerVars, activity, recent, position, held, historyVars>>

\* The broker rejects an order it had taken.
BrokerRejects(x) ==
  /\ x \in DOMAIN live
  /\ live[x] = 0
  /\ Close(x)
  /\ \/ CanMarkRejected(Load(x)) /\ Save(x, MarkRejected(Load(x)))
     \/ ~CanMarkRejected(Load(x)) /\ UNCHANGED lifecycle
  /\ UNCHANGED <<callerVars, activity, recent, position, held, historyVars>>

\* The oldest order leaves the rate window.
WindowPasses ==
  /\ recent > 0
  /\ recent' = recent - 1
  /\ UNCHANGED <<callerVars, lifecycle, activity, position, brokerVars,
                 historyVars>>

Crash ==
  /\ crashes < MaxCrashes
  /\ crashes' = crashes + 1
  /\ plan' = NoPlan
  /\ queue' = {}
  /\ contexts' = NoContexts
  /\ UNCHANGED <<storeVars, brokerVars, undisturbed, plans, lost>>

-----------------------------------------------------------------------------
Submit(x) ==
  \/ GatewayBlocks(x) \/ RiskRejects(x) \/ BrokerAccepts(x)
  \/ BrokerRefuses(x) \/ AcceptanceLost(x)

BrokerEnds(x) == BrokerCancels(x) \/ BrokerRejects(x)

Next ==
  \/ \E prefix \in Prefixes, target \in Courses : Plan(prefix, target)
  \/ \E reading \in Readings : BuildContexts(reading)
  \/ SubmitNextPhase
  \/ \E x \in queue : Submit(x)
  \/ \E x \in DOMAIN live :
       (\E q \in 1..MaxQuantity : Fill(x, q)) \/ RequestCancel(x) \/ BrokerEnds(x)
  \/ WindowPasses \/ Crash

Spec == Init /\ [][Next]_vars

-----------------------------------------------------------------------------
(* Properties.                                                             *)

Between(n, a, b) == (a =< n /\ n =< b) \/ (b =< n /\ n =< a)

\* The types of the variables, and an open order is not yet filled.
RTypeOK ==
  /\ plan = NoPlan \/ plan \in [prefix : Prefixes, start : [Instruments -> Int],
                                target : Courses]
  /\ contexts = NoContexts \/ contexts.for \subseteq Intents
  /\ queue \subseteq Intents
  /\ DOMAIN lifecycle \subseteq Intents
  /\ \A x \in DOMAIN lifecycle :
       lifecycle[x] \in [status : Statuses, filled : 0..x.quantity]
  /\ activity \subseteq DOMAIN lifecycle
  /\ recent \in Nat
  /\ position \in [Instruments -> Int]
  /\ held \in [Instruments -> Int]
  /\ DOMAIN live \subseteq Intents
  /\ \A x \in DOMAIN live : live[x] \in 0..(x.quantity - 1)

\* While a plan that nothing disturbed is carried out, every position the
\* broker holds is between where it was and its target, through partial
\* fills, cancels, lost replies and failed phases: a reversal never opens the
\* new side before the old one is closed, and nothing overshoots.
StaysOnCourse ==
  (plan # NoPlan /\ undisturbed) =>
     \A i \in Instruments : Between(held[i], plan.start[i], plan.target[i])

\* An order that opens exposure is at the broker only after the whole reducing
\* phase has been filled there.
OpensAfterReducing ==
  (plan # NoPlan /\ undisturbed /\ Phases(plan)[2] \cap DOMAIN live # {}) =>
     \A x \in Phases(plan)[1] :
        Between(held[x.instrument],
                QuantityAfter(plan.start[x.instrument], x.side, x.quantity),
                plan.target[x.instrument])

\* When the coordinator reports completion the broker holds the targets.
CompleteMeansOnTarget ==
  (plan # NoPlan /\ undisturbed /\ Complete(plan)) =>
     held = plan.target /\ position = held

\* Two orders of the platform that could be matched with each other are open
\* together only after one of them lost its lifecycle's working status: a
\* cancel was requested for it, or its acceptance was reported as an error.
MatchableOnlyWhenEnding ==
  \A x, y \in DOMAIN live :
    CouldMatch(x, y) =>
      \E z \in {x, y} : Load(z).status \in {"pending_cancel", "rejected"}

\* The rate limit can be exceeded, but only within one phase: all of its
\* orders are checked against the count from before the first of them.
RateExceededWithinPhase ==
  recent < Limits.maxOrdersPerWindow + Targets

\* An undisturbed plan keeps the position limit.
UndisturbedKeepsLimit ==
  (plan # NoPlan /\ undisturbed) =>
     \A i \in Instruments :
       Abs(plan.start[i]) =< Limits.maxPositionAbs =>
         Abs(held[i]) =< Limits.maxPositionAbs

\* The documentation lists, among the orders that the risk engine rejects,
\* those whose resulting position exceeds the limit: the positions that result
\* from approved orders stay within it.
PositionsWithinLimit ==
  \A i \in Instruments : Abs(held[i]) =< Limits.maxPositionAbs

-----------------------------------------------------------------------------
(* Fairness.  The caller goes on with its plan; an order that is submitted  *)
(* again and again is not blocked by the gateway each time; the broker does *)
(* not keep an order open forever.                                          *)

FairSpec ==
  /\ Spec
  /\ WF_vars(\E reading \in Readings : BuildContexts(reading))
  /\ WF_vars(SubmitNextPhase)
  /\ WF_vars(\E x \in queue : Submit(x))
  /\ SF_vars(\E x \in queue : RiskRejects(x) \/ BrokerAccepts(x) \/ BrokerRefuses(x))
  /\ WF_vars(\E x \in DOMAIN live :
                (\E q \in 1..MaxQuantity : Fill(x, q)) \/ BrokerEnds(x))

\* The update that ended the order was refused: it is closed at the broker and
\* still open in its lifecycle.
Lapsed(x) ==
  /\ x \in DOMAIN lifecycle \ DOMAIN live
  /\ lifecycle[x].status \notin TerminalStatuses

\* A plan ends: complete, stopped by a canceled or rejected order, or waiting
\* for an order the broker ended on its own or filled while its cancel was
\* pending.
RebalanceEnds ==
  (plan # NoPlan) ~>
     \/ plan = NoPlan \/ Complete(plan) \/ Stopped(plan)
     \/ \E x \in PlanIntents(plan) : Lapsed(x)
=============================================================================
