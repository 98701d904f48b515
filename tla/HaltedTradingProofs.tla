------------------------- MODULE HaltedTradingProofs -------------------------
(***************************************************************************)
(* Proofs about HaltedTrading, for every set of orders, every quantity and *)
(* any number of attempts, crashes and operator commands.                  *)
(***************************************************************************)
EXTENDS HaltedTrading, OrderFlowProofs

\* While the halt lasts the file cannot be read as inactive, so that only an
\* order that was admitted before can still reach the broker; there is at most
\* one of those, in the gateway or in the submission.
Admitted == gateway # Idle \/ trader.pc = "handoff"

HaltInv ==
  /\ gateway \in GatewayStates /\ operator \in OperatorStates
  /\ halted \in BOOLEAN /\ leaked \in Nat
  /\ gateway # Idle => trader = Idle
  /\ halted => /\ haltFile # "inactive"
               /\ leaked =< 1
               /\ Admitted => leaked = 0

\* Every step of the switched system is a step of the order path or leaves it
\* alone, so that what is proved of OrderFlow holds here.
LEMMA SwitchedStep ==
  ASSUME gateway \in GatewayStates, [HNext]_allVars
  PROVE  [Next]_vars
<1>1. CASE Activate \/ Clear
  BY <1>1 DEF Activate, Clear, StartWrite
<1>2. CASE FinishWrite
  BY <1>2 DEF FinishWrite
<1>3. ASSUME NEW o \in Orders, Admit(o) PROVE [Next]_vars
  BY <1>3 DEF Admit
<1>4. CASE Decide
  <2>1. gateway.order \in Orders
    BY <1>4 DEF Decide, GatewayStates, Idle
  <2> QED
    BY <1>4, <2>1 DEF Decide, Next, Submission
<1>5. CASE HandOff
  BY <1>5 DEF HandOff, Next, Submission
<1>6. CASE Sweeping
  BY <1>6 DEF Sweeping, StartSweep, Visit, CancelGoesThrough, CancelIsRefused,
     CancelRaises, FinishSweep, Next, Cancellation
<1>7. CASE Unswitched
  BY <1>7 DEF Unswitched, Next, Submission
<1>8. CASE CrashAll
  BY <1>8 DEF CrashAll, Next
<1>9. CASE UNCHANGED allVars
  BY <1>9 DEF allVars
<1> QED
  BY <1>1, <1>2, <1>3, <1>4, <1>5, <1>6, <1>7, <1>8, <1>9 DEF HNext

LEMMA HaltInit == HInit => HaltInv
<1> SUFFICES ASSUME HInit PROVE HaltInv
  OBVIOUS
<1>1. gateway = Idle /\ operator = Idle /\ halted = FALSE /\ leaked = 0
  BY DEF HInit
<1>2. trader = Idle
  BY DEF HInit, Init
<1> QED
  BY <1>1, <1>2 DEF HaltInv, GatewayStates, OperatorStates

LEMMA HaltStep ==
  ASSUME TypeOK, HaltInv, HNext
  PROVE  HaltInv'
<1> USE DEF HaltInv, Admitted
<1>1. CASE Activate \/ Clear
  BY <1>1 DEF Activate, Clear, StartWrite, vars, OperatorStates, HaltStates
<1>2. CASE FinishWrite
  <2>1. operator.state \in HaltStates
    BY <1>2 DEF FinishWrite, OperatorStates, Idle
  <2>2. /\ operator' = Idle /\ haltFile' = operator.state
        /\ leaked' = IF halted THEN leaked ELSE 0
        /\ UNCHANGED <<gateway, trader>>
    BY <1>2 DEF FinishWrite, vars
  <2>3. CASE operator.state = "active"
    <3>1. halted' = TRUE
      BY <1>2, <2>3 DEF FinishWrite
    <3> QED
      BY <2>2, <2>3, <3>1 DEF OperatorStates
  <2>4. CASE operator.state = "inactive"
    <3>1. halted' = FALSE
      BY <1>2, <2>4 DEF FinishWrite
    <3> QED
      BY <2>2, <3>1 DEF OperatorStates
  <2> QED
    BY <2>1, <2>3, <2>4 DEF HaltStates
<1>3. ASSUME NEW o \in Orders, Admit(o) PROVE HaltInv'
  BY <1>3 DEF Admit, vars, GatewayStates
<1>4. CASE Decide
  <2>1. gateway # Idle /\ gateway' = Idle
        /\ UNCHANGED <<haltFile, operator, halted, leaked>>
    BY <1>4 DEF Decide, Idle
  <2> QED
    BY <2>1 DEF GatewayStates
<1>5. CASE HandOff
  <2>1. trader.pc = "handoff" /\ trader'.pc # "handoff"
    BY <1>5 DEF HandOff, HandoffAccepted, HandoffRefused, HandoffReplyLost,
       HandoffTimeout, TypeOK, TraderStates, Idle
  <2>2. gateway = Idle
    BY <2>1 DEF Idle
  <2>3. /\ leaked' = IF halted THEN leaked + 1 ELSE leaked
        /\ UNCHANGED <<haltFile, operator, gateway, halted>>
    BY <1>5 DEF HandOff
  <2> QED
    BY <2>1, <2>2, <2>3
<1>6. CASE Sweeping
  <2>1. UNCHANGED <<haltFile, operator, gateway, halted, leaked, trader>>
    BY <1>6 DEF Sweeping, StartSweep, Visit, CancelGoesThrough,
       CancelIsRefused, CancelRaises, FinishSweep, RequestCancel,
       CancelAccepted, SavePendingCancel, CancelFailed, haltVars, vars
  <2> QED
    BY <2>1
<1>7. CASE Unswitched
  <2>1. UNCHANGED <<haltFile, operator, gateway, halted, leaked>>
    BY <1>7 DEF Unswitched, haltVars
  <2>2. /\ trader'.pc = "handoff" => trader.pc = "handoff"
        /\ trader = Idle => trader' = Idle
    BY <1>7 DEF Unswitched, SaveWorking, RecordSubmission, UpdateHandling,
       ApplyUpdate, RefuseUpdate, SaveLifecycle, SavePositions,
       RefusePositions, AppendProcessed, Broker, BrokerAcknowledges,
       BrokerCancels, BrokerRejects, BrokerFills, BrokerOnly, TypeOK,
       TraderStates, Idle
  <2> QED
    BY <2>1, <2>2
<1>8. CASE CrashAll
  BY <1>8 DEF CrashAll, Crash, CrashInSavePositions, Restart, Idle,
     GatewayStates, OperatorStates
<1> QED
  BY <1>1, <1>2, <1>3, <1>4, <1>5, <1>6, <1>7, <1>8 DEF HNext

LEMMA HaltInvariant == HSpec => Spec /\ []HaltInv
<1>1. HInit => Init /\ HaltInv /\ TypeOK
  BY HaltInit, InitType DEF HInit
<1>2. ASSUME TypeOK, HaltInv, [HNext]_allVars
      PROVE  [Next]_vars /\ TypeOK' /\ HaltInv'
  <2>1. [Next]_vars
    BY <1>2, SwitchedStep DEF HaltInv
  <2>2. TypeOK'
    BY <1>2, <2>1, TypeStep
  <2>3. UNCHANGED allVars => HaltInv'
    BY <1>2 DEF allVars, haltVars, vars, HaltInv, Admitted
  <2>4. HNext => HaltInv'
    BY <1>2, HaltStep
  <2> QED
    BY <1>2, <2>1, <2>2, <2>3, <2>4
<1> QED
  BY <1>1, <1>2, PTL DEF HSpec, Spec

\* From a completed activation to the next completed clear at most one order
\* reaches the broker.
THEOREM HaltLeaksAtMostOne == HSpec => []HaltLeaksOneOrder
<1>1. HaltInv => HaltLeaksOneOrder
  BY DEF HaltInv, HaltLeaksOneOrder
<1> QED
  BY <1>1, HaltInvariant, PTL

\* The kill switch leaves the order path's own guarantees intact.
THEOREM SwitchedLifecyclesConsistent == HSpec => []FillsWithinOrder
BY HaltInvariant, LifecyclesConsistent, PTL

SweepTyped == haltFile \in HaltStates \cup {"torn"} /\ sweep \in SweepStates

LEMMA SweepStep ==
  ASSUME TypeOK, HaltInv, SweepTyped, [HNext]_allVars
  PROVE  SweepTyped'
<1> USE DEF SweepTyped
<1>1. CASE Activate \/ Clear
  BY <1>1 DEF Activate, Clear, StartWrite
<1>2. CASE FinishWrite
  <2>1. operator.state \in HaltStates
    BY <1>2 DEF FinishWrite, HaltInv, OperatorStates, Idle
  <2>2. haltFile' \in HaltStates
    BY <1>2, <2>1 DEF FinishWrite
  <2>3. sweep' \in SweepStates
    <3>1. CASE sweep = Idle
      BY <1>2, <3>1 DEF FinishWrite
    <3>2. CASE sweep # Idle
      <4>1. sweep' = [sweep EXCEPT !.halted = @ /\ operator.state = "active"]
        BY <1>2, <3>2 DEF FinishWrite
      <4>2. sweep.halted \in BOOLEAN
        BY <3>2 DEF SweepStates, Idle
      <4>3. (sweep.halted /\ operator.state = "active") \in BOOLEAN
        OBVIOUS
      <4> QED
        BY <3>2, <4>1, <4>2, <4>3 DEF SweepStates
    <3> QED
      BY <3>1, <3>2
  <2> QED
    BY <2>2, <2>3
<1>3. ASSUME NEW o \in Orders, Admit(o) PROVE SweepTyped'
  BY <1>3 DEF Admit
<1>4. CASE Decide \/ HandOff
  BY <1>4 DEF Decide, HandOff
<1>5. CASE StartSweep
  <2>1. OnTheirWay \in SUBSET Orders
    BY DEF OnTheirWay
  <2>2. halted \in BOOLEAN
    BY DEF HaltInv
  <2> QED
    BY <1>5, <2>1, <2>2 DEF StartSweep, SweepStates
<1>6. ASSUME NEW o \in Orders, Visit(o) PROVE SweepTyped'
  <2>1. sweep.pc = "running" /\ sweep' = [sweep EXCEPT !.todo = @ \ {o}] /\ haltFile' = haltFile
    BY <1>6 DEF Visit
  <2> QED
    BY <2>1 DEF SweepStates, Idle
<1>7. CASE CancelGoesThrough
  BY <1>7 DEF CancelGoesThrough, haltVars
<1>8. CASE CancelIsRefused
  <2>1. canceler.order \in Orders
    BY <1>8 DEF CancelIsRefused, CancelFailed, TypeOK, CancelerStates, Idle
  <2>2. haltFile' = haltFile /\ sweep' = [sweep EXCEPT !.failed = @ \cup {canceler.order}]
    BY <1>8 DEF CancelIsRefused
  <2> QED
    BY <2>1, <2>2 DEF SweepStates, Idle
<1>9. CASE CancelRaises
  BY <1>9 DEF CancelRaises, SweepStates
<1>10. CASE FinishSweep
  BY <1>10 DEF FinishSweep, SweepStates, Idle
<1>11. CASE Unswitched \/ UNCHANGED allVars
  BY <1>11 DEF Unswitched, haltVars, allVars
<1>12. CASE CrashAll
  BY <1>12 DEF CrashAll, SweepStates
<1> QED
  BY <1>1, <1>2, <1>3, <1>4, <1>5, <1>6, <1>7, <1>8, <1>9, <1>10, <1>11, <1>12
  DEF HNext, Sweeping

\* Every variable of the kill switch and the sweep keeps its type.
THEOREM HaltedTypes == HSpec => []HTypeOK
<1>1. HInit => SweepTyped
  BY DEF HInit, SweepTyped, SweepStates, HaltStates
<1>2. SweepTyped /\ HaltInv => HTypeOK
  BY DEF SweepTyped, HaltInv, HTypeOK
<1> QED
  BY <1>1, <1>2, HaltInvariant, TypeCorrect, SweepStep, PTL DEF HSpec

-----------------------------------------------------------------------------
(* The sweep.  While it runs, and after it, every recorded order that is    *)
(* open at the broker is still to be visited, is being canceled, was        *)
(* refused, was on its way, or was submitted again.                         *)

Attended(o) ==
  \/ o \in sweep.todo \cup sweep.failed \cup sweep.inflight
  \/ attempts[o] > activity[o]
  \/ canceler.pc = "cancel" /\ canceler.order = o

SweepInv ==
  /\ canceler.pc # "idle" => sweep.pc = "running"
  /\ sweep # Idle /\ sweep.halted =>
       /\ halted
       /\ OnTheirWay \subseteq sweep.inflight
       /\ NoFault => \A o \in Orders : LeftOpen(o) => Attended(o)

\* An order becomes recorded and open only at the end of its submission.
LEMMA OpenedBySubmission ==
  ASSUME TypeOK, BookInv, HandlersFit, [Next]_vars, NEW o \in Orders, LeftOpen(o)'
  PROVE  \/ LeftOpen(o) /\ activity'[o] = activity[o]
         \/ trader # Idle /\ trader.order = o
<1>1. CASE activity'[o] = activity[o]
  <2>1. PICK n \in Attempts : n = activity[o] /\ n # 0
    BY <1>1, BoundsAssumption DEF LeftOpen, TypeOK, Attempts
  <2>2. broker'[o][n].state = "open"
    BY <1>1, <2>1 DEF LeftOpen
  <2>3. BrokerMove(o, n)
    BY <2>1, BrokerMoves
  <2>4. broker[o][n].state = "open" \/ (trader.pc = "handoff" /\ trader.order = o)
    BY <2>2, <2>3 DEF BrokerMove
  <2> QED
    BY <1>1, <2>1, <2>4 DEF LeftOpen, Idle
<1>2. CASE activity'[o] # activity[o]
  BY <1>2, ActivityStays DEF Idle
<1> QED
  BY <1>1, <1>2

LEMMA AttemptsGrow ==
  ASSUME TypeOK, [Next]_vars, NEW o \in Orders
  PROVE  attempts[o] \in Nat /\ attempts'[o] \in Nat /\ attempts'[o] >= attempts[o]
<1>0. attempts[o] \in Nat
  BY BoundsAssumption DEF TypeOK
<1>1. ASSUME NEW p \in Orders, attempts' = [attempts EXCEPT ![p] = @ + 1]
      PROVE  attempts'[o] \in Nat /\ attempts'[o] >= attempts[o]
  <2>1. attempts'[o] = attempts[o] \/ attempts'[o] = attempts[o] + 1
    BY <1>1 DEF TypeOK
  <2> QED
    BY <1>0, <2>1
<1>2. attempts' = attempts \/ \E p \in Orders : attempts' = [attempts EXCEPT ![p] = @ + 1]
  BY DEF Next, Submission, RiskReject, RiskApprove, HandoffAccepted, HandoffRefused,
     HandoffReplyLost, HandoffTimeout, SaveWorking, RecordSubmission,
     UpdateHandling, ApplyUpdate, RefuseUpdate, SaveLifecycle, SavePositions,
     RefusePositions, AppendProcessed, Cancellation, RequestCancel, CancelAccepted,
     CancelFailed, SavePendingCancel, Broker, BrokerAcknowledges, BrokerCancels,
     BrokerRejects, BrokerFills, BrokerOnly, Crash, CrashInSavePositions, Restart, vars
<1> QED
  BY <1>0, <1>1, <1>2

\* Whatever the order path does, an order that is open afterwards was open
\* before or was on its way, and a second submission is not forgotten.
LEMMA OpenStays ==
  ASSUME TypeOK, BookInv, HandlersFit, [Next]_vars, NEW o \in Orders, LeftOpen(o)'
  PROVE  \/ o \in OnTheirWay
         \/ LeftOpen(o) /\ (attempts[o] > activity[o] => attempts'[o] > activity'[o])
<1>1. CASE trader # Idle /\ trader.order = o
  BY <1>1 DEF OnTheirWay
<1>2. CASE LeftOpen(o) /\ activity'[o] = activity[o]
  <2>1. activity[o] \in Nat
    BY BoundsAssumption DEF TypeOK
  <2> QED
    BY <1>2, <2>1, AttemptsGrow
<1> QED
  BY <1>1, <1>2, OpenedBySubmission

\* While the halt lasts no order sets out.
LEMMA NoneSetsOut ==
  ASSUME TypeOK, HaltInv, HNext, halted, ~CrashAll
  PROVE  OnTheirWay' \subseteq OnTheirWay
<1>1. CASE Activate \/ Clear \/ FinishWrite
  BY <1>1 DEF Activate, Clear, FinishWrite, StartWrite, OnTheirWay, vars
<1>2. ASSUME NEW o \in Orders, Admit(o) PROVE FALSE
  BY <1>2 DEF Admit, HaltInv
<1>3. CASE Decide
  <2>1. gateway.pc = "admitted" /\ gateway' = Idle /\ gateway.order \in Orders
    BY <1>3 DEF Decide, HaltInv, GatewayStates, Idle
  <2>2. trader' = Idle \/ trader'.order = gateway.order
    BY <1>3 DEF Decide, RiskReject, RiskApprove
  <2> QED
    BY <2>1, <2>2 DEF OnTheirWay, Idle
<1>4. CASE HandOff
  <2>1. gateway' = gateway
    BY <1>4 DEF HandOff
  <2>2. trader # Idle /\ (trader' = Idle \/ trader'.order = trader.order)
    BY <1>4 DEF HandOff, HandoffAccepted, HandoffRefused, HandoffReplyLost,
       HandoffTimeout, Idle, TypeOK, TraderStates
  <2> QED
    BY <2>1, <2>2 DEF OnTheirWay
<1>5. CASE Sweeping
  <2>1. UNCHANGED <<gateway, trader>>
    BY <1>5 DEF Sweeping, StartSweep, Visit, CancelGoesThrough,
       CancelIsRefused, CancelRaises, FinishSweep, RequestCancel,
       CancelAccepted, SavePendingCancel, CancelFailed, haltVars, vars
  <2> QED
    BY <2>1 DEF OnTheirWay
<1>6. CASE Unswitched
  <2>1. gateway' = gateway
    BY <1>6 DEF Unswitched, haltVars
  <2>2. trader' = trader \/ (trader # Idle /\ (trader' = Idle \/ trader'.order = trader.order))
    BY <1>6 DEF Unswitched, SaveWorking, RecordSubmission, UpdateHandling,
       ApplyUpdate, RefuseUpdate, SaveLifecycle, SavePositions,
       RefusePositions, AppendProcessed, Broker, BrokerAcknowledges,
       BrokerCancels, BrokerRejects, BrokerFills, BrokerOnly, TypeOK,
       TraderStates, Idle
  <2> QED
    BY <2>1, <2>2 DEF OnTheirWay
<1> QED
  BY <1>1, <1>2, <1>3, <1>4, <1>5, <1>6 DEF HNext

SweepFacts ==
  /\ TypeOK /\ BookInv /\ OpenInv /\ FillsWithinOrder /\ LifecycleNotAheadOfBroker
  /\ HaltInv /\ SweepTyped

\* A step of the order path, with the sweep and the canceler left alone.
LEMMA SweepStays ==
  ASSUME SweepFacts, SweepInv, [Next]_vars, UNCHANGED <<sweep, canceler, halted>>,
         halted => OnTheirWay' \subseteq OnTheirWay
  PROVE  SweepInv'
<1> SUFFICES ASSUME sweep # Idle, sweep.halted
             PROVE  /\ halted
                    /\ OnTheirWay' \subseteq sweep.inflight
                    /\ NoFault' => \A o \in Orders : LeftOpen(o)' => Attended(o)'
  BY DEF SweepInv
<1>1. halted /\ OnTheirWay \subseteq sweep.inflight
  BY DEF SweepInv
<1>2. ASSUME NoFault', NEW o \in Orders, LeftOpen(o)' PROVE Attended(o)'
  <2>1. TypeOK /\ BookInv /\ HandlersFit
    BY DEF SweepFacts, OpenInv
  <2>2. NoFault
    BY <1>2, <2>1, FaultsStay
  <2>3. CASE o \in OnTheirWay
    BY <1>1, <2>3 DEF Attended
  <2>4. CASE LeftOpen(o) /\ (attempts[o] > activity[o] => attempts'[o] > activity'[o])
    <3>1. Attended(o)
      BY <2>2, <2>4 DEF SweepInv
    <3> QED
      BY <2>4, <3>1 DEF Attended
  <2> QED
    BY <1>2, <2>1, <2>3, <2>4, OpenStays
<1> QED
  BY <1>1, <1>2

LEMMA SweepInvInit == HInit => SweepInv
<1> SUFFICES ASSUME HInit PROVE SweepInv
  OBVIOUS
<1>1. sweep = Idle /\ canceler = Idle
  BY DEF HInit, Init
<1> QED
  BY <1>1 DEF SweepInv, Idle

LEMMA SweepInvStep ==
  ASSUME SweepFacts, SweepInv, [HNext]_allVars
  PROVE  SweepInv'
<1>0. /\ TypeOK /\ BookInv /\ OpenInv /\ HandlersFit /\ HaltInv /\ SweepTyped
      /\ gateway \in GatewayStates
  BY DEF SweepFacts, OpenInv, HaltInv
<1>1. [Next]_vars
  BY <1>0, SwitchedStep
<1>2. CASE Activate \/ Clear \/ (\E o \in Orders : Admit(o)) \/ Decide \/ HandOff \/ Unswitched
  <2>1. UNCHANGED <<sweep, canceler, halted>>
    BY <1>2 DEF Activate, Clear, StartWrite, Admit, Decide, HandOff, Unswitched, vars,
       RiskReject, RiskApprove, HandoffAccepted, HandoffRefused, HandoffReplyLost,
       HandoffTimeout, SaveWorking, RecordSubmission, UpdateHandling, ApplyUpdate,
       RefuseUpdate, SaveLifecycle, SavePositions, RefusePositions, AppendProcessed,
       Broker, BrokerAcknowledges, BrokerCancels, BrokerRejects, BrokerFills, BrokerOnly,
       haltVars
  <2>2. ASSUME CrashAll PROVE SweepInv'
    BY <2>2 DEF CrashAll, Crash, CrashInSavePositions, Restart, SweepInv, Idle
  <2>3. CASE ~CrashAll
    <3>1. halted => OnTheirWay' \subseteq OnTheirWay
      BY <1>0, <1>2, <2>3, NoneSetsOut DEF HNext
    <3> QED
      BY <1>1, <2>1, <3>1, SweepStays
  <2> QED
    BY <2>2, <2>3
<1>3. CASE UNCHANGED allVars
  <2>1. UNCHANGED <<sweep, canceler, halted>> /\ OnTheirWay' = OnTheirWay
    BY <1>3 DEF allVars, vars, haltVars, OnTheirWay
  <2> QED
    BY <1>1, <2>1, SweepStays
<1>4. CASE FinishWrite
  <2>1. /\ UNCHANGED vars /\ gateway' = gateway
        /\ halted' = (operator.state = "active")
    BY <1>4 DEF FinishWrite
  <2>2. CASE sweep = Idle
    <3>1. sweep' = Idle
      BY <1>4, <2>2 DEF FinishWrite
    <3> QED
      BY <2>1, <2>2, <3>1 DEF SweepInv, vars
  <2>3. CASE sweep # Idle
    <3>1. sweep' = [sweep EXCEPT !.halted = @ /\ operator.state = "active"]
      BY <1>4, <2>3 DEF FinishWrite
    <3>2. /\ sweep'.pc = sweep.pc /\ sweep'.todo = sweep.todo /\ sweep'.failed = sweep.failed
          /\ sweep'.inflight = sweep.inflight
          /\ sweep'.halted => sweep.halted /\ operator.state = "active"
      BY <1>0, <2>3, <3>1 DEF SweepTyped, SweepStates, Idle
    <3>3. OnTheirWay' = OnTheirWay
      BY <2>1 DEF OnTheirWay, vars
    <3>4. \A o \in Orders : /\ LeftOpen(o)' <=> LeftOpen(o)
                            /\ Attended(o)' <=> Attended(o)
      BY <2>1, <3>2 DEF LeftOpen, Attended, vars, storeVars, brokerVars
    <3>5. NoFault' <=> NoFault
      BY <2>1 DEF NoFault, vars, faultVars
    <3>6. canceler' = canceler
      BY <2>1 DEF vars
    <3> QED
      BY <2>1, <2>3, <3>2, <3>3, <3>4, <3>5, <3>6 DEF SweepInv
  <2> QED
    BY <2>2, <2>3
<1>5. CASE StartSweep
  <2>1. /\ UNCHANGED <<vars, halted, gateway>> /\ canceler = Idle
        /\ sweep' = [pc |-> "running", todo |-> {o \in Orders : activity[o] # 0},
                     failed |-> {}, inflight |-> OnTheirWay, halted |-> halted]
    BY <1>5 DEF StartSweep
  <2>2. OnTheirWay' = OnTheirWay /\ canceler' = Idle
    BY <2>1 DEF OnTheirWay, vars
  <2>3. \A o \in Orders : LeftOpen(o)' => o \in sweep'.todo
    BY <2>1 DEF LeftOpen, vars, storeVars
  <2> QED
    BY <2>1, <2>2, <2>3 DEF SweepInv, Attended, Idle
<1>6. ASSUME NEW p \in Orders, Visit(p) PROVE SweepInv'
  <2>1. /\ sweep.pc = "running" /\ sweep # Idle /\ canceler = Idle
        /\ halted' = halted /\ gateway' = gateway
    BY <1>6 DEF Visit, Idle
  <2>2. /\ sweep'.pc = sweep.pc /\ sweep'.todo = sweep.todo \ {p} /\ sweep'.failed = sweep.failed
        /\ sweep'.inflight = sweep.inflight /\ sweep'.halted = sweep.halted
    BY <1>0, <1>6, <2>1 DEF Visit, SweepTyped, SweepStates, Idle
  <2>3. /\ UNCHANGED <<trader, broker, activity, attempts, crashes, lost, lifecycle>>
    BY <1>6 DEF Visit, RequestCancel, vars, storeVars, brokerVars, faultVars
  <2>4. OnTheirWay' = OnTheirWay
    BY <2>1, <2>3 DEF OnTheirWay
  <2>5. ASSUME sweep.halted, NoFault', NEW o \in Orders, LeftOpen(o)' PROVE Attended(o)'
    <3>1. NoFault /\ LeftOpen(o)
      BY <2>3, <2>5 DEF NoFault, LeftOpen
    <3>2. Attended(o)
      BY <2>1, <2>5, <3>1 DEF SweepInv
    <3>3. CASE o # p
      BY <2>1, <2>2, <2>3, <3>2, <3>3 DEF Attended, Idle
    <3>4. CASE o = p
      <4>1. CASE RequestCancel(p)
        BY <3>4, <4>1 DEF RequestCancel, Attended
      <4>2. CASE ~CanMarkPendingCancel(lifecycle[p])
        <5>1. attempts[o] > activity[o]
          BY <1>0, <3>1, <3>4, <4>2, OpenCanBeCanceled DEF SweepFacts, LeftOpen
        <5> QED
          BY <2>3, <5>1 DEF Attended
      <4> QED
        BY <1>6, <4>1, <4>2 DEF Visit
    <3> QED
      BY <3>3, <3>4
  <2> QED
    BY <2>1, <2>2, <2>4, <2>5 DEF SweepInv
<1>7. CASE CancelGoesThrough
  <2>1. UNCHANGED <<sweep, halted, gateway>>
    BY <1>7 DEF CancelGoesThrough, haltVars
  <2>2. /\ UNCHANGED <<trader, activity, attempts, crashes, lost>>
        /\ canceler.pc # "idle"
    BY <1>7 DEF CancelGoesThrough, CancelAccepted, SavePendingCancel, storeVars, faultVars
  <2>3. OnTheirWay' = OnTheirWay
    BY <2>1, <2>2 DEF OnTheirWay
  <2>4. ASSUME NEW o \in Orders, LeftOpen(o)', o \notin OnTheirWay
        PROVE  LeftOpen(o) /\ ~(canceler.pc = "cancel" /\ canceler.order = o)
    <3>1. LeftOpen(o)
      BY <1>0, <1>1, <2>4, OpenStays
    <3>2. ASSUME canceler.pc = "cancel", canceler.order = o PROVE FALSE
      <4>1. CancelAccepted
        BY <1>7, <3>2 DEF CancelGoesThrough, SavePendingCancel
      <4>2. canceler.attempt = activity[o] /\ activity[o] \in Attempts
        <5>1. canceler.attempt \in Attempts
          BY <1>0, <3>2 DEF TypeOK, CancelerStates, Idle
        <5> QED
          BY <1>0, <3>2, <5>1 DEF HandlersFit
      <4>3. broker'[o][activity[o]].state # "open"
        BY <1>0, <3>2, <4>1, <4>2 DEF CancelAccepted, TypeOK
      <4> QED
        BY <2>2, <2>4, <4>3 DEF LeftOpen
    <3> QED
      BY <3>1, <3>2
  <2>5. ASSUME sweep # Idle, sweep.halted, NoFault', NEW o \in Orders, LeftOpen(o)'
        PROVE  Attended(o)'
    <3>1. NoFault /\ OnTheirWay \subseteq sweep.inflight
      BY <2>2, <2>5 DEF NoFault, SweepInv
    <3>2. CASE o \in OnTheirWay
      BY <2>1, <3>1, <3>2 DEF Attended
    <3>3. CASE o \notin OnTheirWay
      <4>1. Attended(o)
        BY <2>4, <2>5, <3>1, <3>3 DEF SweepInv
      <4> QED
        BY <2>1, <2>2, <2>4, <2>5, <3>3, <4>1 DEF Attended
    <3> QED
      BY <3>2, <3>3
  <2> QED
    BY <2>1, <2>2, <2>3, <2>5 DEF SweepInv
<1>8. CASE CancelIsRefused
  <2>1. canceler.pc = "cancel" /\ canceler' = Idle /\ sweep.pc = "running" /\ sweep # Idle
    BY <1>8 DEF CancelIsRefused, CancelFailed, SweepInv, Idle
  <2>2. /\ sweep'.pc = sweep.pc /\ sweep'.todo = sweep.todo
        /\ sweep'.failed = sweep.failed \cup {canceler.order}
        /\ sweep'.inflight = sweep.inflight /\ sweep'.halted = sweep.halted
    BY <1>0, <1>8, <2>1 DEF CancelIsRefused, SweepTyped, SweepStates, Idle
  <2>3. UNCHANGED <<halted, gateway, trader, broker, activity, attempts, crashes, lost>>
    BY <1>8 DEF CancelIsRefused, CancelFailed, storeVars, brokerVars, faultVars
  <2>4. OnTheirWay' = OnTheirWay /\ (NoFault' <=> NoFault)
    BY <2>3 DEF OnTheirWay, NoFault
  <2>5. \A o \in Orders : LeftOpen(o)' => LeftOpen(o)
    BY <2>3 DEF LeftOpen
  <2>6. \A o \in Orders : Attended(o) => Attended(o)'
    BY <2>2, <2>3 DEF Attended
  <2> QED
    BY <2>1, <2>2, <2>3, <2>4, <2>5, <2>6 DEF SweepInv, Idle
<1>9. CASE CancelRaises \/ CrashAll
  <2>1. sweep' = Idle /\ canceler' = Idle
    BY <1>9 DEF CancelRaises, CancelFailed, CrashAll, Crash, CrashInSavePositions, Restart
  <2> QED
    BY <2>1 DEF SweepInv, Idle
<1>10. CASE FinishSweep
  <2>1. /\ canceler = Idle /\ sweep.pc = "running" /\ sweep # Idle
        /\ UNCHANGED <<vars, halted, gateway>>
    BY <1>10 DEF FinishSweep, Idle
  <2>2. /\ sweep'.todo = sweep.todo /\ sweep'.failed = sweep.failed
        /\ sweep'.inflight = sweep.inflight /\ sweep'.halted = sweep.halted
    BY <1>0, <1>10, <2>1 DEF FinishSweep, SweepTyped, SweepStates, Idle
  <2>3. OnTheirWay' = OnTheirWay /\ (NoFault' <=> NoFault) /\ canceler' = canceler
    BY <2>1 DEF OnTheirWay, NoFault, vars, faultVars
  <2>4. \A o \in Orders : (LeftOpen(o)' <=> LeftOpen(o)) /\ (Attended(o)' <=> Attended(o))
    BY <2>1, <2>2 DEF LeftOpen, Attended, vars, storeVars, brokerVars
  <2> QED
    BY <2>1, <2>2, <2>3, <2>4 DEF SweepInv, Idle
<1> QED
  BY <1>2, <1>3, <1>4, <1>5, <1>6, <1>7, <1>8, <1>9, <1>10 DEF HNext, Sweeping

\* A sweep under a halt that lasts misses only the orders that were on their
\* way to the broker, those whose cancel the broker refused and those that were
\* submitted a second time.
THEOREM SweepMissesOnlyOrdersInFlight == HSpec => []SweepMissesOnlyInFlight
<1>1. HInit => SweepTyped
  BY DEF HInit, SweepTyped, SweepStates, HaltStates
<1>2. HSpec => []SweepTyped
  BY <1>1, HaltInvariant, TypeCorrect, SweepStep, PTL DEF HSpec
<1>3. HSpec => []SweepFacts
  BY <1>2, HaltInvariant, TypeCorrect, CoverInvariant, OpenInvariant,
     LifecyclesConsistent, LifecyclesCovered, PTL DEF SweepFacts
<1>4. SweepFacts /\ SweepInv => SweepMissesOnlyInFlight
  <2> SUFFICES ASSUME SweepFacts, SweepInv, sweep.pc = "done", NoFault,
                      NEW o \in Orders, sweep.halted, LeftOpen(o)
               PROVE  o \in sweep.failed \cup sweep.inflight \/ attempts[o] > activity[o]
    BY DEF SweepMissesOnlyInFlight, NoFault
  <2>1. sweep # Idle /\ sweep.todo = {}
    BY DEF SweepFacts, SweepTyped, SweepStates, Idle
  <2>2. canceler.pc # "cancel"
    BY DEF SweepInv
  <2> QED
    BY <2>1, <2>2 DEF SweepInv, Attended
<1> QED
  BY <1>3, <1>4, SweepInvInit, SweepInvStep, PTL DEF HSpec
=============================================================================
