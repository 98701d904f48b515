--------------------------- MODULE OrderFlowProofs ---------------------------
(***************************************************************************)
(* Proofs about OrderFlow, for every set of orders, every quantity, any    *)
(* number of attempts, crashes and lost replies, and with or without       *)
(* overlapping handlers.                                                   *)
(***************************************************************************)
EXTENDS OrderBooks, FiniteSetTheorems, FunctionTheorems, SequenceTheorems, TLAPS

\* The lifecycles a legal update produces are lifecycles.
LEMMA AfterType ==
  ASSUME NEW u \in Updates, NEW lc \in Lifecycles, Accepts(lc, u)
  PROVE  After(lc, u) \in Lifecycles
<1>0. MaxQuantity \in Nat /\ Quantity[u.order] \in 1..MaxQuantity
  BY QuantityAssumption DEF Updates, Fills, Notices
<1>1. CASE u.type = "working"
  BY <1>1 DEF After, MarkWorking, Lifecycles, Statuses
<1>2. CASE u.type = "fill"
  <2>1. u \in Fills /\ CanRecordFill(lc, u.qty, Quantity[u.order])
    BY <1>2 DEF Updates, Notices, Accepts
  <2>2. lc.filled + u.qty \in 0..MaxQuantity
    BY <2>1, <1>0 DEF CanRecordFill, Lifecycles, Fills
  <2> QED
    BY <1>2, <2>2 DEF After, RecordFill, Lifecycles, Statuses
<1>3. CASE u.type = "canceled"
  BY <1>3 DEF After, MarkCanceled, Lifecycles, Statuses
<1>4. CASE u.type = "rejected"
  BY <1>4 DEF After, MarkRejected, Lifecycles, Statuses
<1> QED
  BY <1>1, <1>2, <1>3, <1>4 DEF Updates, Fills, Notices

\* The local state of a handler that has started, and where it can go on to.
LEMMA TraderType ==
  ASSUME trader \in TraderStates, trader.pc # "idle"
  PROVE  /\ trader.order \in Orders /\ trader.attempt \in Attempts
         /\ \A p \in {"handoff", "save", "record"} :
              [trader EXCEPT !.pc = p] \in TraderStates
BY DEF TraderStates, Idle

LEMMA StreamType ==
  ASSUME stream \in StreamStates, stream.pc # "idle"
  PROVE  /\ stream.update \in Updates /\ stream.next \in Lifecycles
         /\ stream.update.order \in Orders
         /\ stream.update.attempt \in Attempts
         /\ stream.pc \in {"ledger", "append"} => stream.update \in Fills
         /\ stream.update.type = "fill" => stream.update \in Fills
         /\ stream.update \in Fills =>
              \A p \in {"ledger", "append"} :
                [stream EXCEPT !.pc = p] \in StreamStates
<1>1. stream \in [pc : {"save"}, update : Updates, next : Lifecycles]
        \cup [pc : {"ledger", "append"}, update : Fills, next : Lifecycles]
  BY DEF StreamStates, Idle
<1>2. stream.update \in Updates /\ stream.next \in Lifecycles
  BY <1>1 DEF Updates
<1>3. \A u \in Updates : /\ u.order \in Orders /\ u.attempt \in Attempts
                         /\ u.type = "fill" => u \in Fills
  BY DEF Updates, Fills, Notices
<1>4. stream.pc \in {"ledger", "append"} => stream.update \in Fills
  BY <1>1
<1>5. ASSUME stream.update \in Fills, NEW p \in {"ledger", "append"}
      PROVE  [stream EXCEPT !.pc = p]
               \in [pc : {"ledger", "append"}, update : Fills, next : Lifecycles]
  BY <1>1, <1>5
<1> QED
  BY <1>2, <1>3, <1>4, <1>5 DEF StreamStates

LEMMA CancelerType ==
  ASSUME canceler \in CancelerStates, canceler.pc # "idle"
  PROVE  /\ canceler.order \in Orders /\ canceler.attempt \in Attempts
         /\ canceler.loaded \in Lifecycles
         /\ [canceler EXCEPT !.pc = "save"] \in CancelerStates
BY DEF CancelerStates, Idle

LEMMA IdleType ==
  Idle \in TraderStates /\ Idle \in StreamStates /\ Idle \in CancelerStates
BY DEF TraderStates, StreamStates, CancelerStates

LEMMA InitType == Init => TypeOK
<1> SUFFICES ASSUME Init PROVE TypeOK
  OBVIOUS
<1>1. Unknown \in Lifecycles
  BY QuantityAssumption DEF Unknown, Lifecycles
<1>2. 0 \in 0..MaxQuantity /\ 0 \in 0..MaxAttempts
  BY QuantityAssumption, BoundsAssumption
<1> QED
  BY <1>1, <1>2, IdleType DEF Init, TypeOK

LEMMA SubmissionType ==
  ASSUME TypeOK, Submission
  PROVE  TypeOK'
<1> USE DEF TypeOK, brokerVars, faultVars, storeVars
<1>0. MarkRejected(PendingSubmit) \in Lifecycles
      /\ MarkWorking(PendingSubmit) \in Lifecycles
  BY QuantityAssumption
  DEF MarkRejected, MarkWorking, PendingSubmit, Lifecycles, Statuses
<1>1. ASSUME NEW o \in Orders, RiskReject(o) PROVE TypeOK'
  BY <1>0, <1>1, BoundsAssumption DEF RiskReject
<1>2. ASSUME NEW o \in Orders, RiskApprove(o) PROVE TypeOK'
  BY <1>2, BoundsAssumption DEF RiskApprove, TraderStates, Attempts
<1>t. trader.pc \in {"handoff", "save", "record"} =>
        /\ trader.order \in Orders /\ trader.attempt \in Attempts
        /\ [trader EXCEPT !.pc = "save"] \in TraderStates
        /\ [trader EXCEPT !.pc = "record"] \in TraderStates
  BY TraderType
<1>3. ASSUME trader.pc = "handoff", PlaceAtBroker
      PROVE  broker' \in [Orders -> [Attempts ->
        [state : {"none", "open", "canceling", "filled", "canceled", "rejected"},
         filled : 0..MaxQuantity]]]
  BY <1>3, <1>t, QuantityAssumption DEF PlaceAtBroker
<1>4. CASE HandoffAccepted
  BY <1>4, <1>t, IdleType, <1>3 DEF HandoffAccepted
<1>5. CASE HandoffRefused
  BY <1>5, <1>t, IdleType, <1>0 DEF HandoffRefused
<1>6. CASE HandoffReplyLost
  <2>1. lifecycle' \in [Orders -> Lifecycles]
    BY <1>6, <1>t, <1>0 DEF HandoffReplyLost
  <2>2. lost' \in Nat
    BY <1>6 DEF HandoffReplyLost
  <2> QED
    BY <1>6, <1>3, <2>1, <2>2, IdleType DEF HandoffReplyLost
<1>7. CASE HandoffTimeout
  BY <1>7, <1>t, IdleType, <1>3 DEF HandoffTimeout
<1>8. CASE SaveWorking
  BY <1>8, <1>t, IdleType, <1>0 DEF SaveWorking
<1>9. CASE RecordSubmission
  BY <1>9, <1>t, IdleType, BoundsAssumption DEF RecordSubmission, Attempts
<1> QED
  BY <1>1, <1>2, <1>4, <1>5, <1>6, <1>7, <1>8, <1>9 DEF Submission

LEMMA UpdateHandlingType ==
  ASSUME TypeOK, UpdateHandling
  PROVE  TypeOK'
<1> USE DEF TypeOK, brokerVars, faultVars, storeVars
<1>1. ASSUME NEW u \in Updates, ApplyUpdate(u) PROVE TypeOK'
  <2>1. After(lifecycle[u.order], u) \in Lifecycles
    BY <1>1, AfterType DEF ApplyUpdate, Updates, Fills, Notices
  <2> QED
    BY <1>1, <2>1 DEF ApplyUpdate, StreamStates
<1>2. ASSUME NEW u \in Updates, RefuseUpdate(u) PROVE TypeOK'
  BY <1>2 DEF RefuseUpdate
<1>s. stream.pc \in {"save", "ledger", "append"} =>
        /\ stream.update \in Updates /\ stream.next \in Lifecycles
        /\ stream.update.order \in Orders
        /\ stream.pc # "save" => stream.update \in Fills
        /\ stream.update.type = "fill" => [stream EXCEPT !.pc = "ledger"] \in StreamStates
        /\ stream.pc # "save" => [stream EXCEPT !.pc = "append"] \in StreamStates
  BY StreamType
<1>3. CASE SaveLifecycle
  BY <1>3, <1>s, IdleType DEF SaveLifecycle
<1>4. CASE SavePositions
  BY <1>4, <1>s DEF SavePositions
<1>5. CASE RefusePositions
  BY <1>5, <1>s, IdleType DEF RefusePositions
<1>6. CASE AppendProcessed
  BY <1>6, <1>s, IdleType DEF AppendProcessed
<1> QED
  BY <1>1, <1>2, <1>3, <1>4, <1>5, <1>6 DEF UpdateHandling

LEMMA CancellationType ==
  ASSUME TypeOK, Cancellation
  PROVE  TypeOK'
<1> USE DEF TypeOK, brokerVars, faultVars, storeVars
<1>c. canceler.pc \in {"cancel", "save"} =>
        /\ canceler.order \in Orders /\ canceler.attempt \in Attempts
        /\ canceler.loaded \in Lifecycles
        /\ [canceler EXCEPT !.pc = "save"] \in CancelerStates
  BY CancelerType
<1>1. ASSUME NEW o \in Orders, RequestCancel(o) PROVE TypeOK'
  BY <1>1, BoundsAssumption DEF RequestCancel, CancelerStates, Attempts
<1>2. CASE CancelAccepted
  <2>3. broker' \in [Orders -> [Attempts ->
        [state : {"none", "open", "canceling", "filled", "canceled", "rejected"},
         filled : 0..MaxQuantity]]]
    BY <1>2, <1>c DEF CancelAccepted
  <2> QED
    BY <1>2, <1>c, <2>3 DEF CancelAccepted
<1>3. CASE CancelFailed
  BY <1>3, IdleType DEF CancelFailed
<1>4. CASE SavePendingCancel
  <2>1. MarkPendingCancel(canceler.loaded) \in Lifecycles
    BY <1>4, <1>c DEF SavePendingCancel, MarkPendingCancel, Lifecycles, Statuses
  <2> QED
    BY <1>4, <1>c, <2>1, IdleType DEF SavePendingCancel
<1> QED
  BY <1>1, <1>2, <1>3, <1>4 DEF Cancellation

LEMMA BrokerType ==
  ASSUME TypeOK, Broker
  PROVE  TypeOK'
<1> USE DEF TypeOK, brokerVars, faultVars, storeVars, BrokerOnly
<1>0. ASSUME NEW o \in Orders, NEW n \in Attempts,
             NEW t \in {"working", "canceled", "rejected"}, Publish(t, o, n)
      PROVE  published' \subseteq Updates
  BY <1>0 DEF Publish, Updates, Notices
<1>1. ASSUME NEW o \in Orders, NEW n \in Attempts, BrokerAcknowledges(o, n)
      PROVE  TypeOK'
  BY <1>1, <1>0 DEF BrokerAcknowledges
<1>2. ASSUME NEW o \in Orders, NEW n \in Attempts, BrokerCancels(o, n)
      PROVE  TypeOK'
  BY <1>2, <1>0 DEF BrokerCancels
<1>3. ASSUME NEW o \in Orders, NEW n \in Attempts, BrokerRejects(o, n)
      PROVE  TypeOK'
  BY <1>3, <1>0 DEF BrokerRejects
<1>4. ASSUME NEW o \in Orders, NEW n \in Attempts, NEW q \in 1..MaxQuantity,
             BrokerFills(o, n, q)
      PROVE  TypeOK'
  <2> DEFINE filled == broker[o][n].filled
             f == [type |-> "fill", order |-> o, attempt |-> n,
                   from |-> filled, qty |-> q]
  <2>1. Quantity[o] \in 1..MaxQuantity /\ MaxQuantity \in Nat
    BY QuantityAssumption
  <2>2. filled \in 0..MaxQuantity /\ filled + q =< Quantity[o]
    BY <1>4 DEF BrokerFills
  <2>3. f \in Fills
    BY <2>1, <2>2 DEF Fills
  <2>4. published' = published \cup {f}
    BY <1>4 DEF BrokerFills
  <2>5. published' \subseteq Updates
    BY <2>3, <2>4 DEF Updates
  <2>6. filled + q \in 0..MaxQuantity
    BY <2>1, <2>2
  <2>7. broker' \in [Orders -> [Attempts ->
        [state : {"none", "open", "canceling", "filled", "canceled", "rejected"},
         filled : 0..MaxQuantity]]]
    BY <1>4, <2>6 DEF BrokerFills
  <2> QED
    BY <1>4, <2>5, <2>7 DEF BrokerFills
<1> QED
  BY <1>1, <1>2, <1>3, <1>4 DEF Broker

LEMMA CrashType ==
  ASSUME TypeOK, Crash \/ CrashInSavePositions
  PROVE  TypeOK'
<1>1. Restart /\ positionsTorn' \in BOOLEAN
  BY DEF TypeOK, Crash, CrashInSavePositions
<1>2. crashes' \in Nat
  BY <1>1 DEF TypeOK, Restart
<1> QED
  BY <1>1, <1>2, IdleType DEF TypeOK, Restart, brokerVars

LEMMA TypeStep ==
  ASSUME TypeOK, [Next]_vars
  PROVE  TypeOK'
<1>1. CASE Next
  BY <1>1, SubmissionType, UpdateHandlingType, CancellationType, BrokerType,
     CrashType DEF Next
<1>2. CASE UNCHANGED vars
  BY <1>2 DEF TypeOK, vars, storeVars, brokerVars, faultVars
<1> QED
  BY <1>1, <1>2

\* Every variable keeps its type.
THEOREM TypeCorrect == Spec => []TypeOK
<1>1. TypeOK /\ [Next]_vars => TypeOK'
  BY TypeStep
<1> QED
  BY <1>1, InitType, PTL DEF Spec

-----------------------------------------------------------------------------
(* The ledger.  A fill is booked when its execution ID is stored, or is     *)
(* about to be; only booked fills may exceed the crash count.               *)

Booked(f) == f \in processed \/ (stream.pc = "append" /\ stream.update = f)

StreamInv ==
  stream.pc # "idle" =>
    /\ stream.update \in published
    /\ stream.update.type = "fill" =>
         /\ stream.update \notin processed
         /\ activity[stream.update.order] = stream.update.attempt

FillInv(f) ==
  /\ Booked(f) => positions[f] >= 1 /\ positions[f] =< 1 + crashes
  /\ ~Booked(f) => positions[f] =< crashes
  /\ positions[f] > 0 => f \in published /\ activity[f.order] = f.attempt

LedgerInv == StreamInv /\ \A f \in Fills : FillInv(f)

\* A step that leaves the ledger and the stream handler alone preserves the
\* invariant, provided published updates and activity records stay.
LEMMA LedgerFrame ==
  ASSUME TypeOK, LedgerInv,
         UNCHANGED <<positions, processed, stream, crashes>>,
         published \subseteq published',
         \A o \in Orders : activity[o] # 0 => activity'[o] = activity[o]
  PROVE  LedgerInv'
<1>1. \A u \in Updates : u.order \in Orders /\ u.attempt \in Attempts
  BY DEF Updates, Fills, Notices
<1>2. \A u \in Updates : activity[u.order] = u.attempt =>
                          activity'[u.order] = u.attempt
  BY <1>1 DEF Attempts
<1>3. StreamInv'
  <2> SUFFICES ASSUME stream'.pc # "idle" PROVE StreamInv'
    BY DEF StreamInv
  <2>1. stream.pc # "idle" /\ stream.update \in Updates
    BY StreamType DEF TypeOK
  <2> QED
    BY <2>1, <1>2 DEF LedgerInv, StreamInv
<1>4. ASSUME NEW f \in Fills PROVE FillInv(f)'
  <2>1. f \in Updates
    BY DEF Updates
  <2> QED
    BY <2>1, <1>2 DEF LedgerInv, FillInv, Booked
<1> QED
  BY <1>3, <1>4 DEF LedgerInv

LEMMA LedgerInit == Init => LedgerInv
BY DEF Init, LedgerInv, StreamInv, FillInv, Booked, Idle

LEMMA SubmissionLedger ==
  ASSUME TypeOK, LedgerInv, Submission
  PROVE  LedgerInv'
<1>1. UNCHANGED <<positions, processed, stream, crashes, published>>
  BY DEF Submission, RiskReject, RiskApprove, HandoffAccepted, HandoffRefused,
     HandoffReplyLost, HandoffTimeout, SaveWorking, RecordSubmission,
     storeVars, brokerVars, faultVars
<1>2. \A o \in Orders : activity[o] # 0 => activity'[o] = activity[o]
  BY DEF Submission, RiskReject, RiskApprove, HandoffAccepted, HandoffRefused,
     HandoffReplyLost, HandoffTimeout, SaveWorking, RecordSubmission,
     storeVars, TypeOK
<1> QED
  BY <1>1, <1>2, LedgerFrame

LEMMA UpdateHandlingLedger ==
  ASSUME TypeOK, LedgerInv, UpdateHandling
  PROVE  LedgerInv'
<1>1. ASSUME NEW u \in Updates, ApplyUpdate(u) PROVE LedgerInv'
  <2>1. stream.pc = "idle" /\ stream'.pc = "save" /\ stream'.update = u
    BY <1>1 DEF ApplyUpdate, Idle
  <2>2. UNCHANGED <<positions, processed, crashes, published, activity>>
    BY <1>1 DEF ApplyUpdate, storeVars, brokerVars, faultVars
  <2>3. u \in published /\ u \notin processed
    BY <1>1 DEF ApplyUpdate, IsDuplicateFill
  <2>4. u.type = "fill" => activity[u.order] = u.attempt
    BY <1>1 DEF ApplyUpdate, Traceable
  <2>5. \A f \in Fills : FillInv(f)'
    BY <2>1, <2>2 DEF LedgerInv, FillInv, Booked
  <2> QED
    BY <2>1, <2>2, <2>3, <2>4, <2>5 DEF LedgerInv, StreamInv
<1>2. ASSUME NEW u \in Updates, RefuseUpdate(u) PROVE LedgerInv'
  BY <1>2, LedgerFrame DEF RefuseUpdate, storeVars, brokerVars, faultVars
<1>3. CASE SaveLifecycle
  <2>1. UNCHANGED <<positions, processed, crashes, published, activity>>
    BY <1>3 DEF SaveLifecycle, brokerVars, faultVars
  <2>2. stream.pc = "save"
    BY <1>3 DEF SaveLifecycle
  <2>3. /\ stream'.pc # "append"
        /\ stream'.pc # "idle" => stream'.update = stream.update
    <3>1. stream \in [pc : {"save"}, update : Updates, next : Lifecycles]
      BY <2>2 DEF TypeOK, StreamStates, Idle
    <3> QED
      BY <1>3, <3>1 DEF SaveLifecycle, Idle
  <2>4. \A f \in Fills : FillInv(f)'
    BY <2>1, <2>2, <2>3 DEF LedgerInv, FillInv, Booked
  <2> QED
    BY <2>1, <2>2, <2>3, <2>4 DEF LedgerInv, StreamInv
<1>4. CASE SavePositions
  <2> DEFINE u == stream.update
  <2>1. stream.pc = "ledger" /\ u \in Fills /\ u \notin processed
        /\ positions' = [positions EXCEPT ![u] = @ + 1]
    BY <1>4, StreamType DEF SavePositions, TypeOK, IsDuplicateFill
  <2>2. UNCHANGED <<processed, crashes, published, activity>>
    BY <1>4 DEF SavePositions, brokerVars, faultVars
  <2>3. stream'.pc = "append" /\ stream'.update = u
    BY <1>4, <2>1 DEF SavePositions, TypeOK, StreamStates, Idle
  <2>4. u.type = "fill" /\ u \in published /\ activity[u.order] = u.attempt
    BY <2>1 DEF LedgerInv, StreamInv, Fills
  <2>5. ASSUME NEW f \in Fills PROVE FillInv(f)'
    <3>1. CASE f = u
      BY <3>1, <2>1, <2>2, <2>3, <2>4 DEF TypeOK, LedgerInv, FillInv, Booked
    <3>2. CASE f # u
      BY <3>2, <2>1, <2>2, <2>3 DEF TypeOK, LedgerInv, FillInv, Booked
    <3> QED
      BY <3>1, <3>2
  <2> QED
    BY <2>1, <2>2, <2>3, <2>4, <2>5 DEF LedgerInv, StreamInv
<1>5. CASE RefusePositions
  <2>1. UNCHANGED <<positions, processed, crashes, published, activity>>
        /\ stream.pc = "ledger" /\ stream'.pc = "idle"
    BY <1>5 DEF RefusePositions, storeVars, brokerVars, faultVars, Idle
  <2> QED
    BY <2>1 DEF LedgerInv, StreamInv, FillInv, Booked
<1>6. CASE AppendProcessed
  <2>1. UNCHANGED <<positions, crashes, published, activity>>
        /\ processed' = processed \cup {stream.update}
        /\ stream.pc = "append" /\ stream'.pc = "idle"
    BY <1>6 DEF AppendProcessed, brokerVars, faultVars, Idle
  <2> QED
    BY <2>1 DEF LedgerInv, StreamInv, FillInv, Booked
<1> QED
  BY <1>1, <1>2, <1>3, <1>4, <1>5, <1>6 DEF UpdateHandling

LEMMA CancellationLedger ==
  ASSUME TypeOK, LedgerInv, Cancellation
  PROVE  LedgerInv'
<1>1. UNCHANGED <<positions, processed, stream, crashes, published, activity>>
  BY DEF Cancellation, RequestCancel, CancelAccepted, CancelFailed,
     SavePendingCancel, storeVars, brokerVars, faultVars
<1> QED
  BY <1>1, LedgerFrame

LEMMA BrokerLedger ==
  ASSUME TypeOK, LedgerInv, Broker
  PROVE  LedgerInv'
<1>1. UNCHANGED <<positions, processed, stream, crashes, activity>>
  BY DEF Broker, BrokerAcknowledges, BrokerCancels, BrokerRejects, BrokerFills,
     BrokerOnly, storeVars, faultVars
<1>2. published \subseteq published'
  BY DEF Broker, BrokerAcknowledges, BrokerCancels, BrokerRejects, BrokerFills,
     Publish
<1> QED
  BY <1>1, <1>2, LedgerFrame

LEMMA CrashLedger ==
  ASSUME TypeOK, LedgerInv, Crash \/ CrashInSavePositions
  PROVE  LedgerInv'
<1>1. UNCHANGED <<positions, processed, published, activity>>
      /\ crashes' = crashes + 1 /\ stream'.pc = "idle"
  BY DEF Crash, CrashInSavePositions, Restart, brokerVars, Idle
<1>2. ASSUME NEW f \in Fills PROVE FillInv(f)'
  BY <1>1 DEF TypeOK, LedgerInv, FillInv, Booked
<1> QED
  BY <1>1, <1>2 DEF LedgerInv, StreamInv

LEMMA LedgerInvariant == Spec => []LedgerInv
<1>1. TypeOK /\ LedgerInv /\ [Next]_vars => LedgerInv'
  <2> SUFFICES ASSUME TypeOK, LedgerInv, [Next]_vars PROVE LedgerInv'
    OBVIOUS
  <2>1. CASE Next
    BY <2>1, SubmissionLedger, UpdateHandlingLedger, CancellationLedger,
       BrokerLedger, CrashLedger DEF Next
  <2>2. CASE UNCHANGED vars
    BY <2>2, LedgerFrame DEF vars, storeVars, brokerVars, faultVars
  <2> QED
    BY <2>1, <2>2
<1> QED
  BY <1>1, LedgerInit, TypeCorrect, PTL DEF Spec

\* No fill that is marked as processed is missing from the positions.
THEOREM ProcessedFillsBooked == Spec => []ProcessedFillsAreInPositions
<1>1. TypeOK /\ LedgerInv => ProcessedFillsAreInPositions
  BY DEF TypeOK, LedgerInv, FillInv, Booked, ProcessedFillsAreInPositions
<1> QED
  BY <1>1, TypeCorrect, LedgerInvariant, PTL

\* A fill is added again only after a crash, at most once for each.
THEOREM RepeatedFillsBounded == Spec => []RepeatedFillNeedsCrash
<1>1. TypeOK /\ LedgerInv => RepeatedFillNeedsCrash
  BY DEF TypeOK, LedgerInv, FillInv, RepeatedFillNeedsCrash
<1> QED
  BY <1>1, TypeCorrect, LedgerInvariant, PTL

\* The positions only ever hold fills of the recorded broker order.
THEOREM PositionsTraceable == Spec => []PositionsHoldRecordedFills
<1>1. LedgerInv => PositionsHoldRecordedFills
  BY DEF LedgerInv, FillInv, PositionsHoldRecordedFills
<1> QED
  BY <1>1, LedgerInvariant, PTL

-----------------------------------------------------------------------------
(* Refinement of the exactly-once ledger by the crash-free runs.            *)

LEMMA LedgerRefinementStep ==
  ASSUME TypeOK, LedgerInv, crashes = 0, Next
  PROVE  [Ledger!Next]_(Ledger!bookVars)
<1> USE DEF Ledger!Next, Ledger!bookVars
<1>1. ASSUME UNCHANGED <<positions, published>>
      PROVE  UNCHANGED Ledger!bookVars
  BY <1>1
<1>2. CASE Submission
  BY <1>2, <1>1
  DEF Submission, RiskReject, RiskApprove, HandoffAccepted, HandoffRefused,
      HandoffReplyLost, HandoffTimeout, SaveWorking, RecordSubmission,
      storeVars, brokerVars
<1>3. CASE Cancellation
  BY <1>3, <1>1 DEF Cancellation, RequestCancel, CancelAccepted, CancelFailed,
     SavePendingCancel, storeVars, brokerVars
<1>4. CASE Crash \/ CrashInSavePositions
  BY <1>4, <1>1 DEF Crash, CrashInSavePositions, Restart, brokerVars
<1>5. CASE UpdateHandling
  <2>1. ASSUME NEW u \in Updates, ApplyUpdate(u) \/ RefuseUpdate(u)
        PROVE  UNCHANGED Ledger!bookVars
    BY <2>1, <1>1 DEF ApplyUpdate, RefuseUpdate, storeVars, brokerVars
  <2>2. CASE SaveLifecycle \/ RefusePositions \/ AppendProcessed
    BY <2>2, <1>1 DEF SaveLifecycle, RefusePositions, AppendProcessed,
       storeVars, brokerVars
  <2>3. CASE SavePositions
    <3> DEFINE u == stream.update
    <3>1. stream.pc = "ledger" /\ u \in Fills /\ u \notin processed
      BY <2>3, StreamType DEF SavePositions, TypeOK, IsDuplicateFill
    <3>2. positions[u] = 0
      BY <3>1 DEF LedgerInv, FillInv, Booked, TypeOK
    <3>3. u \in published
      BY <3>1 DEF LedgerInv, StreamInv
    <3>4. Ledger!Add(u)
      BY <2>3, <3>1, <3>2, <3>3 DEF SavePositions, Ledger!Add, brokerVars
    <3> QED
      BY <3>1, <3>4
  <2> QED
    BY <1>5, <2>1, <2>2, <2>3 DEF UpdateHandling
<1>6. CASE Broker
  <2>1. UNCHANGED positions
    BY <1>6 DEF Broker, BrokerAcknowledges, BrokerCancels, BrokerRejects,
       BrokerFills, BrokerOnly, storeVars
  <2>2. ASSUME NEW o \in Orders, NEW n \in Attempts,
               NEW t \in {"working", "canceled", "rejected"}, Publish(t, o, n)
        PROVE  UNCHANGED Ledger!bookVars
    BY <2>1, <2>2 DEF Publish, Fills
  <2>3. ASSUME NEW o \in Orders, NEW n \in Attempts, NEW q \in 1..MaxQuantity,
               BrokerFills(o, n, q)
        PROVE  Ledger!Next
    <3> DEFINE f == [type |-> "fill", order |-> o, attempt |-> n,
                     from |-> broker[o][n].filled, qty |-> q]
    <3>1. Quantity[o] \in 1..MaxQuantity /\ MaxQuantity \in Nat
          /\ broker[o][n].filled \in 0..MaxQuantity
      BY QuantityAssumption DEF TypeOK
    <3>2. f \in Fills
      BY <2>3, <3>1 DEF Fills, BrokerFills
    <3>3. published' = published \cup {f}
      BY <2>3 DEF BrokerFills
    <3>4. Ledger!Execute(f)
      BY <2>1, <3>2, <3>3 DEF Ledger!Execute
    <3> QED
      BY <3>2, <3>4
  <2> QED
    BY <1>6, <2>2, <2>3 DEF Broker, BrokerAcknowledges, BrokerCancels,
       BrokerRejects
<1> QED
  BY <1>2, <1>3, <1>4, <1>5, <1>6 DEF Next

\* As long as the process does not crash, the ledger is the exactly-once
\* ledger, also when handlers overlap, replies are lost, and updates are
\* replayed in any order.
THEOREM CrashFreeLedgerRefines == Spec /\ [](crashes = 0) => LedgerAddsFillsOnce
<1>1. Init => Ledger!Init
  BY DEF Init, Ledger!Init
<1>2. TypeOK /\ LedgerInv /\ crashes = 0 /\ [Next]_vars
        => [Ledger!Next]_(Ledger!bookVars)
  <2> SUFFICES ASSUME TypeOK, LedgerInv, crashes = 0, [Next]_vars
               PROVE  [Ledger!Next]_(Ledger!bookVars)
    OBVIOUS
  <2>1. CASE UNCHANGED vars
    BY <2>1 DEF vars, storeVars, brokerVars, Ledger!bookVars
  <2> QED
    BY <2>1, LedgerRefinementStep
<1> QED
  BY <1>1, <1>2, TypeCorrect, LedgerInvariant, PTL
  DEF Spec, LedgerAddsFillsOnce, Ledger!Spec

-----------------------------------------------------------------------------
(* Persisted lifecycles, and those a handler is about to persist.           *)

LifecycleInv ==
  /\ FillsWithinOrder
  /\ stream.pc = "save" => LifecycleConsistent(stream.update.order, stream.next)
  /\ canceler.pc # "idle" =>
       /\ LifecycleConsistent(canceler.order, canceler.loaded)
       /\ CanMarkPendingCancel(canceler.loaded)

LEMMA AfterConsistent ==
  ASSUME NEW u \in Updates, NEW lc \in Lifecycles, Accepts(lc, u),
         LifecycleConsistent(u.order, lc)
  PROVE  LifecycleConsistent(u.order, After(lc, u))
<1>0. MaxQuantity \in Nat /\ Quantity[u.order] \in 1..MaxQuantity
      /\ lc.filled \in 0..MaxQuantity
  BY QuantityAssumption DEF Updates, Fills, Notices, Lifecycles
<1>1. CASE u.type = "working"
  BY <1>1 DEF After, MarkWorking, Accepts, CanMarkWorking, Lifecycles,
     LifecycleConsistent
<1>2. CASE u.type = "fill"
  <2>1. u.qty \in 1..MaxQuantity /\ CanRecordFill(lc, u.qty, Quantity[u.order])
    BY <1>2 DEF Updates, Notices, Fills, Accepts
  <2> QED
    BY <1>0, <1>2, <2>1 DEF After, RecordFill, CanRecordFill, LifecycleConsistent
<1>3. CASE u.type = "canceled"
  BY <1>3 DEF After, MarkCanceled, Accepts, CanMarkCanceled, Lifecycles,
     LifecycleConsistent
<1>4. CASE u.type = "rejected"
  BY <1>4 DEF After, MarkRejected, Accepts, CanMarkRejected, Lifecycles,
     LifecycleConsistent
<1> QED
  BY <1>1, <1>2, <1>3, <1>4 DEF Updates, Fills, Notices

LEMMA FreshConsistent ==
  ASSUME NEW o \in Orders
  PROVE  /\ LifecycleConsistent(o, Unknown)
         /\ LifecycleConsistent(o, MarkWorking(PendingSubmit))
         /\ LifecycleConsistent(o, MarkRejected(PendingSubmit))
BY QuantityAssumption DEF LifecycleConsistent, Unknown, MarkWorking,
   MarkRejected, PendingSubmit

LEMMA LifecycleStep ==
  ASSUME TypeOK, LifecycleInv, Next
  PROVE  LifecycleInv'
<1>1. ASSUME NEW o \in Orders, NEW lc, LifecycleConsistent(o, lc),
             lifecycle' = [lifecycle EXCEPT ![o] = lc]
      PROVE  FillsWithinOrder'
  BY <1>1 DEF TypeOK, LifecycleInv, FillsWithinOrder, LifecycleConsistent
<1>2. ASSUME UNCHANGED lifecycle PROVE FillsWithinOrder'
  BY <1>2 DEF LifecycleInv, FillsWithinOrder, LifecycleConsistent
<1>3. ASSUME UNCHANGED <<stream, canceler>>, FillsWithinOrder'
      PROVE  LifecycleInv'
  BY <1>3 DEF LifecycleInv, LifecycleConsistent
<1>4. CASE Submission
  <2>1. UNCHANGED <<stream, canceler>>
    BY <1>4 DEF Submission, RiskReject, RiskApprove, HandoffAccepted,
       HandoffRefused, HandoffReplyLost, HandoffTimeout, SaveWorking,
       RecordSubmission
  <2>2. ASSUME NEW o \in Orders, RiskReject(o) PROVE FillsWithinOrder'
    BY <2>2, <1>1, FreshConsistent DEF RiskReject
  <2>3. ASSUME HandoffRefused \/ HandoffReplyLost \/ SaveWorking
        PROVE  FillsWithinOrder'
    <3>1. trader.order \in Orders
      BY <2>3, TraderType DEF TypeOK, HandoffRefused, HandoffReplyLost,
         SaveWorking
    <3> QED
      BY <2>3, <3>1, <1>1, FreshConsistent
      DEF HandoffRefused, HandoffReplyLost, SaveWorking
  <2>4. ASSUME HandoffAccepted \/ HandoffTimeout \/ RecordSubmission
               \/ \E o \in Orders : RiskApprove(o)
        PROVE  FillsWithinOrder'
    BY <2>4, <1>2 DEF HandoffAccepted, HandoffTimeout, RecordSubmission,
       RiskApprove, storeVars
  <2> QED
    BY <1>3, <1>4, <2>1, <2>2, <2>3, <2>4 DEF Submission
<1>5. CASE UpdateHandling
  <2>1. ASSUME NEW u \in Updates, ApplyUpdate(u) PROVE LifecycleInv'
    <3>1. UNCHANGED <<lifecycle, canceler>> /\ u.order \in Orders
      BY <2>1 DEF ApplyUpdate, storeVars, Updates, Fills, Notices
    <3>2. LifecycleConsistent(u.order, After(lifecycle[u.order], u))
      BY <2>1, <3>1, AfterConsistent
      DEF ApplyUpdate, TypeOK, LifecycleInv, FillsWithinOrder
    <3>3. stream'.update = u /\ stream'.next = After(lifecycle[u.order], u)
      BY <2>1 DEF ApplyUpdate
    <3> QED
      BY <3>1, <3>2, <3>3, <1>2 DEF LifecycleInv, LifecycleConsistent
  <2>2. ASSUME NEW u \in Updates, RefuseUpdate(u) PROVE LifecycleInv'
    BY <2>2, <1>2, <1>3 DEF RefuseUpdate, storeVars
  <2>3. CASE SaveLifecycle
    <3>1. FillsWithinOrder'
      BY <2>3, <1>1, StreamType DEF SaveLifecycle, TypeOK, LifecycleInv
    <3>2. stream'.pc # "save"
      <4>1. stream \in [pc : {"save"}, update : Updates, next : Lifecycles]
        BY <2>3 DEF SaveLifecycle, TypeOK, StreamStates, Idle
      <4> QED
        BY <2>3, <4>1 DEF SaveLifecycle, Idle
    <3> QED
      BY <2>3, <3>1, <3>2 DEF SaveLifecycle, LifecycleInv, LifecycleConsistent
  <2>4. CASE SavePositions \/ RefusePositions \/ AppendProcessed
    <3>1. UNCHANGED <<lifecycle, canceler>>
      BY <2>4 DEF SavePositions, RefusePositions, AppendProcessed, storeVars
    <3>2. stream'.pc # "save"
      BY <2>4 DEF SavePositions, RefusePositions, AppendProcessed, Idle, TypeOK,
         StreamStates
    <3> QED
      BY <3>1, <3>2, <1>2 DEF LifecycleInv, LifecycleConsistent
  <2> QED
    BY <1>5, <2>1, <2>2, <2>3, <2>4 DEF UpdateHandling
<1>6. CASE Cancellation
  <2>1. UNCHANGED stream
    BY <1>6 DEF Cancellation, RequestCancel, CancelAccepted, CancelFailed,
       SavePendingCancel
  <2>2. ASSUME NEW o \in Orders, RequestCancel(o) PROVE LifecycleInv'
    BY <2>2, <2>1, <1>2 DEF RequestCancel, storeVars, LifecycleInv,
       FillsWithinOrder, LifecycleConsistent
  <2>3. CASE CancelAccepted
    <3>1. UNCHANGED lifecycle /\ canceler.pc # "idle"
          /\ canceler'.order = canceler.order /\ canceler'.loaded = canceler.loaded
      BY <2>3 DEF CancelAccepted, storeVars, TypeOK, CancelerStates, Idle
    <3> QED
      BY <3>1, <2>1, <1>2 DEF LifecycleInv, LifecycleConsistent
  <2>4. CASE CancelFailed
    BY <2>4, <2>1, <1>2 DEF CancelFailed, storeVars, Idle, LifecycleInv,
       LifecycleConsistent
  <2>5. CASE SavePendingCancel
    <3> DEFINE o == canceler.order
               lc == canceler.loaded
    <3>1. o \in Orders /\ lc \in Lifecycles /\ canceler.pc = "save"
      BY <2>5, CancelerType DEF SavePendingCancel, TypeOK
    <3>2. LifecycleConsistent(o, lc) /\ CanMarkPendingCancel(lc)
      BY <3>1 DEF LifecycleInv
    <3>3. LifecycleConsistent(o, MarkPendingCancel(lc))
      BY <3>1, <3>2 DEF LifecycleConsistent, CanMarkPendingCancel,
         MarkPendingCancel, Lifecycles
    <3>4. FillsWithinOrder'
      BY <2>5, <3>1, <3>3, <1>1 DEF SavePendingCancel
    <3> QED
      BY <2>5, <2>1, <3>4 DEF SavePendingCancel, Idle, LifecycleInv,
         LifecycleConsistent
  <2> QED
    BY <1>6, <2>2, <2>3, <2>4, <2>5 DEF Cancellation
<1>7. CASE Broker
  BY <1>7, <1>2, <1>3 DEF Broker, BrokerAcknowledges, BrokerCancels,
     BrokerRejects, BrokerFills, BrokerOnly, storeVars
<1>8. CASE Crash \/ CrashInSavePositions
  BY <1>8, <1>2 DEF Crash, CrashInSavePositions, Restart, Idle, LifecycleInv,
     LifecycleConsistent
<1> QED
  BY <1>4, <1>5, <1>6, <1>7, <1>8 DEF Next

\* A persisted lifecycle never has more fills than its order, and is filled
\* exactly when it has as many.
THEOREM LifecyclesConsistent == Spec => []FillsWithinOrder
<1>1. Init => LifecycleInv
  BY FreshConsistent DEF Init, LifecycleInv, FillsWithinOrder, Idle
<1>2. TypeOK /\ LifecycleInv /\ [Next]_vars => LifecycleInv'
  <2>1. ASSUME LifecycleInv, UNCHANGED vars PROVE LifecycleInv'
    BY <2>1 DEF vars, storeVars, LifecycleInv, FillsWithinOrder,
       LifecycleConsistent
  <2> QED
    BY <2>1, LifecycleStep
<1>3. LifecycleInv => FillsWithinOrder
  BY DEF LifecycleInv
<1> QED
  BY <1>1, <1>2, <1>3, TypeCorrect, PTL DEF Spec

-----------------------------------------------------------------------------
(* Handoffs.  A broker order placed under a client order ID is the recorded *)
(* one or the one about to be recorded, or a crash or a lost reply has      *)
(* separated it from its record.                                            *)

Recorded(o) ==
  activity[o] # 0 \/ (trader.pc \in {"save", "record"} /\ trader.order = o)

PlacedBound(o) ==
  /\ Recorded(o) => Cardinality(Placed(o)) =< 1 + crashes + lost
  /\ ~Recorded(o) => Cardinality(Placed(o)) =< crashes + lost

HandoffInv ==
  /\ trader.pc # "idle" => activity[trader.order] = 0
  /\ \A o \in Orders : PlacedBound(o)

LEMMA PlacedFinite ==
  ASSUME NEW o \in Orders
  PROVE  IsFiniteSet(Placed(o)) /\ Cardinality(Placed(o)) \in Nat
<1>1. IsFiniteSet(Attempts)
  BY BoundsAssumption, FS_Interval DEF Attempts
<1>2. Placed(o) \subseteq Attempts
  BY DEF Placed
<1> QED
  BY <1>1, <1>2, FS_Subset, FS_CardinalityType

\* Placing the trader's order adds at most one broker order under its ID, and
\* none under another.
LEMMA PlacedByHandoff ==
  ASSUME TypeOK, trader.pc = "handoff", PlaceAtBroker, NEW o \in Orders
  PROVE  /\ o # trader.order => Placed(o)' = Placed(o)
         /\ Cardinality(Placed(o)') =< Cardinality(Placed(o)) + 1
         /\ Cardinality(Placed(o)') \in Nat
<1>1. trader.order \in Orders /\ trader.attempt \in Attempts
  BY TraderType DEF TypeOK
<1>2. \A p \in Orders : \A n \in Attempts :
        broker'[p][n] = IF p = trader.order /\ n = trader.attempt
                        THEN [state |-> "open", filled |-> 0] ELSE broker[p][n]
  BY <1>1 DEF PlaceAtBroker, TypeOK
<1>3. o # trader.order => Placed(o)' = Placed(o)
  BY <1>2 DEF Placed
<1>4. o = trader.order => Placed(o)' = Placed(o) \cup {trader.attempt}
  BY <1>1, <1>2 DEF Placed
<1>5. IsFiniteSet(Placed(o)) /\ Cardinality(Placed(o)) \in Nat
  BY PlacedFinite
<1>6. CASE o # trader.order
  BY <1>3, <1>5, <1>6
<1>7. CASE o = trader.order
  <2>1. Cardinality(Placed(o)') =
          IF trader.attempt \in Placed(o) THEN Cardinality(Placed(o))
                                          ELSE Cardinality(Placed(o)) + 1
    BY <1>4, <1>5, <1>7, FS_AddElement
  <2> QED
    BY <1>5, <1>7, <2>1
<1> QED
  BY <1>6, <1>7

\* A step that places no order and moves neither the trader nor the activity
\* log preserves the bound.
LEMMA HandoffFrame ==
  ASSUME HandoffInv, UNCHANGED <<activity, trader, crashes, lost>>,
         \A o \in Orders : Placed(o)' = Placed(o)
  PROVE  HandoffInv'
BY DEF HandoffInv, PlacedBound, Recorded

LEMMA SubmissionHandoffs ==
  ASSUME TypeOK, HandoffInv, Submission
  PROVE  HandoffInv'
<1>0. /\ crashes \in Nat /\ lost \in Nat
      /\ \A o \in Orders : Cardinality(Placed(o)) \in Nat
  BY PlacedFinite DEF TypeOK
<1>1. ASSUME NEW o \in Orders, RiskReject(o) \/ RiskApprove(o)
      PROVE  HandoffInv'
  <2>1. UNCHANGED <<activity, broker, crashes, lost>>
    BY <1>1 DEF RiskReject, RiskApprove, storeVars, brokerVars, faultVars
  <2>2. \A p \in Orders : Placed(p)' = Placed(p)
    BY <2>1 DEF Placed
  <2>3. CASE RiskReject(o)
    BY <2>1, <2>2, <2>3, HandoffFrame DEF RiskReject
  <2>4. CASE RiskApprove(o)
    <3>1. /\ trader = Idle /\ trader'.pc = "handoff" /\ trader'.order = o
          /\ activity[o] = 0
      BY <2>4 DEF RiskApprove
    <3> QED
      BY <2>1, <2>2, <3>1 DEF HandoffInv, PlacedBound, Recorded, Idle
  <2> QED
    BY <1>1, <2>3, <2>4
<1>2. CASE HandoffAccepted
  <2>1. /\ trader.pc = "handoff" /\ PlaceAtBroker
        /\ trader'.pc = "save" /\ trader'.order = trader.order
        /\ UNCHANGED <<activity, crashes, lost>>
    BY <1>2 DEF HandoffAccepted, storeVars, faultVars, TypeOK, TraderStates,
       Idle
  <2> QED
    BY <1>0, <2>1, PlacedByHandoff DEF HandoffInv, PlacedBound, Recorded
<1>3. CASE HandoffRefused
  <2>1. /\ trader.pc = "handoff" /\ trader' = Idle
        /\ UNCHANGED <<activity, broker, crashes, lost>>
    BY <1>3 DEF HandoffRefused, brokerVars, faultVars
  <2>2. \A p \in Orders : Placed(p)' = Placed(p)
    BY <2>1 DEF Placed
  <2> QED
    BY <2>1, <2>2 DEF HandoffInv, PlacedBound, Recorded, Idle
<1>4. CASE HandoffReplyLost \/ HandoffTimeout
  <2>1. /\ trader.pc = "handoff" /\ PlaceAtBroker /\ trader' = Idle
        /\ lost' = lost + 1
        /\ UNCHANGED <<activity, crashes>>
    BY <1>4 DEF HandoffReplyLost, HandoffTimeout, storeVars
  <2> QED
    BY <1>0, <2>1, PlacedByHandoff DEF HandoffInv, PlacedBound, Recorded, Idle
<1>5. CASE SaveWorking
  <2>1. /\ trader.pc = "save" /\ trader'.pc = "record"
        /\ trader'.order = trader.order
        /\ UNCHANGED <<activity, broker, crashes, lost>>
    BY <1>5 DEF SaveWorking, brokerVars, faultVars, TypeOK, TraderStates, Idle
  <2>2. \A p \in Orders : Placed(p)' = Placed(p)
    BY <2>1 DEF Placed
  <2> QED
    BY <2>1, <2>2 DEF HandoffInv, PlacedBound, Recorded
<1>6. CASE RecordSubmission
  <2>1. trader.order \in Orders /\ trader.attempt \in Attempts
    BY <1>6, TraderType DEF RecordSubmission, TypeOK
  <2>2. /\ trader.pc = "record" /\ trader' = Idle
        /\ \A p \in Orders : activity'[p] = IF p = trader.order
                                           THEN trader.attempt ELSE activity[p]
        /\ UNCHANGED <<broker, crashes, lost>>
    BY <1>6 DEF RecordSubmission, brokerVars, faultVars, TypeOK
  <2>3. \A p \in Orders : Placed(p)' = Placed(p)
    BY <2>2 DEF Placed
  <2>4. trader.attempt # 0
    BY <2>1, BoundsAssumption DEF Attempts
  <2> QED
    BY <2>1, <2>2, <2>3, <2>4 DEF HandoffInv, PlacedBound, Recorded, Idle
<1> QED
  BY <1>1, <1>2, <1>3, <1>4, <1>5, <1>6 DEF Submission

\* The broker and the canceler change the state of orders that were placed.
LEMMA PlacedStaysPlaced ==
  ASSUME TypeOK, NEW o \in Orders,
         UNCHANGED broker \/ CancelAccepted \/ Broker
  PROVE  Placed(o)' = Placed(o)
<1>1. CASE UNCHANGED broker
  BY <1>1 DEF Placed
<1>2. CASE CancelAccepted
  <2>1. canceler.order \in Orders /\ canceler.attempt \in Attempts
    BY <1>2, CancelerType DEF CancelAccepted, TypeOK
  <2>2. \A p \in Orders : \A n \in Attempts :
          broker'[p][n].state # "none" <=> broker[p][n].state # "none"
    BY <1>2, <2>1 DEF CancelAccepted, TypeOK
  <2> QED
    BY <2>2 DEF Placed
<1>3. CASE Broker
  <2>1. PICK p \in Orders, m \in Attempts :
          \/ BrokerAcknowledges(p, m) \/ BrokerCancels(p, m)
          \/ BrokerRejects(p, m)
          \/ \E q \in 1..MaxQuantity : BrokerFills(p, m, q)
    BY <1>3 DEF Broker
  <2>2. CASE BrokerAcknowledges(p, m)
    BY <2>2 DEF BrokerAcknowledges, Placed
  <2>3. CASE BrokerCancels(p, m) \/ BrokerRejects(p, m)
    <3>1. /\ broker[p][m].state # "none" /\ broker'[p][m].state # "none"
          /\ \A n \in Attempts :
               (o = p /\ n = m) \/ broker'[o][n] = broker[o][n]
      BY <2>3 DEF BrokerCancels, BrokerRejects, Live, TypeOK
    <3> QED
      BY <3>1 DEF Placed
  <2>4. ASSUME NEW q \in 1..MaxQuantity, BrokerFills(p, m, q)
        PROVE  Placed(o)' = Placed(o)
    <3>1. /\ broker[p][m].state # "none" /\ broker'[p][m].state # "none"
          /\ \A n \in Attempts :
               (o = p /\ n = m) \/ broker'[o][n] = broker[o][n]
      BY <2>4 DEF BrokerFills, Live, TypeOK
    <3> QED
      BY <3>1 DEF Placed
  <2> QED
    BY <2>1, <2>2, <2>3, <2>4
<1> QED
  BY <1>1, <1>2, <1>3

LEMMA HandoffStep ==
  ASSUME TypeOK, HandoffInv, Next
  PROVE  HandoffInv'
<1>1. CASE Submission
  BY <1>1, SubmissionHandoffs
<1>2. CASE UpdateHandling
  <2>1. UNCHANGED <<activity, trader, crashes, lost, broker>>
    BY <1>2 DEF UpdateHandling, ApplyUpdate, RefuseUpdate, SaveLifecycle,
       SavePositions, RefusePositions, AppendProcessed, storeVars, brokerVars,
       faultVars
  <2> QED
    BY <2>1, HandoffFrame, PlacedStaysPlaced
<1>3. CASE Cancellation
  <2>1. UNCHANGED <<activity, trader, crashes, lost>>
        /\ (UNCHANGED broker \/ CancelAccepted)
    BY <1>3 DEF Cancellation, RequestCancel, CancelAccepted, CancelFailed,
       SavePendingCancel, storeVars, brokerVars, faultVars
  <2> QED
    BY <2>1, HandoffFrame, PlacedStaysPlaced
<1>4. CASE Broker
  <2>1. UNCHANGED <<activity, trader, crashes, lost>>
    BY <1>4 DEF Broker, BrokerAcknowledges, BrokerCancels, BrokerRejects,
       BrokerFills, BrokerOnly, storeVars, faultVars
  <2> QED
    BY <1>4, <2>1, HandoffFrame, PlacedStaysPlaced
<1>5. CASE Crash \/ CrashInSavePositions
  <2>1. /\ trader' = Idle /\ crashes' = crashes + 1
        /\ UNCHANGED <<activity, lost, broker>>
    BY <1>5 DEF Crash, CrashInSavePositions, Restart, brokerVars
  <2>2. \A o \in Orders : Placed(o)' = Placed(o)
    BY <2>1, PlacedStaysPlaced
  <2>3. /\ crashes \in Nat /\ lost \in Nat
        /\ \A o \in Orders : Cardinality(Placed(o)) \in Nat
    BY PlacedFinite DEF TypeOK
  <2> QED
    BY <2>1, <2>2, <2>3 DEF HandoffInv, PlacedBound, Recorded, Idle
<1> QED
  BY <1>1, <1>2, <1>3, <1>4, <1>5 DEF Next

\* A client order ID has at most one broker order, and one more for every
\* crash and every lost reply.
THEOREM HandoffsBounded == Spec => []RepeatedHandoffNeedsFault
<1>1. Init => HandoffInv
  <2> SUFFICES ASSUME Init PROVE HandoffInv
    OBVIOUS
  <2>1. \A o \in Orders : Placed(o) = {}
    BY DEF Init, Placed
  <2>2. /\ trader.pc = "idle" /\ crashes = 0 /\ lost = 0
        /\ \A o \in Orders : activity[o] = 0
    BY DEF Init, Idle
  <2>3. Cardinality({}) = 0
    BY FS_EmptySet
  <2> QED
    BY <2>1, <2>2, <2>3 DEF HandoffInv, PlacedBound, Recorded
<1>2. TypeOK /\ HandoffInv /\ [Next]_vars => HandoffInv'
  <2>1. ASSUME TypeOK, HandoffInv, UNCHANGED vars PROVE HandoffInv'
    BY <2>1, HandoffFrame, PlacedStaysPlaced DEF vars, storeVars, brokerVars,
       faultVars
  <2> QED
    BY <2>1, HandoffStep
<1>3. TypeOK /\ HandoffInv => RepeatedHandoffNeedsFault
  BY PlacedFinite DEF TypeOK, HandoffInv, PlacedBound,
     RepeatedHandoffNeedsFault
<1> QED
  BY <1>1, <1>2, <1>3, TypeCorrect, PTL DEF Spec

-----------------------------------------------------------------------------
(* What a fill makes of a position.                                        *)

\* A fill of any quantity and price makes a position of a position, whatever it
\* was, whose average price is not negative, so that nothing raises; and its average price accounts for the money: nothing is lost or made up
\* when it grows, is reduced, closed or turned round.
THEOREM FillsAccounted ==
  ASSUME NEW previous \in Positions, NEW fill \in Int \ {0}, NEW price \in Nat
  PROVE  /\ ApplyFill(previous, fill, price) \in Positions
         /\ Accounted(previous, fill, price)
<1> DEFINE q == previous.quantity
           c == previous.average.cost
           n == previous.average.contracts
           next == ApplyFill(previous, fill, price)
<1>1. q \in Int /\ c \in Nat /\ n \in Nat \ {0} /\ previous.average \in Averages
  BY DEF Positions, Averages
<1>2. next.quantity = q + fill /\ next.average = UpdatedAverage(previous, fill, price)
  BY DEF ApplyFill
<1>3. SUFFICES
        /\ next.average \in Averages
        /\ (q + fill) * next.average.cost * n =
             next.average.contracts *
               (q * c + fill * price * n + Closed(q, fill) * (price * n - c))
  BY <1>1, <1>2 DEF Accounted, ApplyFill, Positions
<1> HIDE DEF q, c, n, next
\* Closed: the whole position is.
<1>4. CASE q + fill = 0
  <2>1. next.average = Flat.average
    BY <1>2, <1>4 DEF UpdatedAverage, q
  <2>2. Closed(q, fill) = q
    BY <1>1, <1>4 DEF Closed, SameSide, Size
  <2>3. q * c + fill * price * n + q * (price * n - c) = 0
    <3>1. fill = -q
      BY <1>1, <1>4
    <3> QED
      BY <1>1, <3>1
  <2> QED
    BY <1>1, <1>4, <2>1, <2>2, <2>3 DEF Flat, Averages
\* Opened or grown: nothing is closed, and both sides have one sign.
<1>5. CASE q + fill # 0 /\ Grows(q, fill)
  <2>1. next.average = [cost |-> Size(q) * c + Size(fill) * price * n,
                        contracts |-> Size(q + fill) * n]
    BY <1>2, <1>5 DEF UpdatedAverage, WeightedAverage, q, c, n
  <2>2. Closed(q, fill) = 0
    BY <1>1, <1>5 DEF Closed, SameSide, Grows
  <2>3. Size(q + fill) \in Nat \ {0} /\ Size(q + fill) * n \in Nat \ {0}
    BY <1>1, <1>5 DEF Size
  <2>4. Size(q) * c + Size(fill) * price * n \in Nat
    <3>1. Size(q) \in Nat /\ Size(fill) \in Nat
      BY <1>1 DEF Size
    <3>2. Size(q) * c \in Nat /\ Size(fill) * price \in Nat
      BY <1>1, <3>1
    <3>3. Size(fill) * price * n \in Nat
      BY <1>1, <3>2
    <3> QED
      BY <3>2, <3>3
  <2>5. (q + fill) * (Size(q) * c + Size(fill) * price * n) * n =
          (Size(q + fill) * n) * (q * c + fill * price * n)
    <3>1. CASE fill > 0
      <4>1. Size(q) = q /\ Size(fill) = fill /\ Size(q + fill) = q + fill
        BY <1>1, <1>5, <3>1 DEF Size, Grows, SameSide
      <4> QED
        BY <1>1, <4>1
    <3>2. CASE fill < 0
      <4>1. Size(q) = -q /\ Size(fill) = -fill /\ Size(q + fill) = -(q + fill)
        BY <1>1, <1>5, <3>2 DEF Size, Grows, SameSide
      <4> QED
        BY <1>1, <4>1
    <3> QED
      BY <3>1, <3>2
  <2> QED
    BY <1>1, <2>1, <2>2, <2>3, <2>4, <2>5 DEF Averages
\* Reduced: the fill is what is closed.
<1>6. CASE ~Grows(q, fill) /\ SameSide(q, q + fill)
  <2>1. next.average = previous.average
    BY <1>1, <1>2, <1>6 DEF UpdatedAverage, SameSide, q
  <2>2. Closed(q, fill) = -fill
    BY <1>1, <1>6 DEF Closed, SameSide, Size, Grows
  <2>3. (q + fill) * c * n = n * (q * c + fill * price * n + (-fill) * (price * n - c))
    BY <1>1
  <2> QED
    BY <1>1, <2>1, <2>2, <2>3 DEF c, n
\* Turned round: the whole position is closed, and the rest is new.
<1>7. CASE q + fill # 0 /\ ~Grows(q, fill) /\ ~SameSide(q, q + fill)
  <2>1. next.average = [cost |-> price, contracts |-> 1]
    BY <1>2, <1>7 DEF UpdatedAverage, q
  <2>2. Closed(q, fill) = q
    BY <1>1, <1>7 DEF Closed, SameSide, Size, Grows
  <2>3. (q + fill) * price * n = q * c + fill * price * n + q * (price * n - c)
    BY <1>1
  <2> QED
    BY <1>1, <2>1, <2>2, <2>3 DEF Averages
<1> QED
  BY <1>1, <1>4, <1>5, <1>6, <1>7 DEF SameSide

-----------------------------------------------------------------------------
(* The broker's book and what it has published of it.  Fills of a broker    *)
(* order cover different contracts of it, from the first to the last one    *)
(* that is filled.                                                          *)

PublishedFills == Fills \cap published

Span(f) == f.from..(f.from + f.qty - 1)

OneBrokerOrder(f, g) == f.order = g.order /\ f.attempt = g.attempt

\* A broker order is placed once, under the attempt that is under way.
PlacedOnce ==
  /\ trader.pc # "idle" => trader.attempt = attempts[trader.order]
  /\ trader.pc = "handoff" => broker[trader.order][trader.attempt].state = "none"
  /\ \A o \in Orders, n \in Attempts : n > attempts[o] => broker[o][n].state = "none"

FillsInBook ==
  \A f \in PublishedFills :
    /\ broker[f.order][f.attempt].state # "none"
    /\ f.from + f.qty =< broker[f.order][f.attempt].filled

FillsDisjoint ==
  \A f, g \in PublishedFills :
    OneBrokerOrder(f, g) /\ f # g => f.from + f.qty =< g.from \/ g.from + g.qty =< f.from

BookInv == PlacedOnce /\ FillsInBook /\ FillsDisjoint

LEMMA BookFrame ==
  ASSUME BookInv, UNCHANGED <<trader, attempts, broker, published>>
  PROVE  BookInv'
BY DEF BookInv, PlacedOnce, FillsInBook, FillsDisjoint, PublishedFills

LEMMA FillParts ==
  ASSUME NEW f \in Fills
  PROVE  /\ f.type = "fill" /\ f.order \in Orders /\ f.attempt \in Attempts
         /\ f.from \in Nat /\ f.qty \in Nat \ {0}
         /\ f.from \in 0..MaxQuantity /\ f.qty \in 1..MaxQuantity
         /\ f.from + f.qty =< Quantity[f.order]
         /\ Quantity[f.order] \in 1..MaxQuantity
BY QuantityAssumption DEF Fills

LEMMA BookInit == Init => BookInv
BY DEF Init, BookInv, PlacedOnce, FillsInBook, FillsDisjoint, PublishedFills, Idle

LEMMA SubmissionBook ==
  ASSUME TypeOK, BookInv, Submission
  PROVE  BookInv'
<1>0. UNCHANGED published /\ PublishedFills' = PublishedFills
  BY DEF Submission, RiskReject, RiskApprove, HandoffAccepted, HandoffRefused,
     HandoffReplyLost, HandoffTimeout, SaveWorking, RecordSubmission, brokerVars,
     PublishedFills
<1>1. ASSUME NEW o \in Orders, RiskReject(o) PROVE BookInv'
  <2>1. /\ UNCHANGED <<trader, broker>> /\ trader = Idle
        /\ attempts \in [Orders -> Nat] /\ \A p \in Orders : attempts'[p] >= attempts[p]
    BY <1>1, BoundsAssumption DEF RiskReject, brokerVars, TypeOK
  <2>2. \A p \in Orders, n \in Attempts : n > attempts'[p] => n > attempts[p]
    <3>1. attempts' \in [Orders -> Nat]
      BY <1>1, <2>1 DEF RiskReject
    <3> QED
      BY <2>1, <3>1, BoundsAssumption DEF Attempts
  <2>3. PlacedOnce'
    BY <2>1, <2>2 DEF BookInv, PlacedOnce, Idle
  <2> QED
    BY <1>0, <2>1, <2>3 DEF BookInv, FillsInBook, FillsDisjoint
<1>2. ASSUME NEW o \in Orders, RiskApprove(o) PROVE BookInv'
  <2>1. /\ UNCHANGED broker
        /\ trader' = [pc |-> "handoff", order |-> o, attempt |-> attempts[o] + 1]
        /\ attempts' = [attempts EXCEPT ![o] = @ + 1]
        /\ attempts \in [Orders -> Nat]
        /\ attempts[o] + 1 \in Attempts /\ attempts[o] + 1 > attempts[o]
    BY <1>2, BoundsAssumption DEF RiskApprove, brokerVars, TypeOK, Attempts
  <2>2. /\ attempts'[o] = attempts[o] + 1
        /\ \A p \in Orders : p # o => attempts'[p] = attempts[p]
    BY <2>1
  <2>3. broker[o][attempts[o] + 1].state = "none"
    BY <2>1 DEF BookInv, PlacedOnce
  <2>4. \A p \in Orders, n \in Attempts : n > attempts'[p] => n > attempts[p]
    BY <2>1, <2>2, BoundsAssumption DEF Attempts
  <2>5. PlacedOnce'
    BY <2>1, <2>2, <2>3, <2>4 DEF BookInv, PlacedOnce
  <2> QED
    BY <1>0, <2>1, <2>5 DEF BookInv, FillsInBook, FillsDisjoint
<1>3. ASSUME trader.pc = "handoff", PlaceAtBroker, UNCHANGED attempts,
             trader' = Idle \/ trader' = [trader EXCEPT !.pc = "save"]
      PROVE  BookInv'
  <2>1. /\ trader.order \in Orders /\ trader.attempt \in Attempts
        /\ broker[trader.order][trader.attempt].state = "none"
        /\ trader.attempt = attempts[trader.order]
    BY <1>3, TraderType DEF TypeOK, BookInv, PlacedOnce
  <2>2. \A o \in Orders, n \in Attempts :
          o # trader.order \/ n # trader.attempt => broker'[o][n] = broker[o][n]
    BY <1>3, <2>1 DEF PlaceAtBroker, TypeOK
  <2>3. FillsInBook'
    <3>1. ASSUME NEW f \in PublishedFills
          PROVE  broker'[f.order][f.attempt] = broker[f.order][f.attempt]
      <4>1. f \in Fills /\ broker[f.order][f.attempt].state # "none"
        BY DEF BookInv, FillsInBook, PublishedFills
      <4> QED
        BY <2>1, <2>2, <4>1, FillParts
    <3> QED
      BY <1>0, <3>1 DEF BookInv, FillsInBook
  <2>4. trader'.pc # "handoff"
        /\ (trader'.pc # "idle" => trader'.attempt = trader.attempt /\ trader'.order = trader.order)
    BY <1>3 DEF Idle, TypeOK, TraderStates
  <2>5. PlacedOnce'
    <3>1. ASSUME NEW o \in Orders, NEW n \in Attempts, n > attempts[o]
          PROVE  broker'[o][n].state = "none"
      <4>1. o # trader.order \/ n # trader.attempt
        BY <2>1, <3>1, BoundsAssumption DEF TypeOK, Attempts
      <4> QED
        BY <2>2, <3>1, <4>1 DEF BookInv, PlacedOnce
    <3> QED
      BY <1>3, <2>1, <2>4, <3>1 DEF BookInv, PlacedOnce
  <2> QED
    BY <1>0, <2>3, <2>5 DEF BookInv, FillsDisjoint
<1>4. CASE HandoffAccepted \/ HandoffReplyLost \/ HandoffTimeout
  BY <1>3, <1>4 DEF HandoffAccepted, HandoffReplyLost, HandoffTimeout
<1>5. CASE HandoffRefused \/ SaveWorking \/ RecordSubmission
  <2>1. /\ UNCHANGED <<broker, attempts>>
        /\ trader'.pc # "handoff"
        /\ trader'.pc # "idle" => /\ trader.pc # "idle" /\ trader'.attempt = trader.attempt
                                  /\ trader'.order = trader.order
    BY <1>5 DEF HandoffRefused, SaveWorking, RecordSubmission, Idle, TypeOK, TraderStates,
       brokerVars
  <2> QED
    BY <1>0, <2>1 DEF BookInv, PlacedOnce, FillsInBook, FillsDisjoint
<1> QED
  BY <1>1, <1>2, <1>4, <1>5 DEF Submission

\* A change of the state of a placed order.
LEMMA BookStates ==
  ASSUME TypeOK, BookInv, UNCHANGED <<trader, attempts>>,
         NEW o \in Orders, NEW n \in Attempts, broker[o][n].state # "none",
         broker'[o][n].state # "none", broker'[o][n].filled = broker[o][n].filled,
         \A p \in Orders, m \in Attempts :
           p # o \/ m # n => broker'[p][m] = broker[p][m],
         PublishedFills' = PublishedFills
  PROVE  BookInv'
<1>1. \A p \in Orders, m \in Attempts :
        /\ broker'[p][m].state = "none" <=> broker[p][m].state = "none"
        /\ broker'[p][m].filled = broker[p][m].filled
  OBVIOUS
<1>2. \A f \in PublishedFills : f.order \in Orders /\ f.attempt \in Attempts
  BY FillParts DEF PublishedFills
<1>3. FillsInBook' /\ FillsDisjoint'
  BY <1>1, <1>2 DEF BookInv, FillsInBook, FillsDisjoint
<1>4. trader.pc # "idle" => trader.order \in Orders /\ trader.attempt \in Attempts
  BY TraderType DEF TypeOK
<1>5. PlacedOnce'
  BY <1>1, <1>4 DEF BookInv, PlacedOnce
<1> QED
  BY <1>3, <1>5 DEF BookInv

LEMMA BrokerBook ==
  ASSUME TypeOK, BookInv, Broker
  PROVE  BookInv'
<1>0. UNCHANGED <<trader, attempts>>
  BY DEF Broker, BrokerAcknowledges, BrokerCancels, BrokerRejects, BrokerFills, BrokerOnly
<1>1. PICK o \in Orders, n \in Attempts :
        \/ BrokerAcknowledges(o, n) \/ BrokerCancels(o, n) \/ BrokerRejects(o, n)
        \/ \E q \in 1..MaxQuantity : BrokerFills(o, n, q)
  BY DEF Broker
<1>2. ASSUME NEW type \in {"working", "canceled", "rejected"}, Publish(type, o, n)
      PROVE  PublishedFills' = PublishedFills
  BY <1>2, FillParts DEF Publish, PublishedFills
<1>3. CASE BrokerAcknowledges(o, n)
  <2>1. PublishedFills' = PublishedFills /\ UNCHANGED broker
    BY <1>2, <1>3 DEF BrokerAcknowledges
  <2> QED
    BY <1>0, <2>1 DEF BookInv, PlacedOnce, FillsInBook, FillsDisjoint
<1>4. CASE BrokerCancels(o, n) \/ BrokerRejects(o, n)
  <2>1. PublishedFills' = PublishedFills
    BY <1>2, <1>4 DEF BrokerCancels, BrokerRejects
  <2>2. /\ broker[o][n].state # "none" /\ broker'[o][n].state # "none"
        /\ broker'[o][n].filled = broker[o][n].filled
        /\ \A p \in Orders, m \in Attempts : p # o \/ m # n => broker'[p][m] = broker[p][m]
    BY <1>4 DEF BrokerCancels, BrokerRejects, Live, TypeOK
  <2> QED
    BY <1>0, <2>1, <2>2, BookStates
<1>5. ASSUME NEW q \in 1..MaxQuantity, BrokerFills(o, n, q) PROVE BookInv'
  <2> DEFINE filled == broker[o][n].filled
             fill == [type |-> "fill", order |-> o, attempt |-> n, from |-> filled, qty |-> q]
  <2>1. /\ filled \in Nat /\ q \in Nat \ {0}
        /\ broker[o][n].state # "none" /\ broker'[o][n].state # "none"
        /\ broker'[o][n].filled = filled + q
        /\ \A p \in Orders, m \in Attempts : p # o \/ m # n => broker'[p][m] = broker[p][m]
    BY <1>5, QuantityAssumption DEF BrokerFills, Live, TypeOK
  <2>2. published' = published \cup {fill}
    BY <1>5 DEF BrokerFills
  <2>3. PublishedFills' \subseteq PublishedFills \cup {fill}
    BY <2>2 DEF PublishedFills
  <2>4. \A f \in PublishedFills :
          /\ f \in Fills /\ f.order \in Orders /\ f.attempt \in Attempts
          /\ f.from \in Nat /\ f.qty \in Nat
          /\ broker[f.order][f.attempt].state # "none"
          /\ f.from + f.qty =< broker[f.order][f.attempt].filled
    BY FillParts DEF PublishedFills, BookInv, FillsInBook
  <2>5. FillsInBook'
    <3>1. ASSUME NEW f \in PublishedFills
          PROVE  /\ broker'[f.order][f.attempt].state # "none"
                 /\ f.from + f.qty =< broker'[f.order][f.attempt].filled
      BY <2>1, <2>4
    <3>2. /\ broker'[fill.order][fill.attempt].state # "none"
          /\ fill.from + fill.qty =< broker'[fill.order][fill.attempt].filled
      BY <2>1
    <3> HIDE DEF fill
    <3> QED
      BY <2>3, <3>1, <3>2 DEF FillsInBook
  <2>6. FillsDisjoint'
    <3>1. ASSUME NEW f \in PublishedFills, OneBrokerOrder(f, fill)
          PROVE  f.from + f.qty =< fill.from
      BY <2>4, <3>1 DEF OneBrokerOrder
    <3> HIDE DEF fill
    <3>2. \A f \in PublishedFills : OneBrokerOrder(fill, f) => OneBrokerOrder(f, fill)
      BY DEF OneBrokerOrder
    <3> QED
      BY <2>3, <3>1, <3>2 DEF BookInv, FillsDisjoint
  <2>7. trader.pc # "idle" => trader.order \in Orders /\ trader.attempt \in Attempts
    BY TraderType DEF TypeOK
  <2>8. PlacedOnce'
    BY <1>0, <2>1, <2>7 DEF BookInv, PlacedOnce
  <2> QED
    BY <2>5, <2>6, <2>8 DEF BookInv
<1> QED
  BY <1>1, <1>3, <1>4, <1>5

LEMMA BookStep ==
  ASSUME TypeOK, BookInv, [Next]_vars
  PROVE  BookInv'
<1>1. CASE UpdateHandling
  <2>1. UNCHANGED <<trader, attempts, broker, published>>
    BY <1>1 DEF UpdateHandling, ApplyUpdate, RefuseUpdate, SaveLifecycle,
       SavePositions, RefusePositions, AppendProcessed, brokerVars
  <2> QED
    BY <2>1, BookFrame
<1>2. CASE Cancellation
  <2>1. CASE CancelAccepted
    <3>1. canceler.order \in Orders /\ canceler.attempt \in Attempts
      BY <2>1, CancelerType DEF CancelAccepted, TypeOK
    <3>2. /\ UNCHANGED <<trader, attempts>> /\ PublishedFills' = PublishedFills
      BY <2>1 DEF CancelAccepted, PublishedFills
    <3>3. \A p \in Orders, m \in Attempts :
            /\ broker'[p][m].state = "none" <=> broker[p][m].state = "none"
            /\ broker'[p][m].filled = broker[p][m].filled
      BY <2>1, <3>1 DEF CancelAccepted, TypeOK
    <3>4. \A f \in PublishedFills : f.order \in Orders /\ f.attempt \in Attempts
      BY FillParts DEF PublishedFills
    <3>5. trader.pc # "idle" => trader.order \in Orders /\ trader.attempt \in Attempts
      BY TraderType DEF TypeOK
    <3>6. FillsInBook' /\ FillsDisjoint'
      BY <3>2, <3>3, <3>4 DEF BookInv, FillsInBook, FillsDisjoint
    <3>7. PlacedOnce'
      BY <3>2, <3>3, <3>5 DEF BookInv, PlacedOnce
    <3> QED
      BY <3>6, <3>7 DEF BookInv
  <2>2. CASE CancelFailed \/ SavePendingCancel \/ \E o \in Orders : RequestCancel(o)
    <3>1. UNCHANGED <<trader, attempts, broker, published>>
      BY <2>2 DEF RequestCancel, CancelFailed, SavePendingCancel, brokerVars
    <3> QED
      BY <3>1, BookFrame
  <2> QED
    BY <1>2, <2>1, <2>2 DEF Cancellation
<1>3. CASE Crash \/ CrashInSavePositions
  <2>1. trader' = Idle /\ UNCHANGED <<attempts, broker, published>>
    BY <1>3 DEF Crash, CrashInSavePositions, Restart, brokerVars
  <2> QED
    BY <2>1 DEF BookInv, PlacedOnce, FillsInBook, FillsDisjoint, PublishedFills, Idle
<1>4. CASE UNCHANGED vars
  BY <1>4, BookFrame DEF vars, brokerVars
<1> QED
  BY <1>1, <1>2, <1>3, <1>4, SubmissionBook, BrokerBook DEF Next

-----------------------------------------------------------------------------
(* What the lifecycles claim.  The fills that were applied to an order      *)
(* cover that many contracts of the broker order.                           *)

Applied(o) ==
  {f \in Fills : /\ f.order = o
                 /\ \/ f \in processed
                    \/ stream.pc \in {"ledger", "append"} /\ stream.update = f}

Units(o) == UNION {Span(f) : f \in Applied(o)}

Claims(o, filled) == filled =< Cardinality(Units(o))

\* A fill whose new lifecycle is not yet saved counts beside the applied ones.
UpdateClaims ==
  IF stream.update.type = "fill"
  THEN stream.next.filled =< Cardinality(Units(stream.update.order)) + stream.update.qty
  ELSE Claims(stream.update.order, stream.next.filled)

CoverInv ==
  crashes = 0 =>
    /\ ~positionsTorn
    /\ \A o \in Orders : Claims(o, lifecycle[o].filled)
    /\ stream.pc = "save" => UpdateClaims
    /\ canceler.pc # "idle" => Claims(canceler.order, canceler.loaded.filled)

LEMMA SpanSize ==
  ASSUME NEW f \in Fills
  PROVE  /\ IsFiniteSet(Span(f)) /\ Cardinality(Span(f)) = f.qty
         /\ Span(f) \subseteq 0..MaxQuantity
<1>1. f.from \in Int /\ f.from + f.qty - 1 \in Int /\ MaxQuantity \in Nat
  BY FillParts, QuantityAssumption
<1>2. ASSUME NEW a \in Int, NEW b \in Int, b >= a
      PROVE  IsFiniteSet(a..b) /\ Cardinality(a..b) = b - a + 1
  BY <1>2, FS_Interval
<1>3. /\ f.from + f.qty - 1 >= f.from
      /\ f.from + f.qty - 1 - f.from + 1 = f.qty
  BY FillParts
<1>4. Span(f) \subseteq 0..MaxQuantity
  BY <1>1, FillParts DEF Span
<1>5. IsFiniteSet(Span(f)) /\ Cardinality(Span(f)) = f.qty
  <2> DEFINE b == f.from + f.qty - 1
  <2>1. IsFiniteSet(f.from..b) /\ Cardinality(f.from..b) = b - f.from + 1
    BY <1>1, <1>2, <1>3
  <2>2. b - f.from + 1 = f.qty
    BY FillParts
  <2>3. Span(f) = f.from..b
    BY Zenon DEF Span
  <2> HIDE DEF b
  <2> QED
    BY <2>1, <2>2, <2>3
<1> QED
  BY <1>4, <1>5

LEMMA DisjointUnion ==
  ASSUME NEW S, IsFiniteSet(S), NEW T, IsFiniteSet(T), S \cap T = {}
  PROVE  Cardinality(S \cup T) = Cardinality(S) + Cardinality(T)
<1>1. Cardinality(S \cap T) = 0
  BY FS_EmptySet
<1>2. Cardinality(S) \in Nat /\ Cardinality(T) \in Nat
  BY FS_CardinalityType
<1>3. Cardinality(S \cup T) = Cardinality(S) + Cardinality(T) - Cardinality(S \cap T)
  BY FS_Union
<1> QED
  BY <1>1, <1>2, <1>3

LEMMA UnitsFinite ==
  ASSUME NEW o
  PROVE  IsFiniteSet(Units(o)) /\ Cardinality(Units(o)) \in Nat
<1>1. Units(o) \subseteq 0..MaxQuantity
  BY SpanSize DEF Units, Applied
<1>2. IsFiniteSet(0..MaxQuantity)
  BY FS_Interval, QuantityAssumption
<1> QED
  BY <1>1, <1>2, FS_Subset, FS_CardinalityType

\* The applied fills are published fills of the recorded broker order.
LEMMA AppliedFills ==
  ASSUME TypeOK, LedgerInv, NEW o \in Orders, NEW f \in Applied(o)
  PROVE  f \in PublishedFills /\ f.order = o /\ f.attempt = activity[o]
<1>1. f \in Fills /\ f.order = o
  BY DEF Applied
<1>2. CASE f \in processed
  BY <1>1, <1>2 DEF LedgerInv, FillInv, Booked, PublishedFills, TypeOK
<1>3. CASE stream.pc \in {"ledger", "append"} /\ stream.update = f
  BY <1>1, <1>3, FillParts DEF LedgerInv, StreamInv, PublishedFills
<1> QED
  BY <1>2, <1>3 DEF Applied

\* A step that keeps the lifecycles and what has been applied.
LEMMA CoverFrame ==
  ASSUME CoverInv, crashes' = crashes,
         positionsTorn' = positionsTorn,
         \A o \in Orders : lifecycle'[o].filled = 0 \/ lifecycle'[o] = lifecycle[o],
         UNCHANGED <<processed, stream, canceler>>
  PROVE  CoverInv'
<1>1. \A o : Units(o)' = Units(o)
  BY DEF Units, Applied
<1>2. \A o : Cardinality(Units(o)) \in Nat
  BY UnitsFinite
<1>3. ASSUME NEW o \in Orders, crashes = 0 PROVE Claims(o, lifecycle[o].filled)'
  BY <1>1, <1>2, <1>3 DEF CoverInv, Claims
<1>4. ASSUME crashes = 0, stream.pc = "save" PROVE UpdateClaims'
  BY <1>1, <1>4 DEF CoverInv, UpdateClaims, Claims
<1>5. ASSUME crashes = 0, canceler.pc # "idle"
      PROVE  Claims(canceler.order, canceler.loaded.filled)'
  BY <1>1, <1>5 DEF CoverInv, Claims
<1> QED
  BY <1>3, <1>4, <1>5 DEF CoverInv

LEMMA CoverInit == Init => CoverInv
<1> SUFFICES ASSUME Init PROVE CoverInv
  OBVIOUS
<1>1. \A o : Cardinality(Units(o)) \in Nat
  BY UnitsFinite
<1> QED
  BY <1>1 DEF Init, CoverInv, Claims, Unknown, Idle

LEMMA SubmissionCover ==
  ASSUME TypeOK, CoverInv, Submission
  PROVE  CoverInv'
<1>1. UNCHANGED <<crashes, positionsTorn, processed, stream, canceler>>
  BY DEF Submission, RiskReject, RiskApprove, HandoffAccepted, HandoffRefused,
     HandoffReplyLost, HandoffTimeout, SaveWorking, RecordSubmission, storeVars, faultVars
<1>2. MarkRejected(PendingSubmit).filled = 0 /\ MarkWorking(PendingSubmit).filled = 0
  BY DEF MarkRejected, MarkWorking, PendingSubmit
<1>3. ASSUME NEW o \in Orders PROVE lifecycle'[o].filled = 0 \/ lifecycle'[o] = lifecycle[o]
  <2>1. \/ UNCHANGED lifecycle
        \/ \E p, lc : lc.filled = 0 /\ lifecycle' = [lifecycle EXCEPT ![p] = lc]
    BY <1>2 DEF Submission, RiskReject, RiskApprove, HandoffAccepted, HandoffRefused,
       HandoffReplyLost, HandoffTimeout, SaveWorking, RecordSubmission, storeVars
  <2> QED
    BY <2>1 DEF TypeOK
<1> QED
  BY <1>1, <1>3, CoverFrame

LEMMA UpdateCover ==
  ASSUME TypeOK, LedgerInv, BookInv, CoverInv, UpdateHandling
  PROVE  CoverInv'
<1>0. \A o : Cardinality(Units(o)) \in Nat
  BY UnitsFinite
<1>1. ASSUME NEW u \in Updates, ApplyUpdate(u) PROVE CoverInv'
  <2>1. /\ stream.pc = "idle" /\ stream'.pc = "save" /\ stream'.update = u
        /\ stream'.next = After(lifecycle[u.order], u)
        /\ Accepts(lifecycle[u.order], u)
        /\ UNCHANGED <<crashes, positionsTorn, processed, lifecycle, canceler>>
    BY <1>1 DEF ApplyUpdate, Idle, storeVars, faultVars
  <2>2. \A o : Units(o)' = Units(o)
    BY <2>1 DEF Units, Applied
  <2>3. u.order \in Orders /\ lifecycle[u.order] \in Lifecycles
    BY DEF Updates, Fills, Notices, TypeOK
  <2>4. ASSUME crashes = 0 PROVE UpdateClaims'
    <3>1. lifecycle[u.order].filled =< Cardinality(Units(u.order))
      BY <2>3, <2>4 DEF CoverInv, Claims
    <3>2. lifecycle[u.order].filled \in Int
      BY <2>3, QuantityAssumption DEF Lifecycles
    <3>3. After(lifecycle[u.order], u).filled =
            IF u.type = "fill" THEN lifecycle[u.order].filled + u.qty
                               ELSE lifecycle[u.order].filled
      BY <2>3 DEF After, MarkWorking, MarkCanceled, MarkRejected, RecordFill, Lifecycles,
         Updates, Fills, Notices
    <3>4. u.type = "fill" => u.qty \in Nat
      BY FillParts DEF Updates, Notices
    <3> QED
      BY <1>0, <2>1, <2>2, <3>1, <3>2, <3>3, <3>4 DEF UpdateClaims, Claims
  <2> QED
    BY <2>1, <2>2, <2>4 DEF CoverInv, Claims
<1>2. ASSUME NEW u \in Updates, RefuseUpdate(u) PROVE CoverInv'
  BY <1>2, CoverFrame DEF RefuseUpdate, storeVars, faultVars
<1>3. ASSUME SaveLifecycle PROVE CoverInv'
  <2>0. PICK u : u = stream.update
    OBVIOUS
  <2>1. /\ stream.pc = "save" /\ stream'.pc # "save"
        /\ lifecycle' = [lifecycle EXCEPT ![u.order] = stream.next]
        /\ UNCHANGED <<crashes, positionsTorn, processed, canceler>>
    BY <1>3, <2>0 DEF SaveLifecycle, Idle, faultVars, TypeOK, StreamStates
  <2>2. u \in Updates /\ u.order \in Orders
    BY <2>0, <2>1, StreamType DEF TypeOK
  <2>3. u.type = "fill" => u \in Fills /\ stream'.pc = "ledger" /\ stream'.update = u
    BY <1>3, <2>0, <2>1, StreamType DEF SaveLifecycle, TypeOK, StreamStates, Idle
  <2>4. u.type # "fill" => stream'.pc = "idle"
    BY <1>3, <2>0 DEF SaveLifecycle, Idle
  <2>5. \A o : o # u.order \/ u.type # "fill" => Units(o)' = Units(o)
    BY <2>0, <2>1, <2>3, <2>4 DEF Units, Applied
  <2>6. ASSUME u.type = "fill"
        PROVE  Cardinality(Units(u.order)') = Cardinality(Units(u.order)) + u.qty
    <3>1. Applied(u.order)' = Applied(u.order) \cup {u}
      BY <2>0, <2>1, <2>3, <2>6 DEF Applied
    <3>2. Units(u.order)' = Units(u.order) \cup Span(u)
      BY <3>1 DEF Units
    <3>3. Units(u.order) \cap Span(u) = {}
      <4> SUFFICES ASSUME NEW f \in Applied(u.order) PROVE Span(f) \cap Span(u) = {}
        BY DEF Units
      <4>1. f \in PublishedFills /\ OneBrokerOrder(f, u)
        <5>1. activity[u.order] = u.attempt
          BY <2>0, <2>1, <2>6 DEF LedgerInv, StreamInv
        <5> QED
          BY <2>2, <5>1, AppliedFills DEF OneBrokerOrder
      <4>2. u \in PublishedFills /\ f # u
        BY <2>0, <2>1, <2>3, <2>6 DEF LedgerInv, StreamInv, PublishedFills, Applied
      <4>3. f.from + f.qty =< u.from \/ u.from + u.qty =< f.from
        BY <4>1, <4>2 DEF BookInv, FillsDisjoint
      <4>4. /\ f.from \in Nat /\ f.qty \in Nat /\ u.from \in Nat /\ u.qty \in Nat
        BY <4>1, <4>2, FillParts DEF PublishedFills
      <4> QED
        BY <4>3, <4>4 DEF Span
    <3>4. /\ IsFiniteSet(Units(u.order)) /\ IsFiniteSet(Span(u))
          /\ Cardinality(Span(u)) = u.qty /\ u.qty \in Nat
      BY <2>3, <2>6, UnitsFinite, SpanSize, FillParts
    <3>5. Cardinality(Units(u.order) \cup Span(u)) = Cardinality(Units(u.order)) + Cardinality(Span(u))
      BY <3>3, <3>4, DisjointUnion
    <3> QED
      BY <3>2, <3>4, <3>5
  <2>7. \A o : Cardinality(Units(o)') \in Nat /\ Cardinality(Units(o)') >= Cardinality(Units(o))
    <3> SUFFICES ASSUME NEW o
                 PROVE  /\ Cardinality(Units(o)') \in Nat
                        /\ Cardinality(Units(o)') >= Cardinality(Units(o))
      OBVIOUS
    <3>1. u.type = "fill" => u.qty \in Nat
      BY <2>3, FillParts
    <3>2. CASE o # u.order \/ u.type # "fill"
      <4>1. Units(o)' = Units(o)
        BY <2>5, <3>2
      <4> QED
        BY <1>0, <4>1
    <3>3. CASE o = u.order /\ u.type = "fill"
      <4> DEFINE n == Cardinality(Units(u.order))
      <4>1. Cardinality(Units(o)') = n + u.qty /\ Cardinality(Units(o)) = n
        BY <2>6, <3>3
      <4>2. n \in Nat
        BY <1>0
      <4> HIDE DEF n
      <4> QED
        BY <3>1, <3>3, <4>1, <4>2
    <3> QED
      BY <3>2, <3>3
  <2>8. ASSUME crashes = 0, NEW o \in Orders PROVE Claims(o, lifecycle[o].filled)'
    <3>1. CASE o = u.order
      <4>1. UpdateClaims /\ lifecycle'[o] = stream.next
        BY <2>1, <2>8, <3>1 DEF CoverInv, TypeOK
      <4>2. CASE u.type = "fill"
        <5>1. stream.next.filled =< Cardinality(Units(u.order)) + u.qty
          BY <2>0, <4>1, <4>2 DEF UpdateClaims
        <5> QED
          BY <2>6, <3>1, <4>1, <4>2, <5>1 DEF Claims
      <4>3. CASE u.type # "fill"
        BY <2>0, <2>5, <3>1, <4>1, <4>3 DEF UpdateClaims, Claims
      <4> QED
        BY <4>2, <4>3
    <3>2. CASE o # u.order
      <4>1. lifecycle'[o] = lifecycle[o]
        BY <2>1, <3>2 DEF TypeOK
      <4> QED
        BY <2>5, <2>8, <3>2, <4>1 DEF CoverInv, Claims
    <3> QED
      BY <3>1, <3>2
  <2>9. ASSUME crashes = 0, canceler.pc # "idle"
        PROVE  Claims(canceler.order, canceler.loaded.filled)'
    <3>1. canceler.loaded.filled =< Cardinality(Units(canceler.order))
      BY <2>9 DEF CoverInv, Claims
    <3>2. canceler.loaded.filled \in Int
      BY <2>9, CancelerType, QuantityAssumption DEF TypeOK, Lifecycles
    <3> QED
      BY <1>0, <2>1, <2>7, <3>1, <3>2 DEF Claims
  <2> QED
    BY <2>1, <2>8, <2>9 DEF CoverInv
<1>4. ASSUME SavePositions \/ AppendProcessed PROVE CoverInv'
  <2>1. /\ stream'.pc # "save"
        /\ UNCHANGED <<crashes, positionsTorn, lifecycle, canceler>>
    BY <1>4 DEF SavePositions, AppendProcessed, Idle, faultVars, TypeOK, StreamStates
  <2>2. \A o : Applied(o)' = Applied(o)
    BY <1>4 DEF SavePositions, AppendProcessed, Applied, Idle, TypeOK, StreamStates
  <2>3. \A o : Units(o)' = Units(o)
    BY <2>2 DEF Units
  <2> QED
    BY <2>1, <2>3 DEF CoverInv, Claims
<1>5. ASSUME RefusePositions PROVE CoverInv'
  BY <1>5 DEF RefusePositions, CoverInv, faultVars, storeVars
<1> QED
  BY <1>1, <1>2, <1>3, <1>4, <1>5 DEF UpdateHandling

LEMMA CancellationCover ==
  ASSUME TypeOK, CoverInv, Cancellation
  PROVE  CoverInv'
<1>1. UNCHANGED <<crashes, positionsTorn, processed, stream>>
  BY DEF Cancellation, RequestCancel, CancelAccepted, CancelFailed, SavePendingCancel,
     storeVars, faultVars
<1>2. \A o : Units(o)' = Units(o)
  BY <1>1 DEF Units, Applied
<1>3. CASE \E o \in Orders : RequestCancel(o)
  <2>1. PICK o \in Orders : RequestCancel(o)
    BY <1>3
  <2>2. UNCHANGED lifecycle /\ canceler'.order = o /\ canceler'.loaded = lifecycle[o]
    BY <2>1 DEF RequestCancel, storeVars
  <2> QED
    BY <1>1, <1>2, <2>2 DEF CoverInv, Claims, UpdateClaims
<1>4. CASE CancelAccepted
  <2>1. /\ UNCHANGED lifecycle /\ canceler.pc # "idle"
        /\ canceler'.order = canceler.order /\ canceler'.loaded = canceler.loaded
    BY <1>4 DEF CancelAccepted, storeVars, TypeOK, CancelerStates, Idle
  <2> QED
    BY <1>1, <1>2, <2>1 DEF CoverInv, Claims, UpdateClaims
<1>5. CASE CancelFailed
  <2>1. UNCHANGED lifecycle /\ canceler'.pc = "idle"
    BY <1>5 DEF CancelFailed, storeVars, Idle
  <2> QED
    BY <1>1, <1>2, <2>1 DEF CoverInv, Claims, UpdateClaims
<1>6. CASE SavePendingCancel
  <2> DEFINE o == canceler.order
  <2>1. /\ canceler.pc # "idle" /\ canceler'.pc = "idle"
        /\ o \in Orders /\ canceler.loaded \in Lifecycles
        /\ lifecycle' = [lifecycle EXCEPT ![o] = MarkPendingCancel(canceler.loaded)]
    BY <1>6, CancelerType DEF SavePendingCancel, Idle, TypeOK
  <2>2. MarkPendingCancel(canceler.loaded).filled = canceler.loaded.filled
    BY <2>1 DEF MarkPendingCancel, Lifecycles
  <2>3. ASSUME NEW p \in Orders
        PROVE  lifecycle'[p].filled = IF p = o THEN canceler.loaded.filled ELSE lifecycle[p].filled
    BY <2>1, <2>2 DEF TypeOK
  <2> QED
    BY <1>1, <1>2, <2>1, <2>3 DEF CoverInv, Claims, UpdateClaims
<1> QED
  BY <1>3, <1>4, <1>5, <1>6 DEF Cancellation

LEMMA CoverStep ==
  ASSUME TypeOK, LedgerInv, BookInv, CoverInv, [Next]_vars
  PROVE  CoverInv'
<1>1. CASE Broker
  <2>1. UNCHANGED <<crashes, positionsTorn, lifecycle, processed, stream, canceler>>
    BY <1>1 DEF Broker, BrokerAcknowledges, BrokerCancels, BrokerRejects, BrokerFills,
       BrokerOnly, storeVars, faultVars
  <2> QED
    BY <2>1, CoverFrame
<1>2. CASE Crash \/ CrashInSavePositions
  BY <1>2 DEF Crash, CrashInSavePositions, Restart, TypeOK, CoverInv
<1>3. CASE UNCHANGED vars
  BY <1>3, CoverFrame DEF vars, storeVars, faultVars
<1> QED
  BY <1>1, <1>2, <1>3, SubmissionCover, UpdateCover, CancellationCover DEF Next

LEMMA CoverInvariant == Spec => [](BookInv /\ CoverInv)
<1>1. TypeOK /\ LedgerInv /\ BookInv /\ CoverInv /\ [Next]_vars => (BookInv /\ CoverInv)'
  BY BookStep, CoverStep
<1> QED
  BY <1>1, BookInit, CoverInit, TypeCorrect, LedgerInvariant, PTL DEF Spec

\* As long as the process does not crash, no persisted lifecycle claims a fill
\* the broker has not executed on the recorded order, whatever overlaps: a cancel
\* or a second submission may lower what was persisted, and nothing counts a fill
\* twice.
THEOREM LifecyclesCovered == Spec => []LifecycleNotAheadOfBroker
<1>1. ASSUME TypeOK, LedgerInv, BookInv, CoverInv PROVE LifecycleNotAheadOfBroker
  <2> SUFFICES ASSUME crashes = 0, NEW o \in Orders, lifecycle[o].filled > 0
               PROVE  /\ activity[o] # 0
                      /\ lifecycle[o].filled =< broker[o][activity[o]].filled
    BY DEF LifecycleNotAheadOfBroker
  <2>1. /\ lifecycle[o].filled \in Nat /\ lifecycle[o].filled =< Cardinality(Units(o))
        /\ Cardinality(Units(o)) \in Nat /\ IsFiniteSet(Units(o))
    BY <1>1, UnitsFinite, QuantityAssumption DEF CoverInv, Claims, TypeOK, Lifecycles
  <2>2. Units(o) # {}
    BY <2>1, FS_EmptySet
  <2>3. PICK g \in Applied(o) : TRUE
    BY <2>2 DEF Units
  <2>4. g \in Fills /\ activity[o] = g.attempt
    BY <1>1, AppliedFills DEF PublishedFills
  <2>5. activity[o] \in Attempts
    BY <2>4, FillParts
  <2> DEFINE b == broker[o][activity[o]].filled
  <2>6. b \in Nat
    BY <1>1, <2>5, QuantityAssumption DEF TypeOK
  <2> HIDE DEF b
  <2>7. Units(o) \subseteq 0..(b - 1)
    <3> SUFFICES ASSUME NEW f \in Applied(o) PROVE Span(f) \subseteq 0..(b - 1)
      BY DEF Units
    <3>1. f \in PublishedFills /\ f.order = o /\ f.attempt = activity[o]
      BY <1>1, AppliedFills
    <3>2. f.from + f.qty =< b
      BY <1>1, <3>1 DEF BookInv, FillsInBook, b
    <3> QED
      BY <2>6, <3>1, <3>2, FillParts DEF PublishedFills, Span
  <2>8. /\ IsFiniteSet(0..(b - 1))
        /\ Cardinality(0..(b - 1)) = IF 0 > b - 1 THEN 0 ELSE b - 1 - 0 + 1
    BY <2>6, FS_Interval
  <2>9. Cardinality(Units(o)) =< b
    <3>1. Cardinality(0..(b - 1)) = b
      BY <2>6, <2>8
    <3> QED
      BY <2>7, <2>8, <3>1, FS_Subset
  <2> QED
    BY <2>1, <2>5, <2>6, <2>9, BoundsAssumption DEF Attempts, b
<1> QED
  BY <1>1, CoverInvariant, TypeCorrect, LedgerInvariant, PTL

-----------------------------------------------------------------------------
(* Sums.                                                                    *)

LEMMA NatSet ==
  ASSUME NEW S, 0 \in S, \A n \in Nat : n \in S => n + 1 \in S
  PROVE  \A n \in Nat : n \in S
<1> SUFFICES ASSUME NEW n \in Nat, n \notin S PROVE FALSE
  OBVIOUS
<1> DEFINE A == {i \in 0..n : i \in S}
           f == [i \in A |-> i + 1]
<1>1. IsFiniteSet(0..n)
  BY FS_Interval
<1>2. IsFiniteSet(A)
  BY <1>1, FS_Subset
<1>3. \A i \in A : i + 1 \in A
  OBVIOUS
<1>4. f \in Injection(A, A)
  BY <1>3 DEF Injection, IsInjective
<1>5. f \in Surjection(A, A)
  <2> HIDE DEF A, f
  <2> QED
    BY <1>2, <1>4, FS_Injection
<1>6. 0 \in A
  OBVIOUS
<1>7. PICK i \in A : f[i] = 0
  BY <1>5, <1>6 DEF Surjection
<1> QED
  BY <1>7

\* g gives the sum of the weights of every part of S.
SumsOf(g, weight, S) ==
  /\ g \in [SUBSET S -> Int]
  /\ g[{}] = 0
  /\ \A T \in SUBSET S : \A x \in T : g[T] = weight[x] + g[T \ {x}]

LEMMA SumsExtend ==
  ASSUME NEW S, NEW x, x \notin S, NEW weight, \A y \in S \cup {x} : weight[y] \in Int,
         NEW g, SumsOf(g, weight, S)
  PROVE  \E h : SumsOf(h, weight, S \cup {x})
<1> DEFINE U == S \cup {x}
           h == [T \in SUBSET U |-> IF x \in T THEN weight[x] + g[T \ {x}] ELSE g[T]]
<1>1. \A T \in SUBSET U : T \ {x} \in SUBSET S /\ (x \notin T => T \in SUBSET S)
  OBVIOUS
<1>2. h \in [SUBSET U -> Int]
  BY <1>1 DEF SumsOf
<1>3. h[{}] = 0
  BY DEF SumsOf
<1>4. ASSUME NEW T \in SUBSET U, NEW y \in T PROVE h[T] = weight[y] + h[T \ {y}]
  <2>1. T \ {y} \in SUBSET U
    OBVIOUS
  <2>2. CASE y = x
    <3>1. h[T] = weight[x] + g[T \ {x}] /\ h[T \ {x}] = g[T \ {x}]
      BY <2>1, <2>2
    <3> QED
      BY <2>2, <3>1
  <2>3. CASE y # x /\ x \notin T
    <3>1. h[T] = g[T] /\ h[T \ {y}] = g[T \ {y}] /\ T \in SUBSET S
      BY <2>1, <2>3
    <3> QED
      BY <3>1 DEF SumsOf
  <2>4. CASE y # x /\ x \in T
    <3>1. T \ {x} \in SUBSET S /\ y \in T \ {x} /\ (T \ {x}) \ {y} \in SUBSET S
      BY <2>4
    <3>2. g[T \ {x}] = weight[y] + g[(T \ {x}) \ {y}]
      BY <3>1 DEF SumsOf
    <3>3. h[T] = weight[x] + g[T \ {x}] /\ h[T \ {y}] = weight[x] + g[(T \ {y}) \ {x}]
      BY <2>1, <2>4
    <3>4. (T \ {y}) \ {x} = (T \ {x}) \ {y}
      OBVIOUS
    <3>5. g[T \ {x}] \in Int /\ g[(T \ {x}) \ {y}] \in Int
      BY <3>1 DEF SumsOf
    <3>6. weight[x] \in Int /\ weight[y] \in Int
      BY <3>1
    <3>7. h[T \ {y}] = weight[x] + g[(T \ {x}) \ {y}]
      BY <3>3, <3>4
    <3> DEFINE a == g[(T \ {x}) \ {y}]
    <3>8. h[T] = weight[x] + (weight[y] + a) /\ h[T \ {y}] = weight[x] + a
      BY <3>2, <3>3, <3>7
    <3>9. a \in Int
      BY <3>5
    <3> HIDE DEF h, a
    <3> QED
      BY <3>6, <3>8, <3>9
  <2> QED
    BY <2>2, <2>3, <2>4
<1> HIDE DEF h
<1> QED
  BY <1>2, <1>3, <1>4 DEF SumsOf

LEMMA OneLess ==
  ASSUME NEW s, IsFiniteSet(s), NEW n \in Nat, Cardinality(s) = n + 1, NEW x \in s
  PROVE  Cardinality(s \ {x}) = n
<1>1. Cardinality(s \ {x}) = Cardinality(s) - 1
  BY FS_RemoveElement
<1> QED
  BY <1>1

LEMMA SumsExist ==
  ASSUME NEW S, IsFiniteSet(S), NEW weight, \A x \in S : weight[x] \in Int
  PROVE  \E g : SumsOf(g, weight, S)
<1> DEFINE Sized(n) == {T \in SUBSET S : Cardinality(T) = n}
           Good == {n \in Nat : \A T \in Sized(n) : \E g : SumsOf(g, weight, T)}
<1>0. \A T \in SUBSET S : IsFiniteSet(T) /\ Cardinality(T) \in Nat
  BY FS_Subset, FS_CardinalityType
<1>1. 0 \in Good
  <2> SUFFICES ASSUME NEW T \in Sized(0) PROVE \E g : SumsOf(g, weight, T)
    OBVIOUS
  <2>1. T = {}
    BY <1>0, FS_EmptySet
  <2> DEFINE g == [U \in SUBSET {} |-> 0]
  <2>2. SumsOf(g, weight, {})
    BY DEF SumsOf
  <2> QED
    BY <2>1, <2>2
<1>2. ASSUME NEW n \in Nat, n \in Good PROVE n + 1 \in Good
  <2> SUFFICES ASSUME NEW T \in Sized(n + 1) PROVE \E g : SumsOf(g, weight, T)
    OBVIOUS
  <2>1. T # {} /\ IsFiniteSet(T) /\ Cardinality(T) = n + 1
    BY <1>0, FS_EmptySet
  <2>2. PICK x : x \in T
    BY <2>1
  <2>3. Cardinality(T \ {x}) = n
    BY <2>1, <2>2, OneLess
  <2>4. T \ {x} \in Sized(n)
    BY <2>3
  <2>5. PICK g : SumsOf(g, weight, T \ {x})
    BY <1>2, <2>4
  <2>6. \E h : SumsOf(h, weight, (T \ {x}) \cup {x})
    BY <2>2, <2>5, SumsExtend
  <2>7. (T \ {x}) \cup {x} = T
    BY <2>2
  <2> QED
    BY <2>6, <2>7
<1>3. \A n \in Nat : n \in Good
  <2> HIDE DEF Good
  <2> QED
    BY <1>1, <1>2, NatSet
<1>4. S \in Sized(Cardinality(S)) /\ Cardinality(S) \in Nat
  BY <1>0
<1> QED
  BY <1>3, <1>4

LEMMA TotalIs ==
  ASSUME NEW S, IsFiniteSet(S), NEW weight, NEW g, SumsOf(g, weight, S)
  PROVE  Total(weight, S) = g[S]
<1> DEFINE Eq(h) == h = [s \in SUBSET S |->
                           IF s = {} THEN 0
                           ELSE weight[CHOOSE x \in s : TRUE] + h[s \ {CHOOSE x \in s : TRUE}]]
<1>1. Eq(g)
  <2>1. g \in [SUBSET S -> Int]
    BY DEF SumsOf
  <2>2. ASSUME NEW s \in SUBSET S
        PROVE  g[s] = IF s = {} THEN 0
                      ELSE weight[CHOOSE x \in s : TRUE] + g[s \ {CHOOSE x \in s : TRUE}]
    <3>1. CASE s = {}
      BY <3>1 DEF SumsOf
    <3>2. CASE s # {}
      <4>1. (CHOOSE x \in s : TRUE) \in s
        BY <3>2
      <4> QED
        BY <3>2, <4>1 DEF SumsOf
    <3> QED
      BY <3>1, <3>2
  <2> QED
    BY <2>1, <2>2
<1>2. Total(weight, S) = (CHOOSE h : Eq(h))[S]
  BY DEF Total, MapThenSumSet, MapThenFoldSet
<1>3. PICK h : h = (CHOOSE k : Eq(k)) /\ Eq(h)
  <2> HIDE DEF Eq
  <2> QED
    BY <1>1, Zenon
<1> DEFINE Good == {n \in Nat : \A s \in SUBSET S : Cardinality(s) = n => h[s] = g[s]}
<1>0. \A T \in SUBSET S : IsFiniteSet(T) /\ Cardinality(T) \in Nat
  BY FS_Subset, FS_CardinalityType
<1>4. 0 \in Good
  <2> SUFFICES ASSUME NEW s \in SUBSET S, Cardinality(s) = 0 PROVE h[s] = g[s]
    OBVIOUS
  <2>1. s = {}
    BY <1>0, FS_EmptySet
  <2> QED
    BY <1>3, <2>1 DEF SumsOf
<1>5. ASSUME NEW n \in Nat, n \in Good PROVE n + 1 \in Good
  <2> SUFFICES ASSUME NEW s \in SUBSET S, Cardinality(s) = n + 1 PROVE h[s] = g[s]
    OBVIOUS
  <2>1. s # {} /\ IsFiniteSet(s)
    BY <1>0, FS_EmptySet
  <2>2. PICK x : x = (CHOOSE y \in s : TRUE) /\ x \in s
    BY <2>1
  <2>3. h[s] = weight[x] + h[s \ {x}]
    BY <1>3, <2>1, <2>2
  <2>4. g[s] = weight[x] + g[s \ {x}]
    BY <2>2 DEF SumsOf
  <2>5. Cardinality(s \ {x}) = n /\ s \ {x} \in SUBSET S
    BY <2>1, <2>2, OneLess
  <2>6. h[s \ {x}] = g[s \ {x}]
    BY <1>5, <2>5
  <2> QED
    BY <2>3, <2>4, <2>6
<1>6. \A n \in Nat : n \in Good
  <2> HIDE DEF Good
  <2> QED
    BY <1>4, <1>5, NatSet
<1>7. h[S] = g[S]
  BY <1>0, <1>6
<1> HIDE DEF Eq
<1> QED
  BY <1>2, <1>3, <1>7

LEMMA TotalInt ==
  ASSUME NEW S, IsFiniteSet(S), NEW weight, \A y \in S : weight[y] \in Int
  PROVE  Total(weight, S) \in Int
<1>1. PICK g : SumsOf(g, weight, S)
  BY SumsExist
<1>2. Total(weight, S) = g[S]
  BY <1>1, TotalIs
<1>3. g[S] \in Int
  BY <1>1 DEF SumsOf
<1> QED
  BY <1>2, <1>3

\* The sum over a set does not depend on the order in which it is taken.
LEMMA TotalAdds ==
  ASSUME NEW S, IsFiniteSet(S), NEW x, x \notin S,
         NEW weight, \A y \in S \cup {x} : weight[y] \in Int
  PROVE  /\ Total(weight, S) \in Int
         /\ Total(weight, S \cup {x}) = Total(weight, S) + weight[x]
<1> DEFINE U == S \cup {x}
<1>1. IsFiniteSet(U)
  BY FS_AddElement
<1>2. PICK g : SumsOf(g, weight, U)
  BY <1>1, SumsExist
<1>3. Total(weight, U) = g[U]
  BY <1>1, <1>2, TotalIs
<1> DEFINE h == [T \in SUBSET S |-> g[T]]
<1>4. SumsOf(h, weight, S)
  <2>1. \A T \in SUBSET S : T \in SUBSET U /\ h[T] = g[T] /\ \A y \in T : T \ {y} \in SUBSET S
    OBVIOUS
  <2>2. h \in [SUBSET S -> Int] /\ {} \in SUBSET S
    BY <1>2, <2>1 DEF SumsOf
  <2> HIDE DEF h
  <2> QED
    BY <1>2, <2>1, <2>2 DEF SumsOf
<1>5. Total(weight, S) = g[S]
  <2>1. Total(weight, S) = h[S]
    BY <1>4, TotalIs
  <2> QED
    BY <2>1
<1>6. x \in U /\ U \ {x} = S /\ S \in SUBSET U /\ U \in SUBSET U
  OBVIOUS
<1>7. g[U] = weight[x] + g[S]
  BY <1>2, <1>6 DEF SumsOf
<1>8. g[S] \in Int /\ weight[x] \in Int
  BY <1>2 DEF SumsOf
<1> HIDE DEF U
<1> QED
  BY <1>3, <1>5, <1>7, <1>8 DEF U

LEMMA TotalEmpty ==
  ASSUME NEW weight PROVE Total(weight, {}) = 0
<1> DEFINE g == [U \in SUBSET {} |-> 0]
<1>1. SumsOf(g, weight, {}) /\ g[{}] = 0
  BY DEF SumsOf
<1> HIDE DEF g
<1> QED
  BY <1>1, TotalIs, FS_EmptySet

-----------------------------------------------------------------------------
(* The books.                                                               *)

\* What Book chooses exists and goes on fill by fill.
LEMMA BookSteps ==
  ASSUME NEW fills, Len(fills) \in Nat, NEW signed, NEW price
  PROVE  LET book == Book(fills, signed, price)
         IN /\ book[0] = Flat
            /\ \A k \in 1..Len(fills) :
                 book[k] = ApplyFill(book[k - 1], signed[fills[k]], price[fills[k]])
<1> DEFINE N == Len(fills)
           Next1(h, k) == IF k = 0 THEN Flat
                          ELSE ApplyFill(h[k - 1], signed[fills[k]], price[fills[k]])
           Eq(h, m) == h = [k \in 0..m |-> Next1(h, k)]
           Good == {m \in Nat : \E h : Eq(h, m)}
<1>1. 0 \in Good
  <2> DEFINE h == [k \in 0..0 |-> Flat]
  <2>1. Eq(h, 0)
    OBVIOUS
  <2> QED
    BY <2>1
<1>2. ASSUME NEW m \in Nat, m \in Good PROVE m + 1 \in Good
  <2>1. PICK g : Eq(g, m)
    BY <1>2
  <2> DEFINE h == [k \in 0..(m + 1) |-> IF k = m + 1 THEN Next1(g, k) ELSE g[k]]
  <2>2. ASSUME NEW k \in 0..(m + 1) PROVE h[k] = Next1(h, k)
    <3>1. CASE k = 0
      <4>1. h[k] = g[k] /\ g[k] = Flat
        BY <2>1, <3>1
      <4> QED
        BY <3>1, <4>1
    <3>2. CASE k # 0
      <4>1. k - 1 \in 0..m /\ k - 1 # m + 1 /\ k - 1 \in 0..(m + 1)
        BY <3>2
      <4>2. h[k - 1] = g[k - 1]
        BY <4>1
      <4>3. h[k] = Next1(g, k)
        <5>1. CASE k = m + 1
          BY <5>1
        <5>2. CASE k # m + 1
          <6>1. k \in 0..m
            BY <5>2
          <6>2. g[k] = Next1(g, k)
            BY <2>1, <6>1
          <6> QED
            BY <5>2, <6>2
        <5> QED
          BY <5>1, <5>2
      <4> HIDE DEF h
      <4> QED
        BY <3>2, <4>2, <4>3
    <3> QED
      BY <3>1, <3>2
  <2>3. Eq(h, m + 1)
    <3>1. h = [k \in 0..(m + 1) |-> h[k]]
      OBVIOUS
    <3> HIDE DEF h, Next1
    <3> QED
      BY <2>2, <3>1
  <2> HIDE DEF Eq, h
  <2> QED
    BY <2>3
<1>3. \A m \in Nat : m \in Good
  <2> HIDE DEF Good
  <2> QED
    BY <1>1, <1>2, NatSet
<1>4. \E h : Eq(h, N)
  BY <1>3
<1>5. Book(fills, signed, price) = (CHOOSE h : Eq(h, N))
  BY DEF Book
<1>6. Eq(Book(fills, signed, price), N)
  <2> HIDE DEF Eq
  <2> QED
    BY <1>4, <1>5, Zenon
<1> DEFINE b == Book(fills, signed, price)
<1>7. \A k \in 0..N : b[k] = Next1(b, k)
  <2> HIDE DEF b, Next1
  <2> QED
    BY <1>6 DEF b
<1>8. 0 \in 0..N /\ \A k \in 1..N : k \in 0..N /\ k # 0
  OBVIOUS
<1>9. b[0] = Next1(b, 0) /\ \A k \in 1..N : b[k] = Next1(b, k)
  <2> HIDE DEF b, Next1, N
  <2> QED
    BY <1>7, <1>8
<1> HIDE DEF b
<1> QED
  BY <1>8, <1>9 DEF b

LEMMA SeqsOf ==
  ASSUME NEW S, IsFiniteSet(S), NEW fills \in SetToSeqs(S)
  PROVE  /\ Len(fills) \in Nat
         /\ \A k \in 1..Len(fills) : fills[k] \in S
         /\ \A i, j \in 1..Len(fills) : fills[i] = fills[j] => i = j
         /\ {fills[k] : k \in 1..Len(fills)} = S
<1> DEFINE n == Cardinality(S)
<1>1. n \in Nat
  BY FS_CardinalityType
<1>2. /\ fills \in [1..n -> S]
      /\ \A i, j \in 1..n : i # j => fills[i] # fills[j]
  BY DEF SetToSeqs
<1> HIDE DEF n
<1>3. fills \in Seq(S)
  BY <1>1, <1>2, SeqDef
<1>4. Len(fills) \in Nat /\ DOMAIN fills = 1..Len(fills)
  BY <1>3, LenProperties
<1>5. 1..Len(fills) = 1..n
  BY <1>2, <1>4
<1>6. Len(fills) = n
  <2> DEFINE m == Len(fills)
  <2>1. m \in Nat /\ \A x : x \in 1..m <=> x \in 1..n
    BY <1>4, <1>5
  <2> HIDE DEF m
  <2>2. m # 0 => m =< n
    BY <1>1, <2>1
  <2>3. n # 0 => n =< m
    BY <1>1, <2>1
  <2>4. m = n
    BY <1>1, <2>1, <2>2, <2>3
  <2> QED
    BY <2>4 DEF m
<1>7. fills \in Injection(1..n, S)
  BY <1>2 DEF Injection, IsInjective
<1>8. IsFiniteSet(1..n) /\ Cardinality(1..n) = n
  BY <1>1, FS_Interval
<1>9. fills \in Surjection(1..n, S)
  BY <1>7, <1>8, FS_Injection DEF n
<1>10. {fills[k] : k \in 1..n} = S
  BY <1>2, <1>9 DEF Surjection
<1> QED
  BY <1>2, <1>4, <1>6, <1>10

\* A sequence of fills makes the position that is their sum, and accounts for
\* the money of each.
LEMMA FillsAddUp ==
  ASSUME NEW S, IsFiniteSet(S), NEW fills \in SetToSeqs(S),
         NEW signed, \A f \in S : signed[f] \in Int \ {0},
         NEW price, \A f \in S : price[f] \in Nat
  PROVE  LET book == Book(fills, signed, price)
         IN /\ book[Len(fills)].quantity = Total(signed, S)
            /\ \A k \in 1..Len(fills) :
                 Accounted(book[k - 1], signed[fills[k]], price[fills[k]])
<1> DEFINE N == Len(fills)
           book == Book(fills, signed, price)
           First(k) == {fills[j] : j \in 1..k}
           Good == {k \in Nat : k =< N => /\ book[k] \in Positions
                                         /\ book[k].quantity = Total(signed, First(k))
                                         /\ IsFiniteSet(First(k))}
<1>1. /\ N \in Nat
      /\ \A k \in 1..N : fills[k] \in S
      /\ \A i, j \in 1..N : fills[i] = fills[j] => i = j
      /\ First(N) = S
  BY SeqsOf
<1>2. /\ book[0] = Flat
      /\ \A k \in 1..N : book[k] = ApplyFill(book[k - 1], signed[fills[k]], price[fills[k]])
  BY <1>1, BookSteps
<1> HIDE DEF N, book
<1>3. 0 \in Good
  <2>1. First(0) = {}
    OBVIOUS
  <2>2. Flat \in Positions /\ Flat.quantity = 0
    BY DEF Flat, Positions, Averages
  <2> HIDE DEF First
  <2> QED
    BY <1>2, <2>1, <2>2, TotalEmpty, FS_EmptySet
<1>4. ASSUME NEW k \in Nat, k \in Good PROVE k + 1 \in Good
  <2> SUFFICES ASSUME k + 1 =< N
               PROVE  /\ book[k + 1] \in Positions
                      /\ book[k + 1].quantity = Total(signed, First(k + 1))
                      /\ IsFiniteSet(First(k + 1))
    OBVIOUS
  <2> DEFINE f == fills[k + 1]
  <2>1. k + 1 \in 1..N /\ k =< N /\ k + 1 - 1 = k
    BY <1>1
  <2>2. f \in S /\ signed[f] \in Int \ {0} /\ price[f] \in Nat
    BY <1>1, <2>1
  <2>3. book[k + 1] = ApplyFill(book[k], signed[f], price[f])
    BY <1>2, <2>1
  <2>4. /\ book[k] \in Positions /\ book[k].quantity = Total(signed, First(k))
        /\ IsFiniteSet(First(k))
    BY <1>4, <2>1
  <2>5. First(k + 1) = First(k) \cup {f}
    <3>1. 1..(k + 1) = 1..k \cup {k + 1}
      OBVIOUS
    <3> QED
      BY <3>1
  <2>6. f \notin First(k)
    <3> SUFFICES ASSUME NEW j \in 1..k, fills[j] = f PROVE FALSE
      OBVIOUS
    <3>1. j \in 1..N /\ j # k + 1
      BY <1>1, <2>1
    <3> QED
      BY <1>1, <2>1, <3>1
  <2>7. \A y \in First(k) \cup {f} : signed[y] \in Int
    <3>1. \A j \in 1..k : j \in 1..N
      BY <1>1, <2>1
    <3> QED
      BY <1>1, <2>2, <3>1
  <2>8. /\ Total(signed, First(k) \cup {f}) = Total(signed, First(k)) + signed[f]
        /\ IsFiniteSet(First(k) \cup {f})
    <3> HIDE DEF f, First
    <3> QED
      BY <2>4, <2>6, <2>7, TotalAdds, FS_AddElement
  <2>9. /\ book[k + 1] \in Positions
        /\ book[k + 1].quantity = book[k].quantity + signed[f]
    BY <2>2, <2>3, <2>4, FillsAccounted DEF ApplyFill
  <2> HIDE DEF f, First
  <2> QED
    BY <2>4, <2>5, <2>8, <2>9
<1>5. \A k \in Nat : k \in Good
  <2> HIDE DEF Good
  <2> QED
    BY <1>3, <1>4, NatSet
<1>6. book[N].quantity = Total(signed, S)
  <2>1. N \in Good
    BY <1>1, <1>5
  <2>2. book[N].quantity = Total(signed, First(N))
    BY <1>1, <2>1
  <2> HIDE DEF First
  <2> QED
    BY <1>1, <2>2
<1>7. ASSUME NEW k \in 1..N PROVE Accounted(book[k - 1], signed[fills[k]], price[fills[k]])
  <2>1. k - 1 \in Nat /\ k - 1 =< N /\ fills[k] \in S
    BY <1>1
  <2>2. k - 1 \in Good
    BY <1>5, <2>1
  <2>3. book[k - 1] \in Positions
    BY <2>1, <2>2
  <2> QED
    BY <2>1, <2>3, FillsAccounted
<1> QED
  BY <1>6, <1>7 DEF N, book

\* Only so many updates have been published, so only so many fills are booked.
LEMMA PublishedFinite == Spec => []IsFiniteSet(published)
<1>1. Init => IsFiniteSet(published)
  BY FS_EmptySet DEF Init
<1>2. IsFiniteSet(published) /\ [Next]_vars => IsFiniteSet(published)'
  <2> SUFFICES ASSUME IsFiniteSet(published), [Next]_vars PROVE IsFiniteSet(published)'
    OBVIOUS
  <2>1. published' = published \/ \E u : published' = published \cup {u}
    <3>1. CASE Broker
      BY <3>1 DEF Broker, BrokerAcknowledges, BrokerCancels, BrokerRejects, BrokerFills, Publish
    <3>2. CASE Submission \/ UpdateHandling
      BY <3>2 DEF Submission, RiskReject, RiskApprove, HandoffAccepted, HandoffRefused,
         HandoffReplyLost, HandoffTimeout, SaveWorking, RecordSubmission,
         UpdateHandling, ApplyUpdate, RefuseUpdate, SaveLifecycle, SavePositions,
         RefusePositions, AppendProcessed, brokerVars
    <3>3. CASE Cancellation \/ Crash \/ CrashInSavePositions \/ UNCHANGED vars
      BY <3>3 DEF Cancellation, RequestCancel, CancelAccepted, CancelFailed,
         SavePendingCancel, Crash, CrashInSavePositions, Restart, vars, brokerVars
    <3> QED
      BY <3>1, <3>2, <3>3 DEF Next
  <2>2. \A u : IsFiniteSet(published \cup {u})
    BY FS_AddElement
  <2> QED
    BY <2>1, <2>2
<1> QED
  BY <1>1, <1>2, PTL DEF Spec

\* In whatever order the booked fills are applied, on whatever sides and at
\* whatever prices: the position is the sum of them, and each of them accounts
\* for its money.
THEOREM BooksBalanced == Spec => []BooksBalance
<1>1. ASSUME TypeOK, LedgerInv, IsFiniteSet(published) PROVE BooksBalance
  <2>1. IsFiniteSet(BookedFills)
    <3>1. BookedFills \subseteq published
      BY <1>1 DEF LedgerInv, FillInv, BookedFills
    <3> QED
      BY <1>1, <3>1, FS_Subset
  <2> SUFFICES ASSUME NEW fills \in SetToSeqs(BookedFills), NEW side \in [Orders -> {-1, 1}],
                      NEW price \in [BookedFills -> Prices]
               PROVE  LET signed == [f \in BookedFills |-> side[f.order] * f.qty]
                          book == Book(fills, signed, price)
                      IN /\ book[Len(fills)].quantity = Total(signed, BookedFills)
                         /\ \A k \in 1..Len(fills) :
                              Accounted(book[k - 1], signed[fills[k]], price[fills[k]])
    BY DEF BooksBalance
  <2> DEFINE signed == [f \in BookedFills |-> side[f.order] * f.qty]
  <2>2. \A f \in BookedFills : signed[f] \in Int \ {0} /\ price[f] \in Nat
    <3> SUFFICES ASSUME NEW f \in BookedFills
                 PROVE  side[f.order] * f.qty \in Int \ {0} /\ price[f] \in Nat
      OBVIOUS
    <3>1. f.qty \in Nat \ {0} /\ f.order \in Orders
      BY FillParts DEF BookedFills
    <3>2. side[f.order] = 1 \/ side[f.order] = -1
      BY <3>1
    <3>3. 1 * f.qty \in Int \ {0} /\ (-1) * f.qty \in Int \ {0}
      BY <3>1
    <3>4. side[f.order] * f.qty \in Int \ {0}
      BY <3>2, <3>3
    <3>5. price[f] \in Nat
      BY PricesAssumption
    <3> QED
      BY <3>4, <3>5
  <2> HIDE DEF signed
  <2>3. LET book == Book(fills, signed, price)
        IN /\ book[Len(fills)].quantity = Total(signed, BookedFills)
           /\ \A k \in 1..Len(fills) :
                Accounted(book[k - 1], signed[fills[k]], price[fills[k]])
    BY <2>1, <2>2, FillsAddUp
  <2> QED
    BY <2>3 DEF signed
<1> QED
  BY <1>1, TypeCorrect, LedgerInvariant, PublishedFinite, PTL

-----------------------------------------------------------------------------
(* The serial platform: one handler at a time, no crash, and no client      *)
(* order ID submitted twice.  What is persisted of an order is what the     *)
(* ledger has processed of it, and the fill that is on its way there.       *)

Calm == crashes = 0 /\ \A o \in Orders : attempts[o] =< 1

Filled(o) == Total([f \in Fills |-> f.qty], ProcessedFills(o))

\* The fill whose lifecycle is saved and which the ledger has still to process.
Ahead(o) ==
  IF stream.pc \in {"ledger", "append"} /\ stream.update.order = o
  THEN stream.update.qty ELSE 0

SerialInv ==
  /\ ~positionsTorn
  /\ stream # Idle => trader = Idle /\ canceler = Idle
  /\ canceler # Idle => trader = Idle
  /\ trader # Idle => activity[trader.order] = 0 /\ attempts[trader.order] # 0
  /\ \A o \in Orders : activity[o] # 0 => attempts[o] # 0

MatchInv ==
  /\ \A o \in Orders : lifecycle[o].filled = Filled(o) + Ahead(o)
  /\ stream.pc = "save" =>
       stream.next.filled = Filled(stream.update.order)
         + (IF stream.update.type = "fill" THEN stream.update.qty ELSE 0)
  /\ canceler # Idle => canceler.loaded.filled = lifecycle[canceler.order].filled

Forgets == \E o \in Orders : lifecycle'[o].filled < lifecycle[o].filled

LEMMA ProcessedFinite ==
  ASSUME TypeOK, LedgerInv, IsFiniteSet(published), NEW o
  PROVE  /\ IsFiniteSet(ProcessedFills(o)) /\ ProcessedFills(o) \subseteq Fills
         /\ Filled(o) \in Int
         /\ \A u \in Fills : u.order = o /\ u \notin processed =>
              Total([f \in Fills |-> f.qty], ProcessedFills(o) \cup {u}) = Filled(o) + u.qty
<1> DEFINE qty == [f \in Fills |-> f.qty]
<1>1. ProcessedFills(o) \subseteq Fills /\ ProcessedFills(o) \subseteq published
  BY DEF ProcessedFills, TypeOK, LedgerInv, FillInv, Booked
<1>2. IsFiniteSet(ProcessedFills(o))
  BY <1>1, FS_Subset
<1>3. \A f \in Fills : qty[f] = f.qty /\ qty[f] \in Int
  BY FillParts
<1> HIDE DEF qty
<1>4. \A u \in Fills : u \notin ProcessedFills(o) =>
        /\ Total(qty, ProcessedFills(o)) \in Int
        /\ Total(qty, ProcessedFills(o) \cup {u}) = Total(qty, ProcessedFills(o)) + qty[u]
  BY <1>1, <1>2, <1>3, TotalAdds
<1>5. Total(qty, ProcessedFills(o)) \in Int
  BY <1>1, <1>2, <1>3, TotalInt
<1>6. \A u \in Fills : u \notin processed => u \notin ProcessedFills(o)
  BY DEF ProcessedFills
<1> QED
  BY <1>1, <1>2, <1>3, <1>4, <1>5, <1>6 DEF qty, Filled

LEMMA UnrecordedUnfilled ==
  ASSUME TypeOK, LedgerInv, NEW o \in Orders, activity[o] = 0
  PROVE  Filled(o) = 0
<1>1. ASSUME NEW f \in ProcessedFills(o) PROVE FALSE
  <2>1. f \in Fills /\ f.order = o /\ activity[f.order] = f.attempt
    BY DEF ProcessedFills, TypeOK, LedgerInv, FillInv, Booked
  <2> QED
    BY <2>1, FillParts, BoundsAssumption DEF Attempts
<1>2. ProcessedFills(o) = {}
  BY <1>1
<1> QED
  BY <1>2, TotalEmpty DEF Filled

LEMMA SerialInit == Init => SerialInv /\ MatchInv
<1> SUFFICES ASSUME Init PROVE SerialInv /\ MatchInv
  OBVIOUS
<1>1. \A o \in Orders : Filled(o) = 0
  <2>1. \A o \in Orders : ProcessedFills(o) = {}
    BY DEF Init, ProcessedFills
  <2> QED
    BY <2>1, TotalEmpty DEF Filled
<1> QED
  BY <1>1 DEF Init, SerialInv, MatchInv, Idle, Ahead, Unknown

LEMMA SerialControl ==
  ASSUME TypeOK, SerialInv, Overlap = FALSE, crashes' = 0, [Next]_vars
  PROVE  SerialInv'
<1> USE DEF SerialInv
<1>0. crashes \in Nat
  BY DEF TypeOK
<1>1. ASSUME NEW o \in Orders, RiskReject(o) \/ RiskApprove(o) PROVE SerialInv'
  <2>1. /\ trader = Idle /\ stream = Idle /\ canceler = Idle
        /\ UNCHANGED <<activity, stream, canceler, positionsTorn>>
        /\ trader' # Idle => trader'.order = o /\ activity[o] = 0
        /\ attempts' = [attempts EXCEPT ![o] = @ + 1]
    BY <1>1 DEF RiskReject, RiskApprove, MayStart, storeVars
  <2>2. attempts'[o] # 0 /\ \A p \in Orders : attempts[p] # 0 => attempts'[p] # 0
    BY <2>1, BoundsAssumption DEF TypeOK
  <2> QED
    BY <2>1, <2>2
<1>2. CASE HandoffAccepted \/ HandoffRefused \/ HandoffReplyLost \/ HandoffTimeout
           \/ SaveWorking
  <2>1. /\ trader # Idle
        /\ trader' = Idle \/ trader' = [trader EXCEPT !.pc = "save"]
                          \/ trader' = [trader EXCEPT !.pc = "record"]
        /\ UNCHANGED <<activity, stream, canceler, positionsTorn, attempts>>
    BY <1>2 DEF HandoffAccepted, HandoffRefused, HandoffReplyLost, HandoffTimeout,
       SaveWorking, storeVars, Idle
  <2>2. trader' # Idle => trader'.order = trader.order
    BY <2>1 DEF TypeOK, TraderStates
  <2> QED
    BY <2>1, <2>2
<1>3. CASE RecordSubmission
  <2>1. /\ trader # Idle /\ trader' = Idle
        /\ activity' = [activity EXCEPT ![trader.order] = trader.attempt]
        /\ UNCHANGED <<stream, canceler, positionsTorn, attempts>>
    BY <1>3 DEF RecordSubmission, Idle
  <2> QED
    BY <2>1 DEF TypeOK
<1>4. CASE UpdateHandling
  <2>1. /\ UNCHANGED <<trader, canceler, activity, attempts>>
        /\ stream' # Idle => stream # Idle \/ (trader = Idle /\ canceler = Idle)
        /\ ~positionsTorn'
    BY <1>4 DEF UpdateHandling, ApplyUpdate, RefuseUpdate, SaveLifecycle,
       SavePositions, RefusePositions, AppendProcessed, storeVars, MayStart, Idle
  <2> QED
    BY <2>1
<1>5. CASE Cancellation
  <2>1. /\ UNCHANGED <<trader, stream, activity, attempts, positionsTorn>>
        /\ canceler' # Idle => canceler # Idle \/ (trader = Idle /\ stream = Idle)
    BY <1>5 DEF Cancellation, RequestCancel, CancelAccepted, CancelFailed,
       SavePendingCancel, storeVars, MayStart, Idle
  <2> QED
    BY <2>1
<1>6. CASE Broker
  <2>1. UNCHANGED <<trader, stream, canceler, activity, attempts, positionsTorn>>
    BY <1>6 DEF Broker, BrokerAcknowledges, BrokerCancels, BrokerRejects, BrokerFills,
       BrokerOnly, storeVars
  <2> QED
    BY <2>1
<1>7. CASE Crash \/ CrashInSavePositions
  BY <1>0, <1>7 DEF Crash, CrashInSavePositions, Restart
<1>8. CASE UNCHANGED vars
  BY <1>8 DEF vars, storeVars
<1> QED
  BY <1>1, <1>2, <1>3, <1>4, <1>5, <1>6, <1>7, <1>8 DEF Next, Submission

\* A step that keeps what is filled, processed and under way.
LEMMA MatchFrame ==
  ASSUME TypeOK, MatchInv, UNCHANGED <<processed, stream>>,
         \A o \in Orders : lifecycle'[o].filled = lifecycle[o].filled,
         canceler' # Idle =>
           /\ canceler'.order \in Orders
           /\ canceler'.loaded.filled = lifecycle[canceler'.order].filled
  PROVE  MatchInv' /\ ~Forgets
<1>1. \A o : Filled(o)' = Filled(o) /\ Ahead(o)' = Ahead(o)
  BY DEF Filled, ProcessedFills, Ahead
<1>2. \A o \in Orders : lifecycle[o].filled \in Int
  BY QuantityAssumption DEF TypeOK, Lifecycles
<1>3. ASSUME NEW o \in Orders PROVE (lifecycle[o].filled = Filled(o) + Ahead(o))'
  BY <1>1 DEF MatchInv
<1>4. (stream.pc = "save" =>
         stream.next.filled = Filled(stream.update.order)
           + (IF stream.update.type = "fill" THEN stream.update.qty ELSE 0))'
  BY <1>1 DEF MatchInv
<1>5. (canceler # Idle => canceler.loaded.filled = lifecycle[canceler.order].filled)'
  BY DEF MatchInv
<1>6. ~Forgets
  BY <1>2 DEF Forgets
<1> QED
  BY <1>3, <1>4, <1>5, <1>6 DEF MatchInv

LEMMA CancelerOrder ==
  ASSUME TypeOK, canceler # Idle
  PROVE  canceler.pc # "idle" /\ canceler.order \in Orders /\ canceler.loaded \in Lifecycles
<1>1. canceler.pc # "idle"
  BY DEF TypeOK, CancelerStates
<1> QED
  BY <1>1, CancelerType DEF TypeOK

LEMMA MatchSubmission ==
  ASSUME TypeOK, LedgerInv, SerialInv, MatchInv, Overlap = FALSE, Calm', Submission
  PROVE  MatchInv' /\ ~Forgets
<1>1. UNCHANGED <<processed, stream, canceler>>
  BY DEF Submission, RiskReject, RiskApprove, HandoffAccepted, HandoffRefused,
     HandoffReplyLost, HandoffTimeout, SaveWorking, RecordSubmission, storeVars
<1>2. ASSUME NEW o \in Orders, NEW lc, lc.filled = 0, activity[o] = 0, stream = Idle,
             lifecycle' = [lifecycle EXCEPT ![o] = lc]
      PROVE  \A p \in Orders : lifecycle'[p].filled = lifecycle[p].filled
  <2>1. Filled(o) = 0 /\ Ahead(o) = 0
    BY <1>2, UnrecordedUnfilled DEF Ahead, Idle
  <2>2. lifecycle[o].filled = 0
    BY <2>1 DEF MatchInv
  <2> QED
    BY <1>2, <2>2 DEF TypeOK
<1>3. MarkRejected(PendingSubmit).filled = 0 /\ MarkWorking(PendingSubmit).filled = 0
  BY DEF MarkRejected, MarkWorking, PendingSubmit
<1>4. \A p \in Orders : lifecycle'[p].filled = lifecycle[p].filled
  <2>1. ASSUME NEW o \in Orders, RiskReject(o)
        PROVE  \A p \in Orders : lifecycle'[p].filled = lifecycle[p].filled
    <3>1. attempts'[o] = attempts[o] + 1 /\ attempts[o] \in Nat
      BY <2>1, BoundsAssumption DEF RiskReject, TypeOK
    <3>2. attempts'[o] =< 1
      BY DEF Calm
    <3>3. activity[o] = 0
      BY <3>1, <3>2 DEF SerialInv
    <3>4. stream = Idle
      BY <2>1 DEF RiskReject, MayStart
    <3> QED
      BY <1>2, <1>3, <2>1, <3>3, <3>4 DEF RiskReject
  <2>2. CASE HandoffRefused \/ HandoffReplyLost \/ SaveWorking
    <3>1. trader # Idle /\ trader.order \in Orders
      BY <2>2, TraderType DEF HandoffRefused, HandoffReplyLost, SaveWorking, Idle, TypeOK
    <3>2. activity[trader.order] = 0 /\ stream = Idle
      BY <3>1 DEF SerialInv
    <3> QED
      BY <1>2, <1>3, <2>2, <3>1, <3>2 DEF HandoffRefused, HandoffReplyLost, SaveWorking
  <2>3. CASE HandoffAccepted \/ HandoffTimeout \/ RecordSubmission
             \/ \E o \in Orders : RiskApprove(o)
    BY <2>3 DEF HandoffAccepted, HandoffTimeout, RecordSubmission, RiskApprove, storeVars
  <2> QED
    BY <2>1, <2>2, <2>3 DEF Submission
<1> QED
  BY <1>1, <1>4, MatchFrame, CancelerOrder DEF MatchInv

LEMMA MatchUpdates ==
  ASSUME TypeOK, LedgerInv, IsFiniteSet(published), SerialInv, MatchInv, Overlap = FALSE,
         UpdateHandling
  PROVE  MatchInv' /\ ~Forgets
<1>0. /\ \A o \in Orders : lifecycle[o].filled \in Int
      /\ \A o : Filled(o) \in Int
  BY ProcessedFinite, QuantityAssumption DEF TypeOK, Lifecycles
<1>1. ASSUME NEW u \in Updates, ApplyUpdate(u) PROVE MatchInv' /\ ~Forgets
  <2>1. /\ stream = Idle /\ stream'.pc = "save" /\ stream'.update = u
        /\ stream'.next = After(lifecycle[u.order], u)
        /\ canceler = Idle
        /\ UNCHANGED <<processed, lifecycle, canceler>>
    BY <1>1 DEF ApplyUpdate, storeVars, MayStart
  <2>2. u.order \in Orders /\ lifecycle[u.order] \in Lifecycles
    BY DEF Updates, Fills, Notices, TypeOK
  <2>3. After(lifecycle[u.order], u).filled =
          IF u.type = "fill" THEN lifecycle[u.order].filled + u.qty
                             ELSE lifecycle[u.order].filled
    BY <2>2 DEF After, MarkWorking, MarkCanceled, MarkRejected, RecordFill, Lifecycles,
       Updates, Fills, Notices
  <2>4. \A o : Filled(o)' = Filled(o) /\ Ahead(o)' = 0 /\ Ahead(o) = 0
    BY <2>1 DEF Filled, ProcessedFills, Ahead, Idle
  <2>5. \A o \in Orders : lifecycle[o].filled = Filled(o)
    BY <1>0, <2>4 DEF MatchInv
  <2>6. stream'.next.filled = Filled(u.order) + (IF u.type = "fill" THEN u.qty ELSE 0)
    BY <1>0, <2>1, <2>2, <2>3, <2>5
  <2>7. ASSUME NEW o \in Orders PROVE (lifecycle[o].filled = Filled(o) + Ahead(o))'
    BY <1>0, <2>1, <2>4, <2>5
  <2>8. Filled(stream.update.order)' = Filled(u.order)
    BY <2>1, <2>4 DEF Filled, ProcessedFills
  <2> QED
    BY <1>0, <2>1, <2>6, <2>7, <2>8 DEF MatchInv, Forgets
<1>2. ASSUME NEW u \in Updates, RefuseUpdate(u) PROVE MatchInv' /\ ~Forgets
  <2>1. UNCHANGED <<processed, lifecycle, stream, canceler>>
    BY <1>2 DEF RefuseUpdate, storeVars
  <2> QED
    BY <2>1, MatchFrame, CancelerOrder DEF MatchInv
<1>3. ASSUME SaveLifecycle PROVE MatchInv' /\ ~Forgets
  <2>0. PICK u : u = stream.update
    OBVIOUS
  <2>1. /\ stream.pc = "save" /\ stream'.pc # "save" /\ stream # Idle
        /\ lifecycle' = [lifecycle EXCEPT ![u.order] = stream.next]
        /\ UNCHANGED <<processed, canceler>>
    BY <1>3, <2>0 DEF SaveLifecycle, Idle, TypeOK, StreamStates
  <2>2. u \in Updates /\ u.order \in Orders
    BY <2>0, <2>1, StreamType DEF TypeOK
  <2>3. u.type = "fill" => u \in Fills /\ stream'.pc = "ledger" /\ stream'.update = u
    BY <1>3, <2>0, <2>1, StreamType DEF SaveLifecycle, TypeOK, StreamStates, Idle
  <2>4. u.type # "fill" => stream'.pc = "idle"
    BY <1>3, <2>0 DEF SaveLifecycle, Idle
  <2>5. canceler' = Idle
    BY <2>1 DEF SerialInv
  <2> DEFINE more == IF u.type = "fill" THEN u.qty ELSE 0
  <2>6. \A o : Filled(o)' = Filled(o) /\ Ahead(o) = 0
    BY <2>1 DEF Filled, ProcessedFills, Ahead
  <2>7. \A o \in Orders : Ahead(o)' = IF o = u.order THEN more ELSE 0
    BY <2>3, <2>4 DEF Ahead
  <2>8. stream.next.filled = Filled(u.order) + more
    BY <2>0, <2>1 DEF MatchInv
  <2>9. more \in Nat
    BY <2>3, FillParts
  <2> HIDE DEF more
  <2>10. \A o \in Orders : lifecycle[o].filled = Filled(o)
    BY <1>0, <2>6 DEF MatchInv
  <2>11. ASSUME NEW o \in Orders
         PROVE  /\ lifecycle'[o].filled = Filled(o) + Ahead(o)'
                /\ ~(lifecycle'[o].filled < lifecycle[o].filled)
    <3>1. CASE o = u.order
      BY <1>0, <2>1, <2>7, <2>8, <2>9, <2>10, <3>1 DEF TypeOK
    <3>2. CASE o # u.order
      <4>1. lifecycle'[o] = lifecycle[o]
        BY <2>1, <3>2 DEF TypeOK
      <4> QED
        BY <1>0, <2>7, <2>10, <3>2, <4>1
    <3> QED
      BY <3>1, <3>2
  <2> QED
    BY <2>1, <2>5, <2>6, <2>11 DEF MatchInv, Forgets
<1>4. ASSUME SavePositions PROVE MatchInv' /\ ~Forgets
  <2>1. /\ stream.pc = "ledger" /\ stream'.pc = "append" /\ stream'.update = stream.update
        /\ UNCHANGED <<processed, lifecycle, canceler>>
    BY <1>4 DEF SavePositions, TypeOK, StreamStates, Idle
  <2>2. \A o : Filled(o)' = Filled(o) /\ Ahead(o)' = Ahead(o)
    BY <2>1 DEF Filled, ProcessedFills, Ahead
  <2> QED
    BY <1>0, <2>1, <2>2 DEF MatchInv, Forgets
<1>5. ASSUME AppendProcessed PROVE MatchInv' /\ ~Forgets
  <2>0. PICK u : u = stream.update
    OBVIOUS
  <2>1. /\ stream.pc = "append" /\ stream'.pc = "idle" /\ stream # Idle
        /\ processed' = processed \cup {u}
        /\ UNCHANGED <<lifecycle, canceler>>
    BY <1>5, <2>0 DEF AppendProcessed, Idle
  <2>2. u \in Fills /\ u \notin processed
    BY <2>0, <2>1, StreamType, FillParts DEF TypeOK, LedgerInv, StreamInv
  <2>3. ASSUME NEW o \in Orders PROVE (lifecycle[o].filled = Filled(o) + Ahead(o))'
    <3>1. Ahead(o)' = 0 /\ Ahead(o) = IF o = u.order THEN u.qty ELSE 0
      BY <2>0, <2>1 DEF Ahead
    <3>2. CASE o = u.order
      <4>1. ProcessedFills(o)' = ProcessedFills(o) \cup {u}
        BY <2>1, <3>2 DEF ProcessedFills
      <4>2. Filled(o)' = Filled(o) + u.qty
        BY <2>2, <3>2, <4>1, ProcessedFinite DEF Filled
      <4> QED
        BY <1>0, <2>1, <2>2, <3>1, <3>2, <4>2, FillParts DEF MatchInv
    <3>3. CASE o # u.order
      <4>1. ProcessedFills(o)' = ProcessedFills(o)
        BY <2>1, <3>3 DEF ProcessedFills
      <4>2. Filled(o)' = Filled(o)
        BY <4>1 DEF Filled
      <4> QED
        BY <2>1, <3>1, <3>3, <4>2 DEF MatchInv
    <3> QED
      BY <3>2, <3>3
  <2> QED
    BY <1>0, <2>1, <2>3 DEF MatchInv, SerialInv, Forgets
<1>6. ~RefusePositions
  BY DEF RefusePositions, SerialInv
<1> QED
  BY <1>1, <1>2, <1>3, <1>4, <1>5, <1>6 DEF UpdateHandling

LEMMA MatchCancellation ==
  ASSUME TypeOK, SerialInv, MatchInv, Cancellation
  PROVE  MatchInv' /\ ~Forgets
<1>1. UNCHANGED <<processed, stream>>
  BY DEF Cancellation, RequestCancel, CancelAccepted, CancelFailed, SavePendingCancel, storeVars
<1>2. CASE \E o \in Orders : RequestCancel(o)
  BY <1>1, <1>2, MatchFrame DEF RequestCancel, storeVars
<1>3. CASE CancelAccepted
  <2>1. /\ UNCHANGED lifecycle /\ canceler # Idle
        /\ canceler'.order = canceler.order /\ canceler'.loaded = canceler.loaded
    BY <1>3 DEF CancelAccepted, storeVars, TypeOK, CancelerStates, Idle
  <2> QED
    BY <1>1, <2>1, MatchFrame, CancelerOrder DEF MatchInv
<1>4. CASE CancelFailed
  BY <1>1, <1>4, MatchFrame DEF CancelFailed, storeVars
<1>5. CASE SavePendingCancel
  <2>1. /\ canceler # Idle /\ canceler' = Idle
        /\ lifecycle' = [lifecycle EXCEPT ![canceler.order] = MarkPendingCancel(canceler.loaded)]
    BY <1>5 DEF SavePendingCancel, Idle
  <2>2. MarkPendingCancel(canceler.loaded).filled = canceler.loaded.filled
    BY <2>1, CancelerOrder DEF MarkPendingCancel, Lifecycles
  <2>3. \A p \in Orders : lifecycle'[p].filled = lifecycle[p].filled
    BY <2>1, <2>2 DEF MatchInv, TypeOK
  <2> QED
    BY <1>1, <2>1, <2>3, MatchFrame
<1> QED
  BY <1>2, <1>3, <1>4, <1>5 DEF Cancellation

LEMMA MatchStep ==
  ASSUME TypeOK, LedgerInv, IsFiniteSet(published), SerialInv, MatchInv, Overlap = FALSE,
         Calm', [Next]_vars
  PROVE  MatchInv' /\ ~Forgets
<1>1. CASE Broker \/ UNCHANGED vars
  <2>1. UNCHANGED <<processed, lifecycle, stream, canceler>>
    BY <1>1 DEF Broker, BrokerAcknowledges, BrokerCancels, BrokerRejects, BrokerFills,
       BrokerOnly, storeVars, vars
  <2> QED
    BY <2>1, MatchFrame, CancelerOrder DEF MatchInv
<1>2. CASE Crash \/ CrashInSavePositions
  BY <1>2 DEF Crash, CrashInSavePositions, Restart, TypeOK, Calm
<1> QED
  BY <1>1, <1>2, MatchSubmission, MatchUpdates, MatchCancellation DEF Next

LEMMA SerialInvariant ==
  ASSUME Overlap = FALSE
  PROVE  Spec /\ []Calm => [](SerialInv /\ MatchInv)
<1>1. ASSUME TypeOK, LedgerInv, IsFiniteSet(published), SerialInv, MatchInv, Calm', [Next]_vars
      PROVE  (SerialInv /\ MatchInv)'
  <2>1. SerialInv'
    BY <1>1, SerialControl DEF Calm
  <2>2. MatchInv'
    BY <1>1, MatchStep
  <2> QED
    BY <2>1, <2>2
<1> QED
  BY <1>1, SerialInit, TypeCorrect, LedgerInvariant, PublishedFinite, PTL DEF Spec

\* One handler at a time, no crash and no ID submitted twice: whenever no update
\* is being applied, an order is filled by exactly the fills of it the ledger has
\* processed.
THEOREM LifecyclesMatch ==
  ASSUME Overlap = FALSE
  PROVE  Spec /\ []Calm => []LifecycleMatchesLedger
<1>1. ASSUME TypeOK, LedgerInv, IsFiniteSet(published), MatchInv PROVE LifecycleMatchesLedger
  <2> SUFFICES ASSUME stream = Idle, NEW o \in Orders PROVE lifecycle[o].filled = Filled(o)
    BY DEF LifecycleMatchesLedger, Filled
  <2>1. Ahead(o) = 0 /\ Filled(o) \in Int
    BY <1>1, ProcessedFinite DEF Ahead, Idle
  <2> QED
    BY <1>1, <2>1 DEF MatchInv
<1> QED
  BY <1>1, SerialInvariant, TypeCorrect, LedgerInvariant, PublishedFinite, PTL

\* Under the same conditions no step lowers what was persisted of an order.
THEOREM FillsRemembered ==
  ASSUME Overlap = FALSE
  PROVE  Spec /\ []Calm => FillsNotForgotten
<1>1. ASSUME TypeOK, LedgerInv, IsFiniteSet(published), SerialInv, MatchInv, Calm', TypeOK', [Next]_vars
      PROVE  [\A o \in Orders : lifecycle'[o].filled >= lifecycle[o].filled]_vars
  <2>1. \A o \in Orders : lifecycle[o].filled \in Int /\ lifecycle'[o].filled \in Int
    BY <1>1, QuantityAssumption DEF TypeOK, Lifecycles
  <2>2. ~Forgets
    BY <1>1, MatchStep
  <2> QED
    BY <2>1, <2>2 DEF Forgets
<1> QED
  BY <1>1, SerialInvariant, TypeCorrect, LedgerInvariant, PublishedFinite, PTL
  DEF Spec, FillsNotForgotten

-----------------------------------------------------------------------------
(* Open orders.  Without faults a broker order is the recorded one or the   *)
(* one about to be, and as long as it is open, and its client order ID was  *)
(* not submitted again, its lifecycle can be canceled.                      *)

PublishedFits(u) ==
  /\ broker[u.order][u.attempt].state # "none"
  /\ u.type \in {"canceled", "rejected"} => broker[u.order][u.attempt].state = u.type

NextFits(u, lc) ==
  /\ u.type = "working" => lc.status = "working"
  /\ u.type = "fill" => lc.status \in {"partially_filled", "filled"}
  /\ u.type \in {"canceled", "rejected"} => lc.status = u.type

HandlersFit ==
  /\ \A u \in published : PublishedFits(u)
  /\ stream.pc = "save" => NextFits(stream.update, stream.next)
  /\ canceler.pc # "idle" => canceler.attempt = activity[canceler.order]
  /\ canceler.pc = "save" =>
       broker[canceler.order][canceler.attempt].state \notin {"none", "open"}
  /\ trader.pc # "idle" => activity[trader.order] = 0
  /\ trader.pc \in {"save", "record"} =>
       broker[trader.order][trader.attempt].state # "none"
  /\ \A o \in Orders : activity[o] # 0 => broker[o][activity[o]].state # "none"
  /\ \A o \in Orders, n \in Attempts : Live(o, n) => broker[o][n].filled < Quantity[o]

Submitting(o, n, pcs) == trader.pc \in pcs /\ trader.order = o /\ trader.attempt = n

NoFault == crashes = 0 /\ lost = 0

SolePlacement ==
  NoFault => \A o \in Orders, n \in Attempts :
    broker[o][n].state # "none" => activity[o] = n \/ Submitting(o, n, {"save", "record"})

Standing(o, n) ==
  /\ broker[o][n].state = "open"
  /\ attempts[o] = n
  /\ activity[o] = n \/ Submitting(o, n, {"record"})

StandingFits ==
  NoFault => \A o \in Orders, n \in Attempts :
    Standing(o, n) => lifecycle[o].status \in {"working", "partially_filled", "filled"}

OpenInv == HandlersFit /\ SolePlacement /\ StandingFits

\* What a step makes of a broker order.
BrokerMove(o, n) ==
  \/ broker'[o][n] = broker[o][n]
  \/ /\ trader.pc = "handoff" /\ o = trader.order /\ n = trader.attempt
     /\ broker[o][n].state = "none"
     /\ broker'[o][n] = [state |-> "open", filled |-> 0]
     /\ (trader' = Idle /\ lost' = lost + 1) \/ trader' = [trader EXCEPT !.pc = "save"]
  \/ /\ Live(o, n)
     /\ broker'[o][n].state # "none"
     /\ broker'[o][n].state = "open" => broker[o][n].state = "open"
     /\ Live(o, n)' /\ broker[o][n].filled < Quantity[o] => broker'[o][n].filled < Quantity[o]
     /\ UNCHANGED <<trader, activity, attempts, lifecycle, crashes, lost, stream>>

LEMMA BrokerMoves ==
  ASSUME TypeOK, BookInv, [Next]_vars, NEW o \in Orders, NEW n \in Attempts
  PROVE  BrokerMove(o, n)
<1>1. ASSUME trader.pc = "handoff", PlaceAtBroker,
             (trader' = Idle /\ lost' = lost + 1) \/ trader' = [trader EXCEPT !.pc = "save"]
      PROVE  BrokerMove(o, n)
  <2>1. /\ trader.order \in Orders /\ trader.attempt \in Attempts
        /\ broker[trader.order][trader.attempt].state = "none"
    BY <1>1, TraderType DEF TypeOK, BookInv, PlacedOnce
  <2> QED
    BY <1>1, <2>1 DEF BrokerMove, PlaceAtBroker, TypeOK
<1>2. CASE HandoffAccepted \/ HandoffReplyLost \/ HandoffTimeout
  BY <1>1, <1>2 DEF HandoffAccepted, HandoffReplyLost, HandoffTimeout
<1>3. CASE Submission /\ ~(HandoffAccepted \/ HandoffReplyLost \/ HandoffTimeout)
  BY <1>3 DEF Submission, RiskReject, RiskApprove, HandoffRefused, SaveWorking,
     RecordSubmission, brokerVars, BrokerMove
<1>4. CASE UpdateHandling \/ Crash \/ CrashInSavePositions \/ UNCHANGED vars
  BY <1>4 DEF UpdateHandling, ApplyUpdate, RefuseUpdate, SaveLifecycle, SavePositions,
     RefusePositions, AppendProcessed, Crash, CrashInSavePositions, Restart, vars,
     brokerVars, BrokerMove
<1>5. CASE Cancellation
  <2>1. CASE CancelAccepted
    <3>1. canceler.order \in Orders /\ canceler.attempt \in Attempts
      BY <2>1, CancelerType DEF CancelAccepted, TypeOK
    <3>2. CASE o = canceler.order /\ n = canceler.attempt
      <4>1. broker'[o][n] = [state |-> IF broker[o][n].state = "open" THEN "canceling"
                                       ELSE broker[o][n].state,
                             filled |-> broker[o][n].filled]
        BY <2>1, <3>1, <3>2 DEF CancelAccepted, TypeOK
      <4>2. CASE broker[o][n].state = "open"
        BY <2>1, <4>1, <4>2 DEF BrokerMove, Live, CancelAccepted, storeVars, faultVars
      <4>3. CASE broker[o][n].state # "open"
        <5>1. broker[o][n] = [state |-> broker[o][n].state, filled |-> broker[o][n].filled]
          BY DEF TypeOK
        <5> QED
          BY <4>1, <4>3, <5>1 DEF BrokerMove
      <4> QED
        BY <4>2, <4>3
    <3>3. CASE ~(o = canceler.order /\ n = canceler.attempt)
      BY <2>1, <3>1, <3>3 DEF CancelAccepted, TypeOK, BrokerMove
    <3> QED
      BY <3>2, <3>3
  <2>2. CASE ~CancelAccepted
    BY <1>5, <2>2 DEF Cancellation, RequestCancel, CancelFailed, SavePendingCancel,
       brokerVars, BrokerMove
  <2> QED
    BY <2>1, <2>2
<1>6. CASE Broker
  <2>1. PICK p \in Orders, m \in Attempts :
          \/ BrokerAcknowledges(p, m) \/ BrokerCancels(p, m) \/ BrokerRejects(p, m)
          \/ \E q \in 1..MaxQuantity : BrokerFills(p, m, q)
    BY <1>6 DEF Broker
  <2>2. UNCHANGED <<trader, activity, attempts, lifecycle, crashes, lost, stream>>
    BY <2>1 DEF BrokerAcknowledges, BrokerCancels, BrokerRejects, BrokerFills, BrokerOnly,
       storeVars, faultVars
  <2>3. CASE BrokerAcknowledges(p, m)
    BY <2>3 DEF BrokerAcknowledges, BrokerMove
  <2>4. CASE BrokerCancels(p, m) \/ BrokerRejects(p, m)
    <3>1. PICK s \in {"canceled", "rejected"} :
            broker' = [broker EXCEPT ![p][m].state = s]
      BY <2>4 DEF BrokerCancels, BrokerRejects
    <3>2. Live(p, m)
      BY <2>4 DEF BrokerCancels, BrokerRejects
    <3>3. CASE p = o /\ m = n
      <4>1. broker'[o][n].state = s
        BY <3>1, <3>3 DEF TypeOK
      <4> QED
        BY <2>2, <3>2, <3>3, <4>1 DEF BrokerMove, Live
    <3>4. CASE ~(p = o /\ m = n)
      <4>1. broker'[o][n] = broker[o][n]
        BY <3>1, <3>4 DEF TypeOK
      <4> QED
        BY <4>1 DEF BrokerMove
    <3> QED
      BY <3>3, <3>4
  <2>5. ASSUME NEW q \in 1..MaxQuantity, BrokerFills(p, m, q) PROVE BrokerMove(o, n)
    <3>1. CASE p = o /\ m = n
      <4> DEFINE filled == broker[o][n].filled + q
      <4>1. /\ Live(o, n) /\ filled =< Quantity[o]
            /\ broker'[o][n] = [state |-> IF filled = Quantity[o] THEN "filled"
                                          ELSE broker[o][n].state,
                                filled |-> filled]
        BY <2>5, <3>1 DEF BrokerFills, TypeOK
      <4>2. filled \in Int /\ Quantity[o] \in Int
        BY QuantityAssumption DEF TypeOK
      <4> HIDE DEF filled
      <4>3. Live(o, n)' => filled < Quantity[o]
        BY <4>1, <4>2 DEF Live
      <4> QED
        BY <2>2, <4>1, <4>2, <4>3 DEF BrokerMove, Live
    <3>2. CASE ~(p = o /\ m = n)
      BY <2>5, <3>2 DEF BrokerFills, TypeOK, BrokerMove
    <3> QED
      BY <3>1, <3>2
  <2> QED
    BY <2>1, <2>3, <2>4, <2>5
<1> QED
  BY <1>2, <1>3, <1>4, <1>5, <1>6 DEF Next

LEMMA UpdateParts ==
  ASSUME NEW u \in Updates
  PROVE  /\ u.order \in Orders /\ u.attempt \in Attempts
         /\ u.type \in {"fill", "working", "canceled", "rejected"}
BY DEF Updates, Fills, Notices

LEMMA PublishedStep ==
  ASSUME TypeOK, BookInv, \A u \in published : PublishedFits(u), [Next]_vars
  PROVE  \A u \in published' : PublishedFits(u)'
<1>1. ASSUME NEW u \in published PROVE PublishedFits(u)'
  <2>1. u.order \in Orders /\ u.attempt \in Attempts
    BY UpdateParts DEF TypeOK
  <2>2. BrokerMove(u.order, u.attempt)
    BY <2>1, BrokerMoves
  <2>3. PublishedFits(u)
    OBVIOUS
  <2> QED
    BY <2>2, <2>3 DEF BrokerMove, PublishedFits, Live
<1>2. CASE published' = published
  BY <1>1, <1>2
<1>3. CASE Broker
  <2>1. PICK p \in Orders, m \in Attempts :
          \/ BrokerAcknowledges(p, m) \/ BrokerCancels(p, m) \/ BrokerRejects(p, m)
          \/ \E q \in 1..MaxQuantity : BrokerFills(p, m, q)
    BY <1>3 DEF Broker
  <2>2. CASE BrokerAcknowledges(p, m)
    <3> DEFINE u == [type |-> "working", order |-> p, attempt |-> m]
    <3>1. published' = published \cup {u} /\ broker'[p][m].state # "none"
      BY <2>2 DEF BrokerAcknowledges, Publish, Live
    <3>2. PublishedFits(u)'
      BY <3>1 DEF PublishedFits
    <3> QED
      BY <1>1, <3>1, <3>2
  <2>3. ASSUME NEW type \in {"canceled", "rejected"}, Publish(type, p, m),
               broker' = [broker EXCEPT ![p][m].state = type]
        PROVE  \A u \in published' : PublishedFits(u)'
    <3> DEFINE u == [type |-> type, order |-> p, attempt |-> m]
    <3>1. published' = published \cup {u} /\ broker'[p][m].state = type
      BY <2>3 DEF Publish, TypeOK
    <3>2. PublishedFits(u)'
      BY <3>1 DEF PublishedFits
    <3> QED
      BY <1>1, <3>1, <3>2
  <2>4. ASSUME NEW q \in 1..MaxQuantity, BrokerFills(p, m, q)
        PROVE  \A u \in published' : PublishedFits(u)'
    <3> DEFINE u == [type |-> "fill", order |-> p, attempt |-> m,
                     from |-> broker[p][m].filled, qty |-> q]
    <3>1. published' = published \cup {u} /\ broker'[p][m].state # "none"
      BY <2>4 DEF BrokerFills, Live, TypeOK
    <3>2. u.order = p /\ u.attempt = m /\ u.type = "fill"
      OBVIOUS
    <3>3. PICK v : v = u
      OBVIOUS
    <3>4. v.order = p /\ v.attempt = m /\ v.type = "fill" /\ published' = published \cup {v}
      BY <3>1, <3>2, <3>3
    <3>5. PublishedFits(v)'
      BY <3>1, <3>4 DEF PublishedFits
    <3> QED
      BY <1>1, <3>4, <3>5
  <2> QED
    BY <2>1, <2>2, <2>3, <2>4 DEF BrokerCancels, BrokerRejects
<1>4. published' = published \/ Broker
  BY DEF Next, Submission, RiskReject, RiskApprove, HandoffAccepted, HandoffRefused,
     HandoffReplyLost, HandoffTimeout, SaveWorking, RecordSubmission,
     UpdateHandling, ApplyUpdate, RefuseUpdate, SaveLifecycle, SavePositions,
     RefusePositions, AppendProcessed, Cancellation, RequestCancel, CancelAccepted,
     CancelFailed, SavePendingCancel, Crash, CrashInSavePositions, Restart, vars, brokerVars
<1> QED
  BY <1>2, <1>3, <1>4

LEMMA OpenInit == Init => OpenInv
BY QuantityAssumption DEF Init, OpenInv, HandlersFit, SolePlacement, StandingFits, Standing, Live, Idle

LEMMA AttemptsPositive == \A n \in Attempts : n # 0
BY BoundsAssumption DEF Attempts

\* A recorded order stays recorded.
LEMMA ActivityStays ==
  ASSUME TypeOK, HandlersFit, [Next]_vars, NEW o \in Orders
  PROVE  /\ activity[o] # 0 => activity'[o] = activity[o]
         /\ activity'[o] # activity[o] =>
              /\ trader.pc = "record" /\ trader.order = o
              /\ activity'[o] = trader.attempt
              /\ UNCHANGED <<broker, lifecycle, attempts, stream, canceler>>
<1>1. CASE RecordSubmission
  <2>1. trader.order \in Orders /\ activity[trader.order] = 0
    BY <1>1, TraderType DEF RecordSubmission, TypeOK
  <2> QED
    BY <1>1, <2>1 DEF RecordSubmission, brokerVars, TypeOK
<1>2. CASE ~RecordSubmission
  BY <1>2 DEF Next, Submission, RiskReject, RiskApprove, HandoffAccepted, HandoffRefused,
     HandoffReplyLost, HandoffTimeout, SaveWorking,
     UpdateHandling, ApplyUpdate, RefuseUpdate, SaveLifecycle, SavePositions,
     RefusePositions, AppendProcessed, Cancellation, RequestCancel, CancelAccepted,
     CancelFailed, SavePendingCancel, Broker, BrokerAcknowledges, BrokerCancels,
     BrokerRejects, BrokerFills, BrokerOnly, Crash, CrashInSavePositions, Restart,
     vars, storeVars
<1> QED
  BY <1>1, <1>2

\* Where the trader can go.
LEMMA TraderMoves ==
  ASSUME TypeOK, [Next]_vars
  PROVE  \/ trader' = trader
         \/ trader' = Idle
         \/ trader.pc = "idle" /\ trader'.pc = "handoff" /\ activity[trader'.order] = 0
              /\ UNCHANGED activity
         \/ /\ trader.pc = "handoff" /\ trader' = [trader EXCEPT !.pc = "save"]
            /\ trader'.order = trader.order /\ trader'.attempt = trader.attempt
            /\ trader'.pc = "save" /\ PlaceAtBroker /\ UNCHANGED activity
         \/ /\ trader.pc = "save" /\ trader'.pc = "record" /\ SaveWorking
            /\ trader'.order = trader.order /\ trader'.attempt = trader.attempt
            /\ UNCHANGED activity
<1>1. CASE HandoffAccepted \/ SaveWorking
  BY <1>1 DEF HandoffAccepted, SaveWorking, storeVars, TypeOK, TraderStates, Idle
<1>2. CASE \E o \in Orders : RiskReject(o) \/ RiskApprove(o)
  BY <1>2 DEF RiskReject, RiskApprove, storeVars, Idle
<1>3. CASE ~(HandoffAccepted \/ SaveWorking \/ \E o \in Orders : RiskReject(o) \/ RiskApprove(o))
  BY <1>3 DEF Next, Submission, HandoffRefused, HandoffReplyLost, HandoffTimeout,
     RecordSubmission, UpdateHandling, ApplyUpdate, RefuseUpdate, SaveLifecycle,
     SavePositions, RefusePositions, AppendProcessed, Cancellation, RequestCancel,
     CancelAccepted, CancelFailed, SavePendingCancel, Broker, BrokerAcknowledges,
     BrokerCancels, BrokerRejects, BrokerFills, BrokerOnly, Crash, CrashInSavePositions,
     Restart, vars
<1> QED
  BY <1>1, <1>2, <1>3

LEMMA HandlersStep ==
  ASSUME TypeOK, BookInv, HandlersFit, [Next]_vars
  PROVE  HandlersFit'
<1>1. \A u \in published' : PublishedFits(u)'
  BY PublishedStep DEF HandlersFit
<1>2. ASSUME stream'.pc = "save" PROVE NextFits(stream.update, stream.next)'
  <2>1. CASE \E u \in Updates : ApplyUpdate(u)
    <3>1. PICK u \in Updates : ApplyUpdate(u)
      BY <2>1
    <3>2. /\ stream'.update = u /\ stream'.next = After(lifecycle[u.order], u)
          /\ lifecycle[u.order] \in Lifecycles
      BY <3>1, UpdateParts DEF ApplyUpdate, TypeOK
    <3>3. NextFits(u, After(lifecycle[u.order], u))
      BY <3>2, UpdateParts DEF NextFits, After, MarkWorking, MarkCanceled, MarkRejected,
         RecordFill, Lifecycles
    <3> QED
      BY <3>2, <3>3
  <2>2. CASE SaveLifecycle \/ SavePositions \/ RefusePositions \/ AppendProcessed
    BY <1>2, <2>2 DEF SaveLifecycle, SavePositions, RefusePositions, AppendProcessed,
       TypeOK, StreamStates, Idle
  <2>3. CASE \E u \in Updates : RefuseUpdate(u)
    BY <1>2, <2>3 DEF RefuseUpdate, HandlersFit
  <2>4. CASE Crash \/ CrashInSavePositions
    BY <1>2, <2>4 DEF Crash, CrashInSavePositions, Restart, Idle
  <2>5. CASE Submission \/ Cancellation \/ Broker \/ UNCHANGED vars
    <3>1. UNCHANGED stream
      BY <2>5 DEF Submission, RiskReject, RiskApprove, HandoffAccepted, HandoffRefused,
         HandoffReplyLost, HandoffTimeout, SaveWorking, RecordSubmission,
         Cancellation, RequestCancel, CancelAccepted, CancelFailed, SavePendingCancel,
         Broker, BrokerAcknowledges, BrokerCancels, BrokerRejects, BrokerFills,
         BrokerOnly, vars
    <3> QED
      BY <1>2, <3>1 DEF HandlersFit
  <2> QED
    BY <2>1, <2>2, <2>3, <2>4, <2>5 DEF Next, UpdateHandling
<1>3. ASSUME canceler'.pc # "idle"
      PROVE  /\ canceler'.attempt = activity'[canceler'.order]
             /\ canceler'.pc = "save" =>
                  broker'[canceler'.order][canceler'.attempt].state \notin {"none", "open"}
  <2>1. CASE \E o \in Orders : RequestCancel(o)
    BY <2>1 DEF RequestCancel, storeVars
  <2>2. CASE CancelAccepted
    <3>1. canceler.order \in Orders /\ canceler.attempt \in Attempts
      BY <2>2, CancelerType DEF CancelAccepted, TypeOK
    <3>2. /\ canceler'.order = canceler.order /\ canceler'.attempt = canceler.attempt
          /\ canceler.attempt = activity[canceler.order] /\ UNCHANGED activity
      BY <2>2 DEF CancelAccepted, storeVars, TypeOK, CancelerStates, Idle, HandlersFit
    <3>3. broker[canceler.order][canceler.attempt].state # "none"
      BY <3>1, <3>2, AttemptsPositive DEF HandlersFit
    <3>4. broker'[canceler.order][canceler.attempt].state =
            IF broker[canceler.order][canceler.attempt].state = "open" THEN "canceling"
            ELSE broker[canceler.order][canceler.attempt].state
      BY <2>2, <3>1 DEF CancelAccepted, TypeOK
    <3> QED
      BY <3>2, <3>3, <3>4
  <2>3. CASE ~CancelAccepted /\ ~\E o \in Orders : RequestCancel(o)
    <3>1. UNCHANGED canceler
      BY <1>3, <2>3 DEF Next, Submission, RiskReject, RiskApprove, HandoffAccepted,
         HandoffRefused, HandoffReplyLost, HandoffTimeout, SaveWorking, RecordSubmission,
         UpdateHandling, ApplyUpdate, RefuseUpdate, SaveLifecycle, SavePositions,
         RefusePositions, AppendProcessed, Cancellation, CancelFailed, SavePendingCancel,
         Broker, BrokerAcknowledges, BrokerCancels, BrokerRejects, BrokerFills,
         BrokerOnly, Crash, CrashInSavePositions, Restart, vars, Idle
    <3>2. canceler.order \in Orders /\ canceler.attempt \in Attempts
      BY <1>3, <3>1, CancelerType DEF TypeOK
    <3>3. activity'[canceler.order] = activity[canceler.order]
      BY <1>3, <3>1, <3>2, ActivityStays, AttemptsPositive DEF HandlersFit
    <3>4. BrokerMove(canceler.order, canceler.attempt)
      BY <3>2, BrokerMoves
    <3> QED
      BY <1>3, <3>1, <3>3, <3>4 DEF HandlersFit, BrokerMove
  <2> QED
    BY <2>1, <2>2, <2>3
<1>4. \A o \in Orders, n \in Attempts :
        broker[o][n].state # "none" => broker'[o][n].state # "none"
  BY BrokerMoves DEF BrokerMove
<1>5. ASSUME trader'.pc # "idle"
      PROVE  /\ activity'[trader'.order] = 0
             /\ trader'.pc \in {"save", "record"} =>
                  broker'[trader'.order][trader'.attempt].state # "none"
  <2>1. CASE trader' = trader
    <3>1. trader.order \in Orders /\ trader.attempt \in Attempts
      BY <1>5, <2>1, TraderType DEF TypeOK
    <3>2. ~RecordSubmission
      BY <1>5, <2>1 DEF RecordSubmission, Idle
    <3>3. activity'[trader.order] = activity[trader.order]
      BY <3>2 DEF Next, Submission, RiskReject, RiskApprove, HandoffAccepted, HandoffRefused,
         HandoffReplyLost, HandoffTimeout, SaveWorking,
         UpdateHandling, ApplyUpdate, RefuseUpdate, SaveLifecycle, SavePositions,
         RefusePositions, AppendProcessed, Cancellation, RequestCancel, CancelAccepted,
         CancelFailed, SavePendingCancel, Broker, BrokerAcknowledges, BrokerCancels,
         BrokerRejects, BrokerFills, BrokerOnly, Crash, CrashInSavePositions, Restart,
         vars, storeVars
    <3> QED
      BY <1>4, <1>5, <2>1, <3>1, <3>3 DEF HandlersFit
  <2>2. CASE trader.pc = "idle" /\ trader'.pc = "handoff" /\ activity[trader'.order] = 0
             /\ UNCHANGED activity
    BY <2>2
  <2>3. CASE /\ trader.pc = "handoff" /\ trader'.order = trader.order
             /\ trader'.attempt = trader.attempt /\ PlaceAtBroker /\ UNCHANGED activity
    <3>1. trader.order \in Orders /\ trader.attempt \in Attempts
      BY <2>3, TraderType DEF TypeOK
    <3>2. broker'[trader.order][trader.attempt].state = "open"
      BY <2>3, <3>1 DEF PlaceAtBroker, TypeOK
    <3> QED
      BY <2>3, <3>2 DEF HandlersFit
  <2>4. CASE /\ trader.pc = "save" /\ trader'.order = trader.order
             /\ trader'.attempt = trader.attempt /\ UNCHANGED activity
    <3>1. trader.order \in Orders /\ trader.attempt \in Attempts
      BY <2>4, TraderType DEF TypeOK
    <3> QED
      BY <1>4, <2>4, <3>1 DEF HandlersFit
  <2> QED
    BY <1>5, <2>1, <2>2, <2>3, <2>4, TraderMoves DEF Idle
<1>6. ASSUME NEW o \in Orders, activity'[o] # 0
      PROVE  broker'[o][activity'[o]].state # "none"
  <2>1. CASE activity'[o] = activity[o]
    <3>1. activity[o] \in Attempts
      BY <1>6, <2>1, BoundsAssumption DEF TypeOK, Attempts
    <3> QED
      BY <1>4, <1>6, <2>1, <3>1 DEF HandlersFit
  <2>2. CASE activity'[o] # activity[o]
    BY <2>2, ActivityStays DEF HandlersFit
  <2> QED
    BY <2>1, <2>2
<1>7. ASSUME NEW o \in Orders, NEW n \in Attempts, Live(o, n)'
      PROVE  broker'[o][n].filled < Quantity[o]
  <2>1. BrokerMove(o, n)
    BY BrokerMoves
  <2> QED
    BY <1>7, <2>1, QuantityAssumption DEF BrokerMove, HandlersFit, Live
<1> QED
  BY <1>1, <1>2, <1>3, <1>5, <1>6, <1>7 DEF HandlersFit

LEMMA FaultsStay ==
  ASSUME TypeOK, [Next]_vars, NoFault'
  PROVE  NoFault /\ ~Crash /\ ~CrashInSavePositions /\ ~HandoffReplyLost /\ ~HandoffTimeout
         /\ lost' = lost
<1>1. crashes \in Nat /\ lost \in Nat
  BY DEF TypeOK
<1>2. crashes' = crashes \/ crashes' = crashes + 1
  BY DEF Next, Submission, RiskReject, RiskApprove, HandoffAccepted, HandoffRefused,
     HandoffReplyLost, HandoffTimeout, SaveWorking, RecordSubmission,
     UpdateHandling, ApplyUpdate, RefuseUpdate, SaveLifecycle, SavePositions,
     RefusePositions, AppendProcessed, Cancellation, RequestCancel, CancelAccepted,
     CancelFailed, SavePendingCancel, Broker, BrokerAcknowledges, BrokerCancels,
     BrokerRejects, BrokerFills, BrokerOnly, Crash, CrashInSavePositions, Restart,
     vars, faultVars
<1>3. lost' = lost \/ lost' = lost + 1
  BY DEF Next, Submission, RiskReject, RiskApprove, HandoffAccepted, HandoffRefused,
     HandoffReplyLost, HandoffTimeout, SaveWorking, RecordSubmission,
     UpdateHandling, ApplyUpdate, RefuseUpdate, SaveLifecycle, SavePositions,
     RefusePositions, AppendProcessed, Cancellation, RequestCancel, CancelAccepted,
     CancelFailed, SavePendingCancel, Broker, BrokerAcknowledges, BrokerCancels,
     BrokerRejects, BrokerFills, BrokerOnly, Crash, CrashInSavePositions, Restart,
     vars, faultVars
<1>4. (Crash \/ CrashInSavePositions => crashes' = crashes + 1)
      /\ (HandoffReplyLost \/ HandoffTimeout => lost' = lost + 1)
  BY DEF Crash, CrashInSavePositions, Restart, HandoffReplyLost, HandoffTimeout
<1> QED
  BY <1>1, <1>2, <1>3, <1>4 DEF NoFault

LEMMA SoleStep ==
  ASSUME TypeOK, BookInv, HandlersFit, SolePlacement, [Next]_vars
  PROVE  SolePlacement'
<1> SUFFICES ASSUME NoFault', NEW o \in Orders, NEW n \in Attempts,
                    broker'[o][n].state # "none"
             PROVE  activity'[o] = n \/ Submitting(o, n, {"save", "record"})'
  BY DEF SolePlacement
<1>0. NoFault /\ ~Crash /\ ~CrashInSavePositions /\ lost' = lost /\ lost \in Nat
  BY FaultsStay DEF TypeOK
<1>1. CASE broker[o][n].state = "none"
  <2>1. BrokerMove(o, n)
    BY BrokerMoves
  <2>2. /\ trader.pc = "handoff" /\ o = trader.order /\ n = trader.attempt
        /\ trader' = [trader EXCEPT !.pc = "save"]
    BY <1>0, <1>1, <2>1 DEF BrokerMove, Live
  <2> QED
    BY <2>2 DEF Submitting, TypeOK, TraderStates, Idle
<1>2. CASE activity[o] = n
  BY <1>2, ActivityStays, AttemptsPositive
<1>3. CASE Submitting(o, n, {"save", "record"})
  <2>1. CASE trader' = Idle
    <3>1. trader.pc \in {"save", "record"} /\ trader # Idle
      BY <1>3 DEF Submitting, TypeOK, TraderStates, Idle
    <3>2. ~UpdateHandling /\ ~Cancellation /\ ~Broker /\ ~(UNCHANGED vars)
      BY <2>1, <3>1 DEF UpdateHandling, ApplyUpdate, RefuseUpdate, SaveLifecycle,
         SavePositions, RefusePositions, AppendProcessed, Cancellation, RequestCancel,
         CancelAccepted, CancelFailed, SavePendingCancel, Broker, BrokerAcknowledges,
         BrokerCancels, BrokerRejects, BrokerFills, BrokerOnly, vars
    <3>3. ~SaveWorking
      <4>1. ASSUME SaveWorking PROVE trader'.pc = "record"
        BY <4>1, <3>1 DEF SaveWorking, TypeOK, TraderStates, Idle
      <4> QED
        BY <2>1, <4>1 DEF Idle
    <3>4. RecordSubmission
      BY <1>0, <3>1, <3>2, <3>3 DEF Next, Submission, RiskReject, RiskApprove,
         HandoffAccepted, HandoffRefused, HandoffReplyLost, HandoffTimeout, Idle
    <3> QED
      BY <1>3, <3>4 DEF RecordSubmission, Submitting, TypeOK
  <2>2. CASE trader' # Idle
    BY <1>3, <2>2, TraderMoves DEF Submitting
  <2> QED
    BY <2>1, <2>2
<1> QED
  BY <1>0, <1>1, <1>2, <1>3 DEF SolePlacement

LEMMA StandingStep ==
  ASSUME TypeOK, LedgerInv, BookInv, OpenInv, [Next]_vars
  PROVE  StandingFits'
<1> DEFINE Good == {"working", "partially_filled", "filled"}
<1> SUFFICES ASSUME NoFault', NEW o \in Orders, NEW n \in Attempts, Standing(o, n)'
             PROVE  lifecycle'[o].status \in Good
  BY DEF StandingFits
<1>0. /\ NoFault /\ ~Crash /\ ~CrashInSavePositions /\ lost' = lost /\ lost \in Nat
      /\ ~HandoffReplyLost /\ ~HandoffTimeout
  BY FaultsStay DEF TypeOK
<1>1. HandlersFit /\ SolePlacement /\ StandingFits
  BY DEF OpenInv
<1>2. n # 0
  BY AttemptsPositive
<1>3. ASSUME Standing(o, n), lifecycle'[o] = lifecycle[o] PROVE lifecycle'[o].status \in Good
  BY <1>0, <1>1, <1>3 DEF StandingFits
<1>4. ASSUME NEW p \in Orders, RiskReject(p) PROVE lifecycle'[o].status \in Good
  <2>1. CASE p = o
    <3>1. attempts[o] \in Nat /\ n = attempts[o] + 1 /\ broker[o][n].state = "open"
      BY <1>4, <2>1, BoundsAssumption DEF RiskReject, brokerVars, Standing, TypeOK
    <3> QED
      BY <3>1 DEF BookInv, PlacedOnce
  <2>2. CASE p # o
    <3>1. lifecycle'[o] = lifecycle[o] /\ attempts'[o] = attempts[o]
          /\ UNCHANGED <<broker, activity, trader>>
      BY <1>4, <2>2 DEF RiskReject, brokerVars, TypeOK
    <3> QED
      BY <1>3, <3>1 DEF Standing, Submitting
  <2> QED
    BY <2>1, <2>2
<1>5. ASSUME NEW p \in Orders, RiskApprove(p) PROVE lifecycle'[o].status \in Good
  <2>1. /\ UNCHANGED <<broker, activity, lifecycle>> /\ trader'.pc = "handoff"
        /\ activity[p] = 0 /\ attempts' = [attempts EXCEPT ![p] = @ + 1]
    BY <1>5 DEF RiskApprove, brokerVars, storeVars
  <2>2. activity[o] = n
    BY <2>1 DEF Standing, Submitting
  <2>3. attempts'[o] = attempts[o]
    BY <1>2, <2>1, <2>2 DEF TypeOK
  <2> QED
    BY <1>3, <2>1, <2>2, <2>3 DEF Standing
<1>6. ASSUME HandoffAccepted \/ HandoffRefused PROVE lifecycle'[o].status \in Good
  <2>1. /\ trader.pc = "handoff" /\ trader.order \in Orders /\ activity[trader.order] = 0
        /\ trader'.pc # "record" /\ UNCHANGED <<activity, attempts>>
    BY <1>1, <1>6, TraderType DEF HandoffAccepted, HandoffRefused, storeVars, TypeOK, HandlersFit,
       TraderStates, Idle
  <2>2. activity[o] = n /\ o # trader.order
    BY <1>2, <2>1 DEF Standing, Submitting
  <2>3. lifecycle'[o] = lifecycle[o] /\ broker'[o][n] = broker[o][n]
    BY <1>6, <2>1, <2>2 DEF HandoffAccepted, HandoffRefused, PlaceAtBroker, storeVars,
       brokerVars, TypeOK
  <2> QED
    BY <1>3, <2>1, <2>2, <2>3 DEF Standing
<1>7. ASSUME SaveWorking PROVE lifecycle'[o].status \in Good
  <2>1. /\ trader.pc = "save" /\ trader.order \in Orders /\ trader'.order = trader.order
        /\ UNCHANGED <<activity, attempts, broker>>
    BY <1>7, TraderType DEF SaveWorking, brokerVars, TypeOK, TraderStates, Idle
  <2>2. CASE o = trader.order
    <3>1. lifecycle'[o] = MarkWorking(PendingSubmit)
      BY <1>7, <2>1, <2>2 DEF SaveWorking, TypeOK
    <3> QED
      BY <3>1 DEF MarkWorking, PendingSubmit
  <2>3. CASE o # trader.order
    <3>1. lifecycle'[o] = lifecycle[o]
      BY <1>7, <2>1, <2>3 DEF SaveWorking, TypeOK
    <3>2. Standing(o, n)
      BY <2>1, <2>3 DEF Standing, Submitting
    <3> QED
      BY <1>3, <3>1, <3>2
  <2> QED
    BY <2>2, <2>3
<1>8. ASSUME RecordSubmission PROVE lifecycle'[o].status \in Good
  <2>1. /\ trader.pc = "record" /\ trader.order \in Orders /\ trader' = Idle
        /\ activity' = [activity EXCEPT ![trader.order] = trader.attempt]
        /\ UNCHANGED <<attempts, broker, lifecycle>>
    BY <1>8, TraderType DEF RecordSubmission, brokerVars, TypeOK
  <2>2. activity'[o] = n
    BY <2>1 DEF Standing, Submitting, Idle
  <2>3. activity[o] = n \/ Submitting(o, n, {"record"})
    BY <2>1, <2>2 DEF Submitting, TypeOK
  <2> QED
    BY <1>3, <2>1, <2>3 DEF Standing
<1>9. ASSUME UpdateHandling PROVE lifecycle'[o].status \in Good
  <2>1. UNCHANGED <<broker, activity, attempts, trader>>
    BY <1>9 DEF UpdateHandling, ApplyUpdate, RefuseUpdate, SaveLifecycle, SavePositions,
       RefusePositions, AppendProcessed, storeVars, brokerVars
  <2>2. Standing(o, n)
    BY <2>1 DEF Standing, Submitting
  <2>3. CASE SaveLifecycle /\ stream.update.order = o
    <3>0. PICK u : u = stream.update
      OBVIOUS
    <3>1. /\ stream.pc = "save" /\ u \in published /\ u \in Updates /\ u.order = o
          /\ lifecycle'[o] = stream.next
      BY <2>3, <3>0, StreamType DEF SaveLifecycle, LedgerInv, StreamInv, TypeOK
    <3>2. u.attempt \in Attempts /\ PublishedFits(u) /\ NextFits(u, stream.next)
      BY <1>1, <3>0, <3>1, UpdateParts DEF HandlersFit
    <3>3. activity[o] = u.attempt \/ Submitting(o, u.attempt, {"save", "record"})
      BY <1>0, <1>1, <3>1, <3>2 DEF SolePlacement, PublishedFits
    <3>4. u.attempt = n
      BY <1>1, <1>2, <2>2, <3>2, <3>3, AttemptsPositive DEF Standing, Submitting, HandlersFit
    <3>5. u.type \notin {"canceled", "rejected"}
      BY <2>2, <3>1, <3>2, <3>4 DEF PublishedFits, Standing
    <3> QED
      BY <3>1, <3>2, <3>5, UpdateParts DEF NextFits
  <2>4. CASE ~(SaveLifecycle /\ stream.update.order = o)
    <3>1. lifecycle'[o] = lifecycle[o]
      BY <1>9, <2>4 DEF UpdateHandling, ApplyUpdate, RefuseUpdate, SaveLifecycle, SavePositions,
         RefusePositions, AppendProcessed, storeVars, TypeOK
    <3> QED
      BY <1>3, <2>2, <3>1
  <2> QED
    BY <2>3, <2>4
<1>10. ASSUME Cancellation PROVE lifecycle'[o].status \in Good
  <2>1. UNCHANGED <<activity, attempts, trader>>
    BY <1>10 DEF Cancellation, RequestCancel, CancelAccepted, CancelFailed,
       SavePendingCancel, storeVars
  <2>2. broker[o][n].state = "open"
    <3>1. BrokerMove(o, n)
      BY BrokerMoves
    <3>2. trader.pc = "handoff" => trader' # Idle /\ trader' # [trader EXCEPT !.pc = "save"]
      BY <2>1 DEF Idle, TypeOK, TraderStates
    <3> QED
      BY <3>1, <3>2 DEF BrokerMove, Standing
  <2>3. Standing(o, n)
    BY <2>1, <2>2 DEF Standing, Submitting
  <2>4. CASE SavePendingCancel /\ canceler.order = o
    <3>1. /\ canceler.pc = "save" /\ canceler.attempt \in Attempts
          /\ canceler.attempt = activity[o]
          /\ broker[o][canceler.attempt].state # "open"
      BY <1>1, <2>4, CancelerType DEF SavePendingCancel, TypeOK, HandlersFit
    <3> QED
      BY <1>1, <2>3, <3>1, AttemptsPositive DEF Standing, Submitting, HandlersFit
  <2>5. CASE ~(SavePendingCancel /\ canceler.order = o)
    <3>1. lifecycle'[o] = lifecycle[o]
      BY <1>10, <2>5 DEF Cancellation, RequestCancel, CancelAccepted, CancelFailed,
         SavePendingCancel, storeVars, TypeOK
    <3> QED
      BY <1>3, <2>3, <3>1
  <2> QED
    BY <2>4, <2>5
<1>11. ASSUME Broker \/ UNCHANGED vars PROVE lifecycle'[o].status \in Good
  <2>1. UNCHANGED <<activity, attempts, trader, lifecycle>>
    BY <1>11 DEF Broker, BrokerAcknowledges, BrokerCancels, BrokerRejects, BrokerFills,
       BrokerOnly, storeVars, vars
  <2>2. broker[o][n].state = "open"
    <3>1. BrokerMove(o, n)
      BY BrokerMoves
    <3>2. trader.pc = "handoff" => trader' # Idle /\ trader' # [trader EXCEPT !.pc = "save"]
      BY <2>1 DEF Idle, TypeOK, TraderStates
    <3> QED
      BY <3>1, <3>2 DEF BrokerMove, Standing
  <2> QED
    BY <1>3, <2>1, <2>2 DEF Standing, Submitting
<1> QED
  BY <1>0, <1>4, <1>5, <1>6, <1>7, <1>8, <1>9, <1>10, <1>11 DEF Next, Submission

LEMMA OpenStep ==
  ASSUME TypeOK, LedgerInv, BookInv, OpenInv, [Next]_vars
  PROVE  OpenInv'
BY HandlersStep, SoleStep, StandingStep DEF OpenInv

LEMMA OpenInvariant == Spec => []OpenInv
<1>1. TypeOK /\ LedgerInv /\ BookInv /\ OpenInv /\ [Next]_vars => OpenInv'
  BY OpenStep
<1> QED
  BY <1>1, OpenInit, CoverInvariant, TypeCorrect, LedgerInvariant, PTL DEF Spec

\* What an open order that is not submitted again can be: its cancel can be
\* requested.
LEMMA OpenCanBeCanceled ==
  ASSUME TypeOK, BookInv, OpenInv, FillsWithinOrder, LifecycleNotAheadOfBroker, NoFault,
         NEW o \in Orders, activity[o] # 0, broker[o][activity[o]].state = "open",
         ~(attempts[o] > activity[o])
  PROVE  CanMarkPendingCancel(lifecycle[o])
<1>1. activity[o] \in Attempts /\ attempts[o] \in Nat /\ activity[o] \in Nat
  BY BoundsAssumption DEF TypeOK, Attempts
<1>2. attempts[o] = activity[o]
  BY <1>1 DEF BookInv, PlacedOnce
<1>3. lifecycle[o].status \in {"working", "partially_filled", "filled"}
  BY <1>1, <1>2 DEF OpenInv, StandingFits, Standing
<1>4. lifecycle[o].status # "filled"
  <2> SUFFICES ASSUME lifecycle[o].status = "filled" PROVE FALSE
    OBVIOUS
  <2>1. lifecycle[o].filled = Quantity[o] /\ Quantity[o] \in Nat \ {0}
    BY QuantityAssumption DEF FillsWithinOrder, LifecycleConsistent
  <2>2. Quantity[o] =< broker[o][activity[o]].filled
    BY <2>1 DEF LifecycleNotAheadOfBroker, NoFault
  <2>3. broker[o][activity[o]].filled < Quantity[o]
    BY <1>1 DEF OpenInv, HandlersFit, Live
  <2>4. broker[o][activity[o]].filled \in Nat
    BY <1>1, QuantityAssumption DEF TypeOK
  <2> QED
    BY <2>1, <2>2, <2>3, <2>4
<1> QED
  BY <1>3, <1>4 DEF CanMarkPendingCancel
=============================================================================
