------------------------------ MODULE OrderFlow ------------------------------
(***************************************************************************)
(* The order path of the platform, from an approved intent to the internal *)
(* position ledger:                                                        *)
(*                                                                         *)
(*   - the trader runs OrderSubmissionService.submit and then              *)
(*     OrderActivityTracker.record_submission;                             *)
(*   - the stream handler runs OrderUpdateService.apply and, for a fill,   *)
(*     PositionLedgerService.apply_fill, once per update it is given;      *)
(*   - the canceler runs OrderCancellationService.request_cancel;          *)
(*   - the broker is the environment.                                      *)
(*                                                                         *)
(* The services keep their state in four files, and every write to a file  *)
(* is one action here, so that a crash can fall between any two of them.   *)
(* Between its actions a handler holds what it has read in local state,    *)
(* which a crash loses.                                                    *)
(***************************************************************************)
EXTENDS OrderLifecycle, FiniteSets

CONSTANTS
  Orders,       \* client order IDs
  Quantity,     \* the quantity each order asks for
  MaxQuantity,  \* no order asks for more; keeps the set of fills finite
  MaxAttempts,  \* bound: how often one client order ID is submitted
  MaxCrashes,   \* bound: process crashes
  MaxLost,      \* bound: broker acceptances whose reply never arrives
  Overlap       \* whether one handler may start while another is between steps

ASSUME QuantityAssumption ==
  /\ MaxQuantity \in Nat
  /\ Quantity \in [Orders -> 1..MaxQuantity]

ASSUME BoundsAssumption ==
  /\ MaxAttempts \in Nat
  /\ MaxCrashes \in Nat
  /\ MaxLost \in Nat

ASSUME OverlapAssumption == Overlap \in BOOLEAN

VARIABLES
  lifecycle,      \* order_lifecycles.jsonl: latest lifecycle of each order
  activity,       \* order_activity.jsonl: the attempt each order was recorded
                  \* under (its broker order ID); 0 when it has no record
  positions,      \* positions.json: how often each fill was added to it
  positionsTorn,  \* positions.json was cut off by a crash and cannot be read
  processed,      \* processed_fills.jsonl
  trader,         \* local state of the submission in progress
  stream,         \* local state of the update being applied
  canceler,       \* local state of the cancel request in progress
  broker,         \* the broker's own book, by order and attempt
  published,      \* the updates the broker has published; any of them may be
                  \* delivered, in any order and any number of times
  refused,        \* the updates some delivery of which raised (history)
  attempts,       \* submissions started for each order (history)
  crashes,        \* history
  lost            \* history

storeVars  == <<lifecycle, activity, positions, positionsTorn, processed>>
brokerVars == <<broker, published>>
faultVars  == <<crashes, lost>>
vars == <<storeVars, trader, stream, canceler, brokerVars, refused, attempts,
          faultVars>>

-----------------------------------------------------------------------------
Attempts == 1..MaxAttempts

Lifecycles ==
  [status : Statuses \cup {"unknown"}, filled : 0..MaxQuantity]

\* A fill carries its execution ID, modelled by the broker order it belongs
\* to, the broker's filled quantity before it, and its own quantity.
Fills ==
  {f \in [type : {"fill"}, order : Orders, attempt : Attempts,
          from : 0..MaxQuantity, qty : 1..MaxQuantity] :
     f.from + f.qty =< Quantity[f.order]}

Notices ==
  [type : {"working", "canceled", "rejected"}, order : Orders,
   attempt : Attempts]

Updates == Fills \cup Notices

Idle == [pc |-> "idle"]

TraderStates ==
  {Idle} \cup [pc : {"handoff", "save", "record"}, order : Orders,
               attempt : Attempts]

StreamStates ==
  {Idle} \cup [pc : {"save"}, update : Updates, next : Lifecycles]
         \cup [pc : {"ledger", "append"}, update : Fills, next : Lifecycles]

CancelerStates ==
  {Idle} \cup [pc : {"cancel", "save"}, order : Orders, attempt : Attempts,
               loaded : Lifecycles]

\* A handler may start: the services are called one after the other from one
\* thread, or (Overlap) a stream callback or an operator command runs beside
\* them and sees the files as they are at that moment.
MayStart == Overlap \/ (trader = Idle /\ stream = Idle /\ canceler = Idle)

Init ==
  /\ lifecycle = [o \in Orders |-> Unknown]
  /\ activity = [o \in Orders |-> 0]
  /\ positions = [f \in Fills |-> 0]
  /\ positionsTorn = FALSE
  /\ processed = {}
  /\ trader = Idle
  /\ stream = Idle
  /\ canceler = Idle
  /\ broker = [o \in Orders |-> [n \in Attempts |->
                 [state |-> "none", filled |-> 0]]]
  /\ published = {}
  /\ refused = {}
  /\ attempts = [o \in Orders |-> 0]
  /\ crashes = 0
  /\ lost = 0

-----------------------------------------------------------------------------
(* Submission.                                                             *)

\* Some risk limit refuses the order: its rejection is saved under the client
\* order ID and nothing else happens.  This is also what happens to an ID that
\* is already in the activity log, whatever state its live order is in.
RiskReject(o) ==
  /\ trader = Idle /\ MayStart
  /\ attempts[o] < MaxAttempts
  /\ attempts' = [attempts EXCEPT ![o] = @ + 1]
  /\ lifecycle' = [lifecycle EXCEPT ![o] = MarkRejected(PendingSubmit)]
  /\ UNCHANGED <<activity, positions, positionsTorn, processed, trader, stream,
                 canceler, brokerVars, refused, faultVars>>

\* Mutant: the duplicate-ID check is dropped.
ApproveAnyId(o) ==
  /\ trader = Idle /\ MayStart
  /\ attempts[o] < MaxAttempts
  /\ attempts' = [attempts EXCEPT ![o] = @ + 1]
  /\ trader' = [pc |-> "handoff", order |-> o, attempt |-> attempts[o] + 1]
  /\ UNCHANGED <<storeVars, stream, canceler, brokerVars, refused, faultVars>>

\* Every limit passes; the client order ID is not in the activity snapshot.
RiskApprove(o) ==
  /\ trader = Idle /\ MayStart
  /\ attempts[o] < MaxAttempts
  /\ activity[o] = 0
  /\ attempts' = [attempts EXCEPT ![o] = @ + 1]
  /\ trader' = [pc |-> "handoff", order |-> o, attempt |-> attempts[o] + 1]
  /\ UNCHANGED <<storeVars, stream, canceler, brokerVars, refused, faultVars>>

\* The broker's book gains the order the trader is handing off.
PlaceAtBroker ==
  broker' = [broker EXCEPT ![trader.order][trader.attempt] =
               [state |-> "open", filled |-> 0]]

HandoffAccepted ==
  /\ trader.pc = "handoff"
  /\ PlaceAtBroker
  /\ trader' = [trader EXCEPT !.pc = "save"]
  /\ UNCHANGED <<storeVars, stream, canceler, published, refused, attempts,
                 faultVars>>

\* BrokerSubmissionError: the order is saved as rejected.
HandoffRefused ==
  /\ trader.pc = "handoff"
  /\ lifecycle' = [lifecycle EXCEPT ![trader.order] =
                     MarkRejected(PendingSubmit)]
  /\ trader' = Idle
  /\ UNCHANGED <<activity, positions, positionsTorn, processed, stream,
                 canceler, brokerVars, refused, attempts, faultVars>>

\* The broker accepts, but the connection breaks or the response has no order
\* ID: the adapter reports BrokerSubmissionError for an order that is open.
HandoffReplyLost ==
  /\ trader.pc = "handoff"
  /\ lost < MaxLost
  /\ lost' = lost + 1
  /\ PlaceAtBroker
  /\ lifecycle' = [lifecycle EXCEPT ![trader.order] =
                     MarkRejected(PendingSubmit)]
  /\ trader' = Idle
  /\ UNCHANGED <<activity, positions, positionsTorn, processed, stream,
                 canceler, published, refused, attempts, crashes>>

\* The read of the response times out: TimeoutError is not one of the errors
\* the adapters translate, so it leaves submit and nothing is saved.
HandoffTimeout ==
  /\ trader.pc = "handoff"
  /\ lost < MaxLost
  /\ lost' = lost + 1
  /\ PlaceAtBroker
  /\ trader' = Idle
  /\ UNCHANGED <<storeVars, stream, canceler, published, refused, attempts,
                 crashes>>

SaveWorking ==
  /\ trader.pc = "save"
  /\ lifecycle' = [lifecycle EXCEPT ![trader.order] =
                     MarkWorking(PendingSubmit)]
  /\ trader' = [trader EXCEPT !.pc = "record"]
  /\ UNCHANGED <<activity, positions, positionsTorn, processed, stream,
                 canceler, brokerVars, refused, attempts, faultVars>>

\* record_submission raises when the ID is already recorded; the trader is the
\* only writer of the log and checked the ID, so that branch is never taken.
RecordSubmission ==
  /\ trader.pc = "record"
  /\ activity[trader.order] = 0
  /\ activity' = [activity EXCEPT ![trader.order] = trader.attempt]
  /\ trader' = Idle
  /\ UNCHANGED <<lifecycle, positions, positionsTorn, processed, stream,
                 canceler, brokerVars, refused, attempts, faultVars>>

-----------------------------------------------------------------------------
(* Broker updates.                                                         *)

\* The transition an update asks of a lifecycle: whether it is legal ...
Accepts(lc, u) ==
  \/ u.type = "working" /\ CanMarkWorking(lc)
  \/ u.type = "fill" /\ CanRecordFill(lc, u.qty, Quantity[u.order])
  \/ u.type = "canceled" /\ CanMarkCanceled(lc)
  \/ u.type = "rejected" /\ CanMarkRejected(lc)

\* ... and what it yields.
After(lc, u) ==
  CASE u.type = "working"  -> MarkWorking(lc)
    [] u.type = "fill"     -> RecordFill(lc, u.qty, Quantity[u.order])
    [] u.type = "canceled" -> MarkCanceled(lc)
    [] u.type = "rejected" -> MarkRejected(lc)

\* Mutant: broker order IDs are not compared with the activity record.
AnyBrokerOrder(u) ==
  /\ lifecycle[u.order] # Unknown
  /\ u.type = "fill" => activity[u.order] # 0

\* The checks apply makes before it looks at the transition.  The order's
\* quantity and side come from its activity record, so a fill needs one; any
\* update whose broker order ID differs from the recorded one is refused.
Traceable(u) ==
  /\ lifecycle[u.order] # Unknown
  /\ activity[u.order] \in {0, u.attempt}
  /\ u.type = "fill" => activity[u.order] # 0

\* Mutant: a replayed execution ID is not recognised.
IsNeverDuplicate(u) == FALSE

IsDuplicateFill(u) == u \in processed

\* apply returns the lifecycle unchanged for a duplicate fill, which is a
\* stuttering step; otherwise it computes the new lifecycle ...
ApplyUpdate(u) ==
  /\ u \in published
  /\ stream = Idle /\ MayStart
  /\ Traceable(u)
  /\ ~IsDuplicateFill(u)
  /\ Accepts(lifecycle[u.order], u)
  /\ stream' = [pc |-> "save", update |-> u,
                next |-> After(lifecycle[u.order], u)]
  /\ UNCHANGED <<storeVars, trader, canceler, brokerVars, refused, attempts,
                 faultVars>>

\* ... or raises, and nothing is saved.
RefuseUpdate(u) ==
  /\ u \in published
  /\ stream = Idle /\ MayStart
  /\ \/ ~Traceable(u)
     \/ ~IsDuplicateFill(u) /\ ~Accepts(lifecycle[u.order], u)
  /\ refused' = refused \cup {u}
  /\ UNCHANGED <<storeVars, trader, stream, canceler, brokerVars, attempts,
                 faultVars>>

\* Only a fill goes on to the position ledger.
SaveLifecycle ==
  /\ stream.pc = "save"
  /\ lifecycle' = [lifecycle EXCEPT ![stream.update.order] = stream.next]
  /\ stream' = IF stream.update.type = "fill"
               THEN [stream EXCEPT !.pc = "ledger"] ELSE Idle
  /\ UNCHANGED <<activity, positions, positionsTorn, processed, trader,
                 canceler, brokerVars, refused, attempts, faultVars>>

\* Mutant: the execution ID is appended before the snapshot is saved.
AppendFirst ==
  /\ stream.pc = "ledger"
  /\ ~positionsTorn
  /\ processed' = processed \cup {stream.update}
  /\ stream' = [stream EXCEPT !.pc = "append"]
  /\ UNCHANGED <<lifecycle, activity, positions, positionsTorn, trader,
                 canceler, brokerVars, refused, attempts, faultVars>>

\* apply_fill loads the snapshot, adds the fill and saves the whole snapshot.
\* Its own duplicate check repeats the one apply has made: nobody else appends
\* to the processed fills in between.
SavePositions ==
  /\ stream.pc = "ledger"
  /\ ~positionsTorn
  /\ ~IsDuplicateFill(stream.update)
  /\ positions' = [positions EXCEPT ![stream.update] = @ + 1]
  /\ stream' = [stream EXCEPT !.pc = "append"]
  /\ UNCHANGED <<lifecycle, activity, positionsTorn, processed, trader,
                 canceler, brokerVars, refused, attempts, faultVars>>

\* The snapshot cannot be decoded: the ledger raises, after the lifecycle has
\* already been saved.
RefusePositions ==
  /\ stream.pc = "ledger"
  /\ positionsTorn
  /\ refused' = refused \cup {stream.update}
  /\ stream' = Idle
  /\ UNCHANGED <<storeVars, trader, canceler, brokerVars, attempts, faultVars>>

\* Mutant: the execution ID is never appended.
AppendNothing ==
  /\ stream.pc = "append"
  /\ stream' = Idle
  /\ UNCHANGED <<storeVars, trader, canceler, brokerVars, refused, attempts,
                 faultVars>>

AppendProcessed ==
  /\ stream.pc = "append"
  /\ processed' = processed \cup {stream.update}
  /\ stream' = Idle
  /\ UNCHANGED <<lifecycle, activity, positions, positionsTorn, trader,
                 canceler, brokerVars, refused, attempts, faultVars>>

-----------------------------------------------------------------------------
(* Cancellation.                                                           *)

\* The request names the broker order ID of the activity record.  When the
\* lifecycle cannot move to pending_cancel the service raises: no effect.
RequestCancel(o) ==
  /\ canceler = Idle /\ MayStart
  /\ activity[o] # 0
  /\ CanMarkPendingCancel(lifecycle[o])
  /\ canceler' = [pc |-> "cancel", order |-> o, attempt |-> activity[o],
                  loaded |-> lifecycle[o]]
  /\ UNCHANGED <<storeVars, trader, stream, brokerVars, refused, attempts,
                 faultVars>>

CancelAccepted ==
  /\ canceler.pc = "cancel"
  /\ broker' = [broker EXCEPT ![canceler.order][canceler.attempt] =
                  [state |-> IF @.state = "open" THEN "canceling" ELSE @.state,
                   filled |-> @.filled]]
  /\ canceler' = [canceler EXCEPT !.pc = "save"]
  /\ UNCHANGED <<storeVars, trader, stream, published, refused, attempts,
                 faultVars>>

\* BrokerCancellationError: the lifecycle is returned as it was.
CancelFailed ==
  /\ canceler.pc = "cancel"
  /\ canceler' = Idle
  /\ UNCHANGED <<storeVars, trader, stream, brokerVars, refused, attempts,
                 faultVars>>

\* Mutant: the pending cancel is built from a new lifecycle.
SaveNewPendingCancel ==
  /\ canceler.pc = "save"
  /\ lifecycle' = [lifecycle EXCEPT ![canceler.order] =
                     MarkPendingCancel(PendingSubmit)]
  /\ canceler' = Idle
  /\ UNCHANGED <<activity, positions, positionsTorn, processed, trader, stream,
                 brokerVars, refused, attempts, faultVars>>

\* The pending cancel that is saved was computed from the lifecycle loaded
\* before the broker was called.
SavePendingCancel ==
  /\ canceler.pc = "save"
  /\ lifecycle' = [lifecycle EXCEPT ![canceler.order] =
                     MarkPendingCancel(canceler.loaded)]
  /\ canceler' = Idle
  /\ UNCHANGED <<activity, positions, positionsTorn, processed, trader, stream,
                 brokerVars, refused, attempts, faultVars>>

-----------------------------------------------------------------------------
(* The broker.  It reports what happens to the orders in its book; a cancel *)
(* may also be its own doing (expiry of a day order, a margin call).        *)

Live(o, n) == broker[o][n].state \in {"open", "canceling"}

Publish(type, o, n) ==
  published' = published \cup {[type |-> type, order |-> o, attempt |-> n]}

BrokerOnly == UNCHANGED <<storeVars, trader, stream, canceler, refused,
                          attempts, faultVars>>

BrokerAcknowledges(o, n) ==
  /\ Live(o, n)
  /\ Publish("working", o, n)
  /\ UNCHANGED broker
  /\ BrokerOnly

BrokerFills(o, n, q) ==
  LET filled == broker[o][n].filled IN
  /\ Live(o, n)
  /\ filled + q =< Quantity[o]
  /\ broker' = [broker EXCEPT ![o][n] =
                  [state |-> IF filled + q = Quantity[o] THEN "filled" ELSE @.state,
                   filled |-> filled + q]]
  /\ published' = published \cup
       {[type |-> "fill", order |-> o, attempt |-> n, from |-> filled, qty |-> q]}
  /\ BrokerOnly

BrokerCancels(o, n) ==
  /\ Live(o, n)
  /\ broker' = [broker EXCEPT ![o][n].state = "canceled"]
  /\ Publish("canceled", o, n)
  /\ BrokerOnly

BrokerRejects(o, n) ==
  /\ Live(o, n)
  /\ broker[o][n].filled = 0
  /\ broker' = [broker EXCEPT ![o][n].state = "rejected"]
  /\ Publish("rejected", o, n)
  /\ BrokerOnly

-----------------------------------------------------------------------------
(* A crash loses the handlers' local state; the files survive.  The         *)
(* activity tracker is reloaded from its file on restart.                   *)

Restart ==
  /\ crashes < MaxCrashes
  /\ crashes' = crashes + 1
  /\ trader' = Idle
  /\ stream' = Idle
  /\ canceler' = Idle
  /\ UNCHANGED <<lifecycle, activity, positions, processed, brokerVars, refused,
                 attempts, lost>>

Crash == Restart /\ UNCHANGED positionsTorn

\* positions.json is rewritten in place: a crash during the write leaves a
\* file that is no longer valid JSON.
CrashInSavePositions ==
  /\ stream.pc = "ledger"
  /\ Restart
  /\ positionsTorn' = TRUE

-----------------------------------------------------------------------------
Submission ==
  \/ \E o \in Orders : RiskReject(o) \/ RiskApprove(o)
  \/ HandoffAccepted \/ HandoffRefused \/ HandoffReplyLost \/ HandoffTimeout
  \/ SaveWorking \/ RecordSubmission

UpdateHandling ==
  \/ \E u \in Updates : ApplyUpdate(u) \/ RefuseUpdate(u)
  \/ SaveLifecycle \/ SavePositions \/ RefusePositions \/ AppendProcessed

Cancellation ==
  \/ \E o \in Orders : RequestCancel(o)
  \/ CancelAccepted \/ CancelFailed \/ SavePendingCancel

Broker ==
  \E o \in Orders, n \in Attempts :
    \/ BrokerAcknowledges(o, n) \/ BrokerCancels(o, n) \/ BrokerRejects(o, n)
    \/ \E q \in 1..MaxQuantity : BrokerFills(o, n, q)

Next ==
  \/ Submission \/ UpdateHandling \/ Cancellation \/ Broker
  \/ Crash \/ CrashInSavePositions

Spec == Init /\ [][Next]_vars

-----------------------------------------------------------------------------
(* Properties.                                                             *)

\* The types of the variables.
TypeOK ==
  /\ lifecycle \in [Orders -> Lifecycles]
  /\ activity \in [Orders -> 0..MaxAttempts]
  /\ positions \in [Fills -> Nat]
  /\ positionsTorn \in BOOLEAN
  /\ processed \subseteq Fills
  /\ trader \in TraderStates
  /\ stream \in StreamStates
  /\ canceler \in CancelerStates
  /\ broker \in [Orders -> [Attempts ->
        [state : {"none", "open", "canceling", "filled", "canceled", "rejected"},
         filled : 0..MaxQuantity]]]
  /\ published \subseteq Updates
  /\ refused \subseteq Updates
  /\ attempts \in [Orders -> 0..MaxAttempts]
  /\ crashes \in Nat
  /\ lost \in Nat

\* A persisted lifecycle is filled exactly when its fills add up to the order's
\* quantity, and they never add up to more, whatever is replayed after a crash
\* and whichever handlers overlap.
LifecycleConsistent(o, lc) ==
  /\ lc.filled =< Quantity[o]
  /\ lc.status = "filled" <=> lc.filled = Quantity[o]

FillsWithinOrder == \A o \in Orders : LifecycleConsistent(o, lifecycle[o])

\* An execution ID in the processed-fill store is in the position snapshot:
\* a crash may make the ledger add a fill twice but never lose one it has
\* marked as processed.
ProcessedFillsAreInPositions == \A f \in processed : positions[f] >= 1

\* Every repetition of a fill in the positions is paid for by a crash.
RepeatedFillNeedsCrash == \A f \in Fills : positions[f] =< 1 + crashes

\* The broker orders that were ever placed under a client order ID.
Placed(o) == {n \in Attempts : broker[o][n].state # "none"}

\* A client order ID reaches the broker once; every further broker order under
\* it is paid for by a crash or by an acceptance whose reply was lost, however
\* often the ID is submitted again.
RepeatedHandoffNeedsFault ==
  \A o \in Orders : Cardinality(Placed(o)) =< 1 + crashes + lost

\* Only fills of the broker order that was recorded for the client order ID
\* enter the positions, never those of an earlier broker order under the same
\* ID whose acceptance was lost.
PositionsHoldRecordedFills ==
  \A f \in Fills :
    positions[f] > 0 => /\ f \in published
                        /\ activity[f.order] = f.attempt

\* Without a crash the persisted lifecycle never claims more fills than the
\* broker has executed on the recorded order, even when cancels and duplicate
\* submissions overwrite it in between.
LifecycleNotAheadOfBroker ==
  crashes = 0 =>
    \A o \in Orders :
      lifecycle[o].filled > 0 =>
        /\ activity[o] # 0
        /\ lifecycle[o].filled =< broker[o][activity[o]].filled

\* Single-threaded and without faults: the filled quantity that was persisted
\* for an order is never lowered again.
FillsNotForgotten ==
  [][\A o \in Orders : lifecycle'[o].filled >= lifecycle[o].filled]_vars

\* Without crashes the ledger implements the exactly-once ledger: a fill is
\* added to the positions at most once and only after the broker reported it.
Ledger == INSTANCE FillLedger
            WITH Executions <- Fills, executed <- published \cap Fills,
                 book <- positions

LedgerAddsFillsOnce == Ledger!Spec

\* What the README says of the update service (a fill updates the positions): no
\* fill of a recorded order is turned away.
FillsAreNotRefused ==
  \A f \in Fills : activity[f.order] = f.attempt => f \notin refused

-----------------------------------------------------------------------------
(* Fairness.  A handler that has started runs on, and the broker's stream   *)
(* keeps handing over a cancellation until it could be applied.             *)

Handlers ==
  SaveWorking \/ RecordSubmission \/ SaveLifecycle \/ SavePositions
  \/ AppendProcessed \/ SavePendingCancel

Handing == HandoffAccepted \/ HandoffRefused

Canceling == CancelAccepted \/ CancelFailed

FairSpec ==
  /\ Spec
  /\ WF_vars(Handlers) /\ WF_vars(Handing) /\ WF_vars(Canceling)
  /\ \A o \in Orders, n \in Attempts :
       SF_vars(ApplyUpdate([type |-> "canceled", order |-> o, attempt |-> n]))

\* Once the broker has canceled the recorded order and a cancel request had
\* been persisted, the lifecycle becomes canceled.
CancelSettles ==
  \A o \in Orders :
    ( /\ lifecycle[o].status = "pending_cancel"
      /\ activity[o] # 0 /\ broker[o][activity[o]].state = "canceled" )
      ~> lifecycle[o].status = "canceled"
=============================================================================
