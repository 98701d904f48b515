---------------------------- MODULE HaltedTrading ----------------------------
(***************************************************************************)
(* The operator's kill switch around the order path of OrderFlow:          *)
(*                                                                         *)
(*   - OrderGatewayService.submit reads the switch and only then hands the *)
(*     order to OrderSubmissionService.submit;                             *)
(*   - KillSwitchService.activate and clear rewrite the switch's file;     *)
(*   - KillSwitchEnforcementService.cancel_working_orders goes through the *)
(*     activity log and requests a cancel for every working order.         *)
(*                                                                         *)
(* A gateway that blocks changes no state, so only admissions are steps.   *)
(* The operator's commands run beside the trading process: the module is   *)
(* instantiated with Overlap TRUE.                                         *)
(***************************************************************************)
EXTENDS OrderFlow

ASSUME OperatorAssumption == Overlap = TRUE

VARIABLES
  haltFile,   \* kill_switch.json: the state it holds, or "torn"
  operator,   \* the operator command in progress
  gateway,    \* the order the gateway has admitted and not yet handed on
  sweep,      \* the cancel sweep in progress, or its outcome
  halted,     \* an activation was completed, and no clear since (history)
  leaked      \* orders sent to the broker since then (history)

haltVars == <<haltFile, operator, gateway, sweep, halted, leaked>>
allVars == <<vars, haltVars>>

HaltStates == {"inactive", "active"}

OperatorStates == {Idle} \cup [pc : {"write"}, state : HaltStates]

GatewayStates == {Idle} \cup [pc : {"admitted"}, order : Orders]

\* todo: the recorded orders still to visit.  inflight and halted say in which
\* state the sweep found the system: the orders on their way to the broker,
\* and whether trading has been halted since.
SweepStates ==
  {Idle} \cup [pc : {"running"}, todo : SUBSET Orders, failed : SUBSET Orders,
               inflight : SUBSET Orders, halted : BOOLEAN]
         \cup [pc : {"done"}, todo : {{}}, failed : SUBSET Orders,
               inflight : SUBSET Orders, halted : BOOLEAN]

HInit ==
  /\ Init
  /\ haltFile = "inactive"
  /\ operator = Idle
  /\ gateway = Idle
  /\ sweep = Idle
  /\ halted = FALSE
  /\ leaked = 0

-----------------------------------------------------------------------------
(* The operator.  The file is rewritten in place, so that it cannot be     *)
(* decoded between the start and the end of a write.                       *)

StartWrite(state) ==
  /\ operator = Idle
  /\ operator' = [pc |-> "write", state |-> state]
  /\ haltFile' = "torn"
  /\ UNCHANGED <<vars, gateway, sweep, halted, leaked>>

Activate == StartWrite("active")

\* Clearing loads the previous state first and raises when it cannot.
Clear == haltFile # "torn" /\ StartWrite("inactive")

FinishWrite ==
  /\ operator.pc = "write"
  /\ haltFile' = operator.state
  /\ operator' = Idle
  /\ halted' = (operator.state = "active")
  /\ leaked' = IF halted THEN leaked ELSE 0
  /\ sweep' = IF sweep = Idle THEN sweep
              ELSE [sweep EXCEPT !.halted = @ /\ operator.state = "active"]
  /\ UNCHANGED <<vars, gateway>>

-----------------------------------------------------------------------------
(* The gateway and the submission behind it.                               *)

\* Mutant: a file that cannot be decoded does not block the order.
AdmitUnlessActive(o) ==
  /\ gateway = Idle /\ trader = Idle
  /\ attempts[o] < MaxAttempts
  /\ haltFile # "active"
  /\ gateway' = [pc |-> "admitted", order |-> o]
  /\ UNCHANGED <<vars, haltFile, operator, sweep, halted, leaked>>

\* An active switch, one that cannot be loaded, a negative readiness result and
\* a missing live-trading activation block the order.
Admit(o) ==
  /\ gateway = Idle /\ trader = Idle
  /\ attempts[o] < MaxAttempts
  /\ haltFile = "inactive"
  /\ gateway' = [pc |-> "admitted", order |-> o]
  /\ UNCHANGED <<vars, haltFile, operator, sweep, halted, leaked>>

\* The risk check of the admitted order.
Decide ==
  /\ gateway.pc = "admitted"
  /\ RiskReject(gateway.order) \/ RiskApprove(gateway.order)
  /\ gateway' = Idle
  /\ UNCHANGED <<haltFile, operator, sweep, halted, leaked>>

\* The order is handed to the broker, whatever becomes of it there.
HandOff ==
  /\ HandoffAccepted \/ HandoffRefused \/ HandoffReplyLost \/ HandoffTimeout
  /\ leaked' = IF halted THEN leaked + 1 ELSE leaked
  /\ UNCHANGED <<haltFile, operator, gateway, sweep, halted>>

-----------------------------------------------------------------------------
(* The sweep.  Requesting a cancel is OrderFlow's: load the lifecycle, ask  *)
(* the broker, save pending_cancel.                                        *)

OnTheirWay ==
  {o \in Orders : \/ gateway.pc = "admitted" /\ gateway.order = o
                  \/ trader # Idle /\ trader.order = o}

StartSweep ==
  /\ sweep.pc # "running"
  /\ canceler = Idle
  /\ sweep' = [pc |-> "running", todo |-> {o \in Orders : activity[o] # 0},
               failed |-> {}, inflight |-> OnTheirWay, halted |-> halted]
  /\ UNCHANGED <<vars, haltFile, operator, gateway, halted, leaked>>

\* Mutant: partially filled orders are not candidates.
VisitUnfilled(o) ==
  /\ sweep.pc = "running" /\ canceler = Idle
  /\ o \in sweep.todo
  /\ sweep' = [sweep EXCEPT !.todo = @ \ {o}]
  /\ \/ lifecycle[o].status = "working" /\ RequestCancel(o)
     \/ lifecycle[o].status # "working" /\ UNCHANGED vars
  /\ UNCHANGED <<haltFile, operator, gateway, halted, leaked>>

\* The next record: its lifecycle is loaded, and the cancel requested when it
\* is working or partially filled.
Visit(o) ==
  /\ sweep.pc = "running" /\ canceler = Idle
  /\ o \in sweep.todo
  /\ sweep' = [sweep EXCEPT !.todo = @ \ {o}]
  /\ \/ RequestCancel(o)
     \/ ~CanMarkPendingCancel(lifecycle[o]) /\ UNCHANGED vars
  /\ UNCHANGED <<haltFile, operator, gateway, halted, leaked>>

CancelGoesThrough ==
  /\ CancelAccepted \/ SavePendingCancel
  /\ UNCHANGED haltVars

\* The broker reports an error, which the sweep counts ...
CancelIsRefused ==
  /\ CancelFailed
  /\ sweep' = [sweep EXCEPT !.failed = @ \cup {canceler.order}]
  /\ UNCHANGED <<haltFile, operator, gateway, halted, leaked>>

\* ... or an error no adapter translates, which ends the sweep.
CancelRaises ==
  /\ CancelFailed
  /\ sweep' = Idle
  /\ UNCHANGED <<haltFile, operator, gateway, halted, leaked>>

FinishSweep ==
  /\ sweep.pc = "running" /\ sweep.todo = {} /\ canceler = Idle
  /\ sweep' = [sweep EXCEPT !.pc = "done"]
  /\ UNCHANGED <<vars, haltFile, operator, gateway, halted, leaked>>

-----------------------------------------------------------------------------
(* The rest of the order path, and crashes.                                *)

Unswitched ==
  /\ SaveWorking \/ RecordSubmission \/ UpdateHandling \/ Broker
  /\ UNCHANGED haltVars

CrashAll ==
  /\ Crash \/ CrashInSavePositions
  /\ operator' = Idle
  /\ gateway' = Idle
  /\ sweep' = Idle
  /\ UNCHANGED <<haltFile, halted, leaked>>

Sweeping ==
  \/ StartSweep \/ CancelGoesThrough \/ CancelIsRefused \/ CancelRaises
  \/ FinishSweep \/ \E o \in Orders : Visit(o)

HNext ==
  \/ Activate \/ Clear \/ FinishWrite
  \/ (\E o \in Orders : Admit(o)) \/ Decide \/ HandOff
  \/ Sweeping \/ Unswitched \/ CrashAll

HSpec == HInit /\ [][HNext]_allVars

-----------------------------------------------------------------------------
\* The types of the variables this module adds.
HTypeOK ==
  /\ haltFile \in HaltStates \cup {"torn"}
  /\ operator \in OperatorStates
  /\ gateway \in GatewayStates
  /\ sweep \in SweepStates
  /\ halted \in BOOLEAN
  /\ leaked \in Nat

\* From a completed activation to the next completed clear at most one order is
\* handed to the broker, the one the gateway had admitted before: through
\* repeated activations, a clear that is still being written, and crashes in
\* the middle of either.
HaltLeaksOneOrder == halted => leaked =< 1

\* The broker order recorded for o is working and nobody asked to cancel it.
LeftOpen(o) == activity[o] # 0 /\ broker[o][activity[o]].state = "open"

\* Without crashes and lost replies, a sweep under a halt that still lasts
\* leaves a recorded order open only if its cancel was refused, if it was on
\* its way to the broker when the sweep began, or if its client order ID was
\* submitted a second time (which overwrote its lifecycle).
SweepMissesOnlyInFlight ==
  (sweep.pc = "done" /\ crashes = 0 /\ lost = 0) =>
     \A o \in Orders :
       (sweep.halted /\ LeftOpen(o)) =>
         \/ o \in sweep.failed \cup sweep.inflight
         \/ attempts[o] > activity[o]
=============================================================================
