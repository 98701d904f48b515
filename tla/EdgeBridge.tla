------------------------------ MODULE EdgeBridge ------------------------------
(***************************************************************************)
(* EdgeAuthorizedOrderService: an order proposal is normalized, sent to    *)
(* Sentinel Edge for authorization, validated, handed to the order gateway *)
(* under a client order ID derived from Edge's card, and the outcome is    *)
(* reported back to Edge.  Several callers may execute proposals at the    *)
(* same time; nothing in the service excludes it.                          *)
(*                                                                         *)
(* Edge is external: it answers with any reply of the set Replies.  Behind *)
(* the gateway stand the order submission and the activity log of the      *)
(* module OrderFlow, of which two steps matter here: the order reaches the *)
(* broker if its ID is not among the used IDs of the risk context, and     *)
(* then gets an activity record, with which the ID is used.  The caller    *)
(* hands the context to execute, so it is older than the authorization.    *)
(***************************************************************************)
EXTENDS Integers, FiniteSets

CONSTANTS
  Executors,      \* the callers of execute
  Proposals,      \* the proposals they execute, as records
  Replies,        \* the authorizations Edge may answer with, as records
  Ids,            \* client order IDs
  IdOf,           \* the IDs of position and proposal IDs; they may collide
  None,           \* a field that is absent
  MaxExecutions,  \* bound on the executions started
  MaxClock        \* bound on the clock

ASSUME EdgeAssumption ==
  /\ \A reply \in Replies : reply.position # None => IdOf[reply.position] \in Ids
  /\ \A proposal \in Proposals : proposal.id # None => IdOf[proposal.id] \in Ids

VARIABLES
  clock,     \* the time
  executor,  \* [Executors -> the execution in progress]
  started,   \* the number of executions started
  used,      \* the client order IDs with an activity record
  orders,    \* the orders placed at the broker, with their execution
  told,      \* the feedback Edge has received
  unsent,    \* feedback whose delivery failed, in the audit log only
  faulted    \* executions broken off, or whose broker's reply was lost (history)

vars == <<clock, executor, started, used, orders, told, unsent, faulted>>

Idle == [pc |-> "idle"]

\* An execution: its number, the proposal, the caller's time stamp and the used
\* IDs of its context, and the executions in progress when it began (history);
\* once Edge has answered, the authorization.
Executions ==
  {Idle} \cup [pc : {"authorizing"}, n : Nat, proposal : Proposals, at : Nat,
               seen : SUBSET (Ids \cup Nat), during : SUBSET Nat]
         \cup [pc : {"submitting", "recording", "entered", "rejected"}, n : Nat,
               proposal : Proposals, at : Nat,
               seen : SUBSET (Ids \cup Nat), during : SUBSET Nat, reply : Replies]

Orders == [n : Nat, proposal : Proposals, at : Nat, during : SUBSET Nat,
           reply : Replies]

Feedback == [n : Nat, action : {"entry", "rejected"}]

Init ==
  /\ clock = 0
  /\ executor = [e \in Executors |-> Idle]
  /\ started = 0
  /\ used = {}
  /\ orders = {}
  /\ told = {}
  /\ unsent = {}
  /\ faulted = {}

-----------------------------------------------------------------------------
(* The proposal and the authorization.                                     *)

Side(proposal) == IF proposal.side \in {"buy", "long"} THEN "buy" ELSE "sell"

\* _normalize_proposal raises for anything else.
Normalizable(proposal) ==
  /\ proposal.instrument # None
  /\ proposal.side \in {"buy", "long", "sell", "short"}
  /\ proposal.quantity > 0
  /\ proposal.kind \in {"market", "limit"}
  /\ proposal.kind = "limit" => proposal.limit > 0

EntryEligible == {"armed", "entering", "active"}

Direction(reply) == IF reply.direction = None THEN "long" ELSE reply.direction

\* The tolerance is the configured share of the target, per cent.
TolerancePct == 2

ExceedsTarget(reply, proposal) ==
  /\ proposal.notional > 0 /\ reply.target > 0
  /\ 100 * proposal.notional > reply.target * (100 + TolerancePct)

\* Mutant: an unknown expiry counts, a past one does not.
AcceptsExpired(reply, proposal, at) ==
  /\ reply.contract /\ reply.authorized /\ reply.bot = "sentinel-iron"
  /\ reply.symbol = proposal.instrument
  /\ reply.state \in EntryEligible
  /\ Direction(reply) = (IF Side(proposal) = "buy" THEN "long" ELSE "short")
  /\ ~ExceedsTarget(reply, proposal)
  /\ reply.stop_owner # None => reply.stop_owner = reply.position

\* validate_authorization finds no reason against the reply.  An expiry that is
\* absent or cannot be parsed sets no limit.
Accepts(reply, proposal, at) ==
  /\ reply.contract /\ reply.authorized /\ reply.bot = "sentinel-iron"
  /\ reply.symbol = proposal.instrument
  /\ reply.state \in EntryEligible
  /\ reply.expires # None => reply.expires > at
  /\ Direction(reply) = (IF Side(proposal) = "buy" THEN "long" ELSE "short")
  /\ ~ExceedsTarget(reply, proposal)
  /\ reply.stop_owner # None => reply.stop_owner = reply.position

\* A proposal without an ID gets one made from the time.
ClientOrderId(reply, proposal, n) ==
  IF reply.position # None THEN IdOf[reply.position]
  ELSE IF proposal.id # None THEN IdOf[proposal.id] ELSE n

IdOfExecution(x) == ClientOrderId(x.reply, x.proposal, x.n)

-----------------------------------------------------------------------------
(* An execution.                                                           *)

Begin(e, proposal) ==
  executor' = [executor EXCEPT ![e] =
    [pc |-> "authorizing", n |-> started + 1, proposal |-> proposal, at |-> clock,
     seen |-> used,
     during |-> {executor[f].n : f \in {f \in Executors : executor[f] # Idle}}]]

Execute(e, proposal) ==
  /\ executor[e] = Idle
  /\ started < MaxExecutions
  /\ Normalizable(proposal)
  /\ started' = started + 1
  /\ Begin(e, proposal)
  /\ UNCHANGED <<clock, used, orders, told, unsent, faulted>>

\* Edge cannot be reached or answers with no authorization.
Unauthorized(e) ==
  /\ executor[e].pc = "authorizing"
  /\ executor' = [executor EXCEPT ![e] = Idle]
  /\ UNCHANGED <<clock, started, used, orders, told, unsent, faulted>>

\* A reply with a reason against it ends the execution without feedback.
Answer(e, reply) ==
  /\ executor[e].pc = "authorizing"
  /\ executor' = [executor EXCEPT ![e] =
       IF Accepts(reply, @.proposal, @.at)
       THEN [pc |-> "submitting", n |-> @.n, proposal |-> @.proposal,
             at |-> @.at, seen |-> @.seen, during |-> @.during, reply |-> reply]
       ELSE Idle]
  /\ UNCHANGED <<clock, started, used, orders, told, unsent, faulted>>

Continue(e, pc) == executor' = [executor EXCEPT ![e].pc = pc]

\* The gateway or the risk check blocks the order, or the broker refuses it.
Blocked(e) ==
  /\ executor[e].pc = "submitting"
  /\ Continue(e, "rejected")
  /\ UNCHANGED <<clock, started, used, orders, told, unsent, faulted>>

\* Mutant: the risk check does not look for the ID.
PlaceAnyId(e) ==
  /\ executor[e].pc = "submitting"
  /\ orders' = orders \cup
       {[n |-> executor[e].n, proposal |-> executor[e].proposal,
         at |-> executor[e].at, during |-> executor[e].during,
         reply |-> executor[e].reply]}

\* The order reaches the broker: its ID was not used when the execution began.
Place(e) ==
  /\ executor[e].pc = "submitting"
  /\ IdOfExecution(executor[e]) \notin executor[e].seen
  /\ orders' = orders \cup
       {[n |-> executor[e].n, proposal |-> executor[e].proposal,
         at |-> executor[e].at, during |-> executor[e].during,
         reply |-> executor[e].reply]}

Accepted(e) ==
  /\ Place(e)
  /\ Continue(e, "recording")
  /\ UNCHANGED <<clock, started, used, told, unsent, faulted>>

\* The broker took the order, and the submission reports a rejection.
ReplyLost(e) ==
  /\ Place(e)
  /\ Continue(e, "rejected")
  /\ faulted' = faulted \cup {executor[e].n}
  /\ UNCHANGED <<clock, started, used, told, unsent>>

\* The activity record, with which the ID counts as used.
Record(e) ==
  /\ executor[e].pc = "recording"
  /\ IdOfExecution(executor[e]) \notin used
  /\ used' = used \cup {IdOfExecution(executor[e])}
  /\ Continue(e, "entered")
  /\ UNCHANGED <<clock, started, orders, told, unsent, faulted>>

\* record_submission raises for an ID that has a record by now: the order is at
\* the broker, and execute ends without feedback.
RecordRefused(e) ==
  /\ executor[e].pc = "recording"
  /\ IdOfExecution(executor[e]) \in used
  /\ executor' = [executor EXCEPT ![e] = Idle]
  /\ UNCHANGED <<clock, started, used, orders, told, unsent, faulted>>

FeedbackOf(x) ==
  [n |-> x.n, action |-> IF x.pc = "entered" THEN "entry" ELSE "rejected"]

Tell(e) ==
  /\ executor[e].pc \in {"entered", "rejected"}
  /\ told' = told \cup {FeedbackOf(executor[e])}
  /\ executor' = [executor EXCEPT ![e] = Idle]
  /\ UNCHANGED <<clock, started, used, orders, unsent, faulted>>

\* Mutant: an undelivered feedback is not kept.
DropFeedback(e) ==
  /\ executor[e].pc \in {"entered", "rejected"}
  /\ executor' = [executor EXCEPT ![e] = Idle]
  /\ UNCHANGED <<clock, started, used, orders, told, unsent, faulted>>

\* Feedback that does not get through leaves a line in the audit log.
TellFails(e) ==
  /\ executor[e].pc \in {"entered", "rejected"}
  /\ unsent' = unsent \cup {FeedbackOf(executor[e])}
  /\ executor' = [executor EXCEPT ![e] = Idle]
  /\ UNCHANGED <<clock, started, used, orders, told, faulted>>

\* The operator sends it again with the worker's feedback command.
Resend(feedback) ==
  /\ feedback \in unsent
  /\ told' = told \cup {feedback}
  /\ unsent' = unsent \ {feedback}
  /\ UNCHANGED <<clock, executor, started, used, orders, faulted>>

\* An exception out of the gateway passes through execute, after the order was
\* placed or before; a crash ends the execution anywhere.
BreaksOff(e) ==
  /\ executor[e] # Idle
  /\ executor' = [executor EXCEPT ![e] = Idle]
  /\ faulted' = faulted \cup {executor[e].n}
  /\ Place(e) \/ UNCHANGED orders
  /\ UNCHANGED <<clock, started, used, told, unsent>>

Tick ==
  /\ clock < MaxClock
  /\ clock' = clock + 1
  /\ UNCHANGED <<executor, started, used, orders, told, unsent, faulted>>

Step(e) ==
  \/ \E proposal \in Proposals : Execute(e, proposal)
  \/ \E reply \in Replies : Answer(e, reply)
  \/ Unauthorized(e) \/ Blocked(e) \/ Accepted(e) \/ ReplyLost(e)
  \/ Record(e) \/ RecordRefused(e) \/ Tell(e) \/ TellFails(e) \/ BreaksOff(e)

Next ==
  \/ Tick
  \/ \E e \in Executors : Step(e)
  \/ \E feedback \in unsent : Resend(feedback)

Spec == Init /\ [][Next]_vars

-----------------------------------------------------------------------------
Running(n) == \E e \in Executors : executor[e] # Idle /\ executor[e].n = n

\* Variables keep their types, and an execution has its number for itself.
TypeOK ==
  /\ clock \in Nat /\ started \in Nat
  /\ executor \in [Executors -> Executions]
  /\ used \subseteq Ids \cup Nat
  /\ orders \subseteq Orders
  /\ told \subseteq Feedback /\ unsent \subseteq Feedback
  /\ faulted \subseteq Nat
  /\ \A e \in Executors : executor[e] # Idle => executor[e].n \in 1 .. started
  /\ \A e, f \in Executors :
        (executor[e] # Idle /\ executor[f] # Idle /\ executor[e].n = executor[f].n) => e = f

\* Every order at the broker is one Edge authorized: for Iron and this symbol, in
\* its direction and within its target, under a card that could be entered at
\* the time stamp its execution began with.  It may have expired since.
OrdersAreAuthorized ==
  \A o \in orders :
     /\ o.reply.authorized /\ o.reply.bot = "sentinel-iron"
     /\ o.reply.symbol = o.proposal.instrument
     /\ o.reply.state \in EntryEligible
     /\ (Direction(o.reply) = "long") = (Side(o.proposal) = "buy")
     /\ ~ExceedsTarget(o.reply, o.proposal)
     /\ o.reply.expires # None => o.reply.expires > o.at

\* When a client order ID reaches the broker a second time, the first execution
\* met a fault or was still in progress when the second began: executing a
\* proposal again does not place it again.
RepeatedOrderNeedsFault ==
  \A o, p \in orders :
     (o.n < p.n /\ IdOfExecution(o) = IdOfExecution(p)) =>
        o.n \in faulted \/ o.n \in p.during

Placed(n) == \E o \in orders : o.n = n

Entry(n) == [n |-> n, action |-> "entry"]
Rejection(n) == [n |-> n, action |-> "rejected"]

\* Another execution placed an order under the client order ID of order n.
Repeated(n) ==
  \E o, p \in orders : o.n = n /\ p.n # n /\ IdOfExecution(o) = IdOfExecution(p)

\* When an execution is over and met no fault, Edge has heard of its order as an
\* entry and not as a rejection, or can still be sent the entry again, unless the
\* ID went to the broker twice; and it hears of no entry that is not an order.
EdgeKnowsTheOrders ==
  \A n \in 1 .. started :
     (~Running(n) /\ n \notin faulted /\ ~Repeated(n)) =>
        IF Placed(n) THEN Entry(n) \in told \cup unsent /\ Rejection(n) \notin told
        ELSE Entry(n) \notin told
=============================================================================
