----------------------------- MODULE IbapiClient -----------------------------
(***************************************************************************)
(* brokers/ibkr/ibapi_client.py: one calling thread makes requests of TWS, *)
(* a reader thread runs the callbacks for what TWS sends, and the two      *)
(* share the fields of the app without a lock.  Each request waits for an  *)
(* event and gives up after a timeout; what TWS sends for it afterwards    *)
(* still arrives.                                                          *)
(*                                                                         *)
(* What a row says is abstracted to the call it was sent for, and for      *)
(* positions to a version of the instrument's position.                    *)
(***************************************************************************)
EXTENDS Integers, Sequences, FiniteSets

CONSTANTS
  Parts,         \* rows of an answer; an answer on positions has one for each
                 \* of the instruments 1..Parts
  MaxConnects,   \* bound
  MaxCalls,      \* bound: calls of the client on a connection
  MaxErrors,     \* bound: errors TWS sends on a connection
  MaxMoves       \* bound: changes of positions at the broker

ASSUME PartsAssumption == Parts \in Nat \ {0}

VARIABLES
  \* The fields of the app.
  nextRequestId, nextOrderId, orderIdEvent,
  requests,      \* _account_requests and _historical_requests, whose IDs come
                 \* from one counter
  previews,      \* _order_preview_requests, by order ID
  positionRows, positionEvent,
  requestErrors, \* by ID, of a request or of an order: what it was about
  globalError,
  \* The calling thread.
  call,          \* the call in progress
  outcome,       \* how the last call ended, until the next (history)
  \* TWS.
  greeted,       \* whether it has sent nextValidId on this connection
  serving,       \* requests and orders it has not finished answering
  subscribed,    \* it reports changes of positions
  versions,      \* positions, by instrument
  wire,          \* messages on their way to the reader thread
  errors,        \* errors without a request ID sent on this connection
  \* History.
  placed,        \* the order IDs used, in order
  connects, calls

appVars == <<nextRequestId, nextOrderId, orderIdEvent, requests, previews,
             positionRows, positionEvent, requestErrors, globalError>>
twsVars == <<greeted, serving, subscribed, versions, wire, errors>>
historyVars == <<placed, connects, calls>>
vars == <<appVars, call, outcome, twsVars, historyVars>>

-----------------------------------------------------------------------------
NoOrderId == 0
NoCall == [kind |-> "none"]
NoOutcome == [kind |-> "none"]

Instruments == 1..Parts

\* The IDs of these come from the order ID counter.
OrderKinds == {"order", "preview"}

Put(f, key, value) ==
  [k \in DOMAIN f \cup {key} |-> IF k = key THEN value ELSE f[k]]

FreshApp ==
  /\ nextRequestId' = 1
  /\ nextOrderId' = NoOrderId
  /\ orderIdEvent' = FALSE
  /\ requests' = << >>
  /\ previews' = << >>
  /\ positionRows' = << >>
  /\ positionEvent' = FALSE
  /\ requestErrors' = << >>
  /\ globalError' = FALSE

Init ==
  /\ nextRequestId = 1
  /\ nextOrderId = NoOrderId
  /\ orderIdEvent = FALSE
  /\ requests = << >>
  /\ previews = << >>
  /\ positionRows = << >>
  /\ positionEvent = FALSE
  /\ requestErrors = << >>
  /\ globalError = FALSE
  /\ call = NoCall
  /\ outcome = NoOutcome
  /\ greeted = FALSE
  /\ serving = {}
  /\ subscribed = FALSE
  /\ versions = [i \in Instruments |-> 0]
  /\ wire = << >>
  /\ errors = 0
  /\ placed = << >>
  /\ connects = 0
  /\ calls = 0

-----------------------------------------------------------------------------
(* Calls in general.                                                       *)

\* The next call may begin.  Without an app every call but connect raises.
MayCall ==
  /\ call = NoCall
  /\ connects > 0
  /\ calls < MaxCalls
  /\ calls' = calls + 1

\* doomed is history: whether the app held a global error when the call began.
NewCall(kind, id) ==
  [kind |-> kind, id |-> id, serial |-> calls', doomed |-> globalError]

Serve(c) == serving' = serving \cup
              {[kind |-> c.kind, id |-> c.id, serial |-> c.serial, sent |-> 0]}

EndCall(ok, cause, rows) ==
  /\ call' = NoCall
  /\ outcome' = [kind |-> call.kind, call |-> call, ok |-> ok, cause |-> cause,
                 rows |-> rows]

NoCause == [kind |-> "none"]
TimeOut == [kind |-> "timeout"]
Global == [kind |-> "global"]

\* Mutant: any error of a request is raised.
AnyError(id) ==
  IF requestErrors # << >> THEN requestErrors[CHOOSE k \in DOMAIN requestErrors : TRUE]
  ELSE IF globalError THEN Global ELSE NoCause

\* Mutant: only the errors of requests are raised.
RequestErrorOnly(id) ==
  IF id \in DOMAIN requestErrors THEN requestErrors[id] ELSE NoCause

\* _raise_pending_error: the error of that ID, or else the global one.  Nothing
\* removes either.
PendingError(id) ==
  IF id \in DOMAIN requestErrors THEN requestErrors[id]
  ELSE IF globalError THEN Global ELSE NoCause

\* After a timeout a pending error is raised in place of the timeout.
GiveUp(id) ==
  EndCall(FALSE, IF PendingError(id) = NoCause THEN TimeOut ELSE PendingError(id),
          {})

-----------------------------------------------------------------------------
(* Connecting.                                                             *)

\* A new app on a new connection.  An earlier app is dropped with its reader
\* thread: what still arrives for it changes nothing here.
Connect ==
  /\ call = NoCall
  /\ connects < MaxConnects
  /\ connects' = connects + 1
  /\ calls' = 0
  /\ FreshApp
  /\ call' = [NewCall("connect", 0) EXCEPT !.doomed = FALSE]
  /\ greeted' = FALSE
  /\ serving' = {}
  /\ subscribed' = FALSE
  /\ wire' = << >>
  /\ errors' = 0
  /\ outcome' = NoOutcome
  /\ UNCHANGED <<versions, placed>>

\* wait_until_connected looks for errors only after a timeout.
ConnectReturns ==
  /\ call.kind = "connect"
  /\ orderIdEvent
  /\ EndCall(TRUE, NoCause, {})
  /\ UNCHANGED <<appVars, twsVars, historyVars>>

ConnectTimesOut ==
  /\ call.kind = "connect"
  /\ ~orderIdEvent
  /\ GiveUp(-1)
  /\ UNCHANGED <<appVars, twsVars, historyVars>>

-----------------------------------------------------------------------------
(* Account summaries and historical bars: requests with an ID.  The two    *)
(* differ only in what their rows say.                                     *)

\* Mutant: the counter stands still.
SameId(id) == id

IdAfter(id) == id + 1

RequestRows ==
  /\ MayCall
  /\ nextRequestId' = IdAfter(nextRequestId)
  /\ requests' = Put(requests, nextRequestId, [rows |-> {}, event |-> FALSE])
  /\ call' = NewCall("request", nextRequestId)
  /\ Serve(call')
  /\ outcome' = NoOutcome
  /\ UNCHANGED <<nextOrderId, orderIdEvent, previews, positionRows,
                 positionEvent, requestErrors, globalError, greeted,
                 subscribed, versions, wire, errors, placed, connects>>

\* The event is set: by the end of the answer, or by an error.
RequestReturns ==
  /\ call.kind = "request"
  /\ requests[call.id].event
  /\ EndCall(PendingError(call.id) = NoCause, PendingError(call.id),
             requests[call.id].rows)
  /\ UNCHANGED <<appVars, twsVars, historyVars>>

\* The request stays registered, and TWS goes on answering it.
RequestTimesOut ==
  /\ call.kind = "request"
  /\ ~requests[call.id].event
  /\ GiveUp(call.id)
  /\ UNCHANGED <<appVars, twsVars, historyVars>>

-----------------------------------------------------------------------------
(* Positions: one list and one event for all requests.                     *)

ResetRows ==
  /\ MayCall
  /\ positionRows' = << >>
  /\ call' = NewCall("resetting", 0)
  /\ outcome' = NoOutcome
  /\ UNCHANGED <<nextRequestId, nextOrderId, orderIdEvent, requests, previews,
                 positionEvent, requestErrors, globalError, twsVars,
                 placed, connects>>

\* The end of an earlier request has yet to arrive.  A call on positions keeps
\* whether it was so, and the positions at the time (history).
Strays ==
  \/ \E r \in serving : r.kind = "positions"
  \/ \E k \in DOMAIN wire : wire[k].type = "positionEnd"

\* Mutant: the event of the last request is used again.
KeepEvent == positionEvent' = positionEvent

NewEvent == positionEvent' = FALSE

RequestPositions ==
  /\ call.kind = "resetting"
  /\ NewEvent
  /\ call' = [kind |-> "positions", id |-> call.id, serial |-> call.serial,
               doomed |-> call.doomed, strays |-> Strays, since |-> versions]
  /\ Serve(call')
  /\ subscribed' = TRUE
  /\ UNCHANGED <<nextRequestId, nextOrderId, orderIdEvent, requests, previews,
                 positionRows, requestErrors, globalError, outcome, greeted,
                 versions, wire, errors, historyVars>>

\* reqPositions raises.
PositionsNotRequested ==
  /\ call.kind = "resetting"
  /\ NewEvent
  /\ call' = NoCall
  /\ outcome' = [kind |-> "positions", call |-> call, ok |-> FALSE,
                 cause |-> [kind |-> "send"], rows |-> {}]
  /\ UNCHANGED <<nextRequestId, nextOrderId, orderIdEvent, requests, previews,
                 positionRows, requestErrors, globalError, twsVars, historyVars>>

\* On success the subscription is canceled, and what TWS has yet to send of any
\* answer with it.
PositionsReturn ==
  /\ call.kind = "positions"
  /\ positionEvent
  /\ EndCall(PendingError(-1) = NoCause, PendingError(-1), positionRows)
  /\ IF PendingError(-1) = NoCause
     THEN /\ subscribed' = FALSE
          /\ serving' = {r \in serving : r.kind # "positions"}
     ELSE UNCHANGED <<subscribed, serving>>
  /\ UNCHANGED <<appVars, greeted, versions, wire, errors, historyVars>>

PositionsTimeOut ==
  /\ call.kind = "positions"
  /\ ~positionEvent
  /\ GiveUp(-1)
  /\ UNCHANGED <<appVars, twsVars, historyVars>>

-----------------------------------------------------------------------------
(* Orders and margin previews take their IDs from nextValidId.             *)

TakeOrderId ==
  /\ MayCall
  /\ orderIdEvent /\ nextOrderId # NoOrderId
  /\ nextOrderId' = IdAfter(nextOrderId)

\* next_order_id raises: the event is not set in time, or an error set it.
NoOrderIdYet ==
  /\ MayCall
  /\ nextOrderId = NoOrderId
  /\ outcome' = [kind |-> "order", call |-> NewCall("order", 0), ok |-> FALSE,
                 cause |-> [kind |-> "no order ID"], rows |-> {}]
  /\ UNCHANGED <<appVars, call, twsVars, placed, connects>>

\* submit_order returns once the order is sent.
SubmitOrder ==
  /\ TakeOrderId
  /\ placed' = Append(placed, nextOrderId)
  /\ Serve(NewCall("order", nextOrderId))
  /\ outcome' = [kind |-> "order", call |-> NewCall("order", nextOrderId),
                 ok |-> TRUE, cause |-> NoCause, rows |-> {}]
  /\ UNCHANGED <<nextRequestId, orderIdEvent, requests, previews, positionRows,
                 positionEvent, requestErrors, globalError, call, greeted,
                 subscribed, versions, wire, errors, connects>>

PreviewMargin ==
  /\ TakeOrderId
  /\ placed' = Append(placed, nextOrderId)
  /\ call' = NewCall("preview", nextOrderId)
  /\ Serve(call')
  /\ previews' = Put(previews, nextOrderId, [rows |-> {}, event |-> FALSE])
  /\ outcome' = NoOutcome
  /\ UNCHANGED <<nextRequestId, orderIdEvent, requests, positionRows,
                 positionEvent, requestErrors, globalError, greeted,
                 subscribed, versions, wire, errors, connects>>

Forget(id) == previews' = [k \in DOMAIN previews \ {id} |-> previews[k]]

PreviewReturns ==
  /\ call.kind = "preview"
  /\ previews[call.id].event
  /\ EndCall(PendingError(call.id) = NoCause, PendingError(call.id),
             previews[call.id].rows)
  /\ Forget(call.id)
  /\ UNCHANGED <<nextRequestId, nextOrderId, orderIdEvent, requests,
                 positionRows, positionEvent, requestErrors, globalError,
                 twsVars, historyVars>>

PreviewTimesOut ==
  /\ call.kind = "preview"
  /\ ~previews[call.id].event
  /\ GiveUp(call.id)
  /\ Forget(call.id)
  /\ UNCHANGED <<nextRequestId, nextOrderId, orderIdEvent, requests,
                 positionRows, positionEvent, requestErrors, globalError,
                 twsVars, historyVars>>

\* placeOrder, or the function that sends a request, raises: the ID is used up,
\* and nothing is sent.
SendRaises(kind) ==
  /\ \/ kind \in OrderKinds /\ TakeOrderId /\ UNCHANGED <<nextRequestId, requests>>
     \/ /\ kind = "request" /\ MayCall
        /\ nextRequestId' = IdAfter(nextRequestId)
        /\ requests' = Put(requests, nextRequestId, [rows |-> {}, event |-> FALSE])
        /\ UNCHANGED nextOrderId
  /\ outcome' = [kind |-> kind, call |-> NewCall(kind, 0), ok |-> FALSE,
                 cause |-> [kind |-> "send"], rows |-> {}]
  /\ UNCHANGED <<orderIdEvent, previews, positionRows, positionEvent,
                 requestErrors, globalError, call, twsVars, placed, connects>>

-----------------------------------------------------------------------------
(* TWS (external).  It answers a request with its rows and their end, or   *)
(* with an error, or not at all; answers to different requests mix.        *)

Send(message) == wire' = Append(wire, message)

\* Once on a connection, and above every order ID it was sent before.
SendOrderId ==
  /\ connects > 0 /\ ~greeted
  /\ greeted' = TRUE
  /\ Send([type |-> "nextValidId",
           id |-> IF placed = << >> THEN 1 ELSE placed[Len(placed)] + 1])
  /\ UNCHANGED <<appVars, call, outcome, serving, subscribed, versions, errors,
                 historyVars>>

Progress(r) == serving' = (serving \ {r}) \cup {[r EXCEPT !.sent = @ + 1]}

SendRow(r) ==
  /\ r.kind \in {"request", "positions"}
  /\ r.sent < Parts
  /\ Send(IF r.kind = "positions"
          THEN [type |-> "position", instrument |-> r.sent + 1,
                version |-> versions[r.sent + 1]]
          ELSE [type |-> "row", id |-> r.id,
                row |-> [of |-> r.serial, part |-> r.sent + 1]])
  /\ Progress(r)
  /\ UNCHANGED <<appVars, call, outcome, greeted, subscribed, versions, errors,
                 historyVars>>

SendEnd(r) ==
  /\ r.kind \in {"request", "positions"}
  /\ r.sent = Parts
  /\ Send(IF r.kind = "positions" THEN [type |-> "positionEnd"]
          ELSE [type |-> "end", id |-> r.id])
  /\ serving' = serving \ {r}
  /\ UNCHANGED <<appVars, call, outcome, greeted, subscribed, versions, errors,
                 historyVars>>

\* An order, or its preview, is acknowledged with its state, which for a preview
\* holds the margins.
SendOpenOrder(r) ==
  /\ r.kind \in OrderKinds
  /\ Send([type |-> "openOrder", id |-> r.id,
           row |-> [of |-> r.serial, part |-> 1]])
  /\ serving' = serving \ {r}
  /\ UNCHANGED <<appVars, call, outcome, greeted, subscribed, versions, errors,
                 historyVars>>

SendError(r) ==
  /\ r.kind # "positions"
  /\ errors < MaxErrors
  /\ errors' = errors + 1
  /\ Send([type |-> "error", id |-> r.id, about |-> [kind |-> r.kind,
           id |-> r.id, serial |-> r.serial]])
  /\ serving' = serving \ {r}
  /\ UNCHANGED <<appVars, call, outcome, greeted, subscribed, versions,
                 historyVars>>

SendGlobalError ==
  /\ connects > 0 /\ errors < MaxErrors
  /\ errors' = errors + 1
  /\ Send([type |-> "globalError"])
  /\ UNCHANGED <<appVars, call, outcome, greeted, serving, subscribed, versions,
                 historyVars>>

\* A position changes, and subscribers are told.
PositionChanges(i) ==
  /\ versions[i] < MaxMoves
  /\ versions' = [versions EXCEPT ![i] = @ + 1]
  /\ IF subscribed
     THEN Send([type |-> "position", instrument |-> i, version |-> versions'[i]])
     ELSE UNCHANGED wire
  /\ UNCHANGED <<appVars, call, outcome, greeted, serving, subscribed, errors,
                 historyVars>>

-----------------------------------------------------------------------------
(* The reader thread: one callback per message.                            *)

Read(type) == wire # << >> /\ Head(wire).type = type /\ wire' = Tail(wire)

Message == Head(wire)

NextValidId ==
  /\ Read("nextValidId")
  /\ nextOrderId' = Message.id
  /\ orderIdEvent' = TRUE
  /\ UNCHANGED <<nextRequestId, requests, previews, positionRows, positionEvent,
                 requestErrors, globalError>>

\* accountSummary and historicalData.
Row ==
  /\ Read("row")
  /\ requests' = IF Message.id \in DOMAIN requests
                 THEN [requests EXCEPT ![Message.id].rows = @ \cup {Message.row}]
                 ELSE requests
  /\ UNCHANGED <<nextRequestId, nextOrderId, orderIdEvent, previews,
                 positionRows, positionEvent, requestErrors, globalError>>

WakeIn(pending, id) ==
  IF id \in DOMAIN pending THEN [pending EXCEPT ![id].event = TRUE] ELSE pending

\* accountSummaryEnd and historicalDataEnd.
End ==
  /\ Read("end")
  /\ requests' = WakeIn(requests, Message.id)
  /\ UNCHANGED <<nextRequestId, nextOrderId, orderIdEvent, previews,
                 positionRows, positionEvent, requestErrors, globalError>>

Position ==
  /\ Read("position")
  /\ positionRows' = Append(positionRows, [instrument |-> Message.instrument,
                                           version |-> Message.version])
  /\ UNCHANGED <<nextRequestId, nextOrderId, orderIdEvent, requests, previews,
                 positionEvent, requestErrors, globalError>>

PositionEnd ==
  /\ Read("positionEnd")
  /\ positionEvent' = TRUE
  /\ UNCHANGED <<nextRequestId, nextOrderId, orderIdEvent, requests, previews,
                 positionRows, requestErrors, globalError>>

OpenOrder ==
  /\ Read("openOrder")
  /\ previews' = IF Message.id \in DOMAIN previews
                 THEN [previews EXCEPT ![Message.id] =
                         [rows |-> @.rows \cup {Message.row}, event |-> TRUE]]
                 ELSE previews
  /\ UNCHANGED <<nextRequestId, nextOrderId, orderIdEvent, requests,
                 positionRows, positionEvent, requestErrors, globalError>>

\* The error of an ID wakes whatever waits under that ID: a request, a preview.
ErrorOfId ==
  /\ Read("error")
  /\ requestErrors' = Put(requestErrors, Message.id, Message.about)
  /\ requests' = WakeIn(requests, Message.id)
  /\ previews' = WakeIn(previews, Message.id)
  /\ UNCHANGED <<nextRequestId, nextOrderId, orderIdEvent, positionRows,
                 positionEvent, globalError>>

\* Any other error wakes who waits for positions or for an order ID.
ErrorWithoutId ==
  /\ Read("globalError")
  /\ globalError' = TRUE
  /\ positionEvent' = TRUE
  /\ orderIdEvent' = TRUE
  /\ UNCHANGED <<nextRequestId, nextOrderId, requests, previews, positionRows,
                 requestErrors>>

Callback ==
  /\ \/ NextValidId \/ Row \/ End \/ Position \/ PositionEnd \/ OpenOrder
     \/ ErrorOfId \/ ErrorWithoutId
  /\ UNCHANGED <<call, outcome, greeted, serving, subscribed, versions, errors,
                 historyVars>>

-----------------------------------------------------------------------------
Caller ==
  \/ Connect \/ ConnectReturns \/ ConnectTimesOut
  \/ RequestRows \/ RequestReturns \/ RequestTimesOut
  \/ ResetRows \/ RequestPositions \/ PositionsNotRequested \/ PositionsReturn
  \/ PositionsTimeOut \/ NoOrderIdYet \/ SubmitOrder
  \/ PreviewMargin \/ PreviewReturns \/ PreviewTimesOut
  \/ \E kind \in OrderKinds \cup {"request"} : SendRaises(kind)

Tws ==
  \/ SendOrderId \/ SendGlobalError
  \/ \E r \in serving :
       SendRow(r) \/ SendEnd(r) \/ SendOpenOrder(r) \/ SendError(r)
  \/ \E i \in Instruments : PositionChanges(i)

Next == Caller \/ Tws \/ Callback

Spec == Init /\ [][Next]_vars

-----------------------------------------------------------------------------
(* Properties.                                                             *)

\* The types of the variables; the call in progress is registered.
ITypeOK ==
  /\ nextRequestId \in Nat \ {0}
  /\ nextOrderId \in Nat
  /\ DOMAIN requests \subseteq 1..(nextRequestId - 1)
  /\ DOMAIN previews = IF call.kind = "preview" THEN {call.id} ELSE {}
  /\ call.kind = "request" => call.id \in DOMAIN requests
  /\ nextOrderId # NoOrderId => orderIdEvent
  /\ serving \subseteq [kind : {"request", "positions"} \cup OrderKinds,
                        id : Nat, serial : 1..calls, sent : 0..Parts]

\* An account summary, a range of bars or a preview that is returned consists
\* of all the rows TWS sent for that call, and of no row of another: not of
\* what still arrives for calls that were given up, before or meanwhile.
AnswersAreOwnAndComplete ==
  (outcome.kind \in {"request", "preview"} /\ outcome.ok) =>
     outcome.rows =
       [of : {outcome.call.serial},
        part : IF outcome.kind = "preview" THEN {1} ELSE 1..Parts]

\* For each instrument the last of the returned rows, which is what
\* reconciliation goes by, is no older than the request.
LastRow(rows, i) ==
  {k \in DOMAIN rows : /\ rows[k].instrument = i
                       /\ \A l \in DOMAIN rows : rows[l].instrument = i => l =< k}

Current(o) ==
  \A i \in Instruments :
    \E k \in LastRow(o.rows, i) : o.rows[k].version >= o.call.since[i]

\* Positions that are returned incomplete or older than their request were
\* ended by the end of an earlier request, which had been given up.
StalePositionsNeedStrayEnd ==
  (outcome.kind = "positions" /\ outcome.ok /\ ~outcome.call.strays) =>
     Current(outcome)

\* An order ID is sent to TWS once, across previews, orders that were never
\* sent, and connections.
OrderIdsUsedOnce ==
  \A k, l \in DOMAIN placed : k # l => placed[k] # placed[l]

\* A request fails for a reason of its own, for an error without ID, or for
\* the error of an order that happens to have its number (and a preview for
\* that of a request): the two counters share one map of errors.
FailuresExplained ==
  (outcome.kind # "none" /\ ~outcome.ok /\ "serial" \in DOMAIN outcome.cause) =>
     \/ outcome.cause.serial = outcome.call.serial
     \/ /\ outcome.cause.id = outcome.call.id
        /\ outcome.cause.kind \in OrderKinds <=> outcome.kind \notin OrderKinds

\* After an error without ID nothing is answered any more on that connection.
GlobalErrorIsFinal ==
  (outcome.kind \in {"request", "positions", "preview"}
   /\ outcome.call.doomed) => ~outcome.ok

\* A connect that returned has an order ID, or an error has woken it.
ConnectedOrBroken ==
  (outcome.kind = "connect" /\ outcome.ok) =>
     nextOrderId # NoOrderId \/ globalError
=============================================================================
