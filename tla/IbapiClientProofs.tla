-------------------------- MODULE IbapiClientProofs --------------------------
(***************************************************************************)
(* Proofs about IbapiClient, for answers of any length and any number of   *)
(* connections, calls, errors and changes of positions.                    *)
(***************************************************************************)
EXTENDS IbapiClient, SequenceTheorems, FiniteSetTheorems, FunctionTheorems, TLAPS

-----------------------------------------------------------------------------
(* Types.                                                                  *)

Abouts == [kind : {"request"} \cup OrderKinds, id : Nat \ {0}, serial : Nat]

Rows == [of : Nat, part : Nat]

Messages ==
  [type : {"nextValidId"}, id : Nat \ {0}]
  \cup [type : {"row", "openOrder"}, id : Nat \ {0}, row : Rows]
  \cup [type : {"end"}, id : Nat \ {0}]
  \cup [type : {"position"}, instrument : Instruments, version : Nat]
  \cup [type : {"error"}, id : Nat \ {0}, about : Abouts]
  \cup [type : {"positionEnd", "globalError"}]

Pending == [rows : SUBSET Rows, event : BOOLEAN]

Calls ==
  [kind : {"connect", "request", "resetting", "preview"}, id : Nat,
   serial : Nat, doomed : BOOLEAN]
  \cup [kind : {"positions"}, id : Nat, serial : Nat, doomed : BOOLEAN,
        strays : BOOLEAN, since : [Instruments -> Nat]]

AppTypes ==
  /\ nextRequestId \in Nat \ {0}
  /\ nextOrderId \in Nat
  /\ orderIdEvent \in BOOLEAN
  /\ requests \in [DOMAIN requests -> Pending]
  /\ DOMAIN requests \subseteq 1..(nextRequestId - 1)
  /\ previews \in [DOMAIN previews -> Pending]
  /\ positionRows \in Seq([instrument : Instruments, version : Nat])
  /\ positionEvent \in BOOLEAN
  /\ requestErrors \in [DOMAIN requestErrors -> Abouts]
  /\ DOMAIN requestErrors \subseteq Nat \ {0}
  /\ globalError \in BOOLEAN
  /\ nextOrderId # NoOrderId => orderIdEvent

CallTypes ==
  /\ call = NoCall \/ call \in Calls
  /\ call.kind \in {"request", "preview"} => call.id # 0
  /\ call.kind = "request" => call.id \in DOMAIN requests
  /\ call.kind = "resetting" => call.serial \in 1..calls
  /\ DOMAIN previews = IF call.kind = "preview" THEN {call.id} ELSE {}

TwsTypes ==
  /\ calls \in Nat
  /\ serving \subseteq [kind : {"request", "positions"} \cup OrderKinds,
                        id : Nat, serial : 1..calls, sent : 0..Parts]
  /\ \A r \in serving : r.kind # "positions" => r.id # 0
  /\ versions \in [Instruments -> Nat]
  /\ wire \in Seq(Messages)
  /\ placed \in Seq(Nat \ {0})

TypeInv == AppTypes /\ CallTypes /\ TwsTypes

LEMMA NothingMapped ==
  ASSUME NEW S
  PROVE  << >> \in [DOMAIN << >> -> S] /\ DOMAIN << >> = {} /\ << >> \in Seq(S)
<1>1. << >> \in Seq(S)
  OBVIOUS
<1> QED
  BY <1>1, LenProperties

LEMMA TypeInit == Init => TypeInv
<1> SUFFICES ASSUME Init PROVE TypeInv
  OBVIOUS
<1>1. AppTypes
  <2>1. << >> \in [DOMAIN << >> -> Pending] /\ << >> \in [DOMAIN << >> -> Abouts]
    BY NothingMapped
  <2>2. << >> \in Seq([instrument : Instruments, version : Nat]) /\ DOMAIN << >> = {}
    BY NothingMapped
  <2>3. requests \in [DOMAIN requests -> Pending] /\ DOMAIN requests \subseteq 1..(nextRequestId - 1)
    BY <2>1, <2>2 DEF Init
  <2>4. previews \in [DOMAIN previews -> Pending]
    BY <2>1 DEF Init
  <2>5. requestErrors \in [DOMAIN requestErrors -> Abouts] /\ DOMAIN requestErrors \subseteq Nat \ {0}
    BY <2>1, <2>2 DEF Init
  <2>6. positionRows \in Seq([instrument : Instruments, version : Nat])
    BY <2>2 DEF Init
  <2>7. /\ nextRequestId \in Nat \ {0} /\ nextOrderId \in Nat
        /\ nextOrderId = NoOrderId
    BY DEF Init, NoOrderId
  <2>8. /\ orderIdEvent \in BOOLEAN /\ positionEvent \in BOOLEAN
        /\ globalError \in BOOLEAN
    BY Zenon DEF Init
  <2> QED
    BY <2>3, <2>4, <2>5, <2>6, <2>7, <2>8 DEF AppTypes
<1>2. CallTypes
  BY DEF Init, CallTypes, NoCall
<1>3. TwsTypes
  BY DEF Init, TwsTypes
<1> QED
  BY <1>1, <1>2, <1>3 DEF TypeInv

\* Removing a message, or adding one, keeps the type of the wire.
LEMMA ReadTypes ==
  ASSUME TypeInv, NEW type, Read(type)
  PROVE  /\ Message \in Messages
         /\ Message.type = type
         /\ wire # << >>
         /\ wire' = Tail(wire)
         /\ wire' \in Seq(Messages)
BY DEF TypeInv, TwsTypes, Read, Message

LEMMA SendTypes ==
  ASSUME TypeInv, NEW m \in Messages, Send(m)
  PROVE  wire' \in Seq(Messages)
BY DEF TypeInv, TwsTypes, Send

\* A callback changes the app and the wire alone.
LEMMA CallbackTypes == TypeInv /\ Callback => TypeInv'
<1> SUFFICES ASSUME TypeInv, Callback PROVE TypeInv'
  OBVIOUS
<1> USE DEF TypeInv
<1>1. wire' \in Seq(Messages) /\ UNCHANGED <<call, calls, serving, versions, placed>>
  BY ReadTypes DEF Callback, NextValidId, Row, End, Position, PositionEnd,
     OpenOrder, ErrorOfId, ErrorWithoutId, historyVars
<1>2. TwsTypes'
  BY <1>1 DEF TwsTypes
<1>3. AppTypes' /\ DOMAIN requests' = DOMAIN requests /\ DOMAIN previews' = DOMAIN previews
  <2>1. CASE NextValidId
    BY <2>1, ReadTypes DEF NextValidId, AppTypes, Messages
  <2>2. CASE Row
    <3>1. Message.row \in Rows
      BY <2>2, ReadTypes DEF Row, Messages
    <3>2. /\ requests' \in [DOMAIN requests -> Pending]
          /\ DOMAIN requests' = DOMAIN requests
      BY <2>2, <3>1 DEF Row, AppTypes, Pending
    <3> QED
      BY <2>2, <3>2 DEF Row, AppTypes
  <2>3. CASE End
    <3>1. /\ requests' \in [DOMAIN requests -> Pending]
          /\ DOMAIN requests' = DOMAIN requests
      BY <2>3 DEF End, WakeIn, AppTypes, Pending
    <3> QED
      BY <2>3, <3>1 DEF End, AppTypes
  <2>4. CASE Position
    <3>1. Message.instrument \in Instruments /\ Message.version \in Nat
      BY <2>4, ReadTypes DEF Position, Messages
    <3> QED
      BY <2>4, <3>1 DEF Position, AppTypes
  <2>5. CASE PositionEnd
    BY <2>5 DEF PositionEnd, AppTypes
  <2>6. CASE OpenOrder
    <3>1. Message.row \in Rows
      BY <2>6, ReadTypes DEF OpenOrder, Messages
    <3>2. /\ previews' \in [DOMAIN previews -> Pending]
          /\ DOMAIN previews' = DOMAIN previews
      BY <2>6, <3>1 DEF OpenOrder, AppTypes, Pending
    <3> QED
      BY <2>6, <3>2 DEF OpenOrder, AppTypes
  <2>7. CASE ErrorOfId
    <3>1. Message.id \in Nat \ {0} /\ Message.about \in Abouts
      BY <2>7, ReadTypes DEF ErrorOfId, Messages
    <3>2. /\ requests' \in [DOMAIN requests -> Pending]
          /\ DOMAIN requests' = DOMAIN requests
          /\ previews' \in [DOMAIN previews -> Pending]
          /\ DOMAIN previews' = DOMAIN previews
      BY <2>7 DEF ErrorOfId, WakeIn, AppTypes, Pending
    <3>3. /\ requestErrors' \in [DOMAIN requestErrors' -> Abouts]
          /\ DOMAIN requestErrors' \subseteq Nat \ {0}
      BY <2>7, <3>1 DEF ErrorOfId, Put, AppTypes
    <3> QED
      BY <2>7, <3>2, <3>3 DEF ErrorOfId, AppTypes
  <2>8. CASE ErrorWithoutId
    BY <2>8 DEF ErrorWithoutId, AppTypes
  <2> QED
    BY <2>1, <2>2, <2>3, <2>4, <2>5, <2>6, <2>7, <2>8 DEF Callback
<1>4. CallTypes'
  BY <1>1, <1>3 DEF CallTypes
<1> QED
  BY <1>2, <1>3, <1>4

LEMMA FreshTypes ==
  ASSUME FreshApp
  PROVE  /\ AppTypes'
         /\ DOMAIN requests' = {} /\ DOMAIN previews' = {}
<1>1. << >> \in [DOMAIN << >> -> Pending] /\ << >> \in [DOMAIN << >> -> Abouts]
  BY NothingMapped
<1>2. << >> \in Seq([instrument : Instruments, version : Nat]) /\ DOMAIN << >> = {}
  BY NothingMapped
<1>3. /\ requests' \in [DOMAIN requests' -> Pending] /\ DOMAIN requests' = {}
      /\ previews' \in [DOMAIN previews' -> Pending] /\ DOMAIN previews' = {}
      /\ requestErrors' \in [DOMAIN requestErrors' -> Abouts]
      /\ DOMAIN requestErrors' = {}
      /\ positionRows' \in Seq([instrument : Instruments, version : Nat])
  BY <1>1, <1>2 DEF FreshApp
<1>4. /\ nextRequestId' \in Nat \ {0} /\ nextOrderId' \in Nat
      /\ nextOrderId' = NoOrderId
  BY DEF FreshApp, NoOrderId
<1>5. /\ orderIdEvent' \in BOOLEAN /\ positionEvent' \in BOOLEAN
      /\ globalError' \in BOOLEAN
  BY Zenon DEF FreshApp
<1> QED
  BY <1>3, <1>4, <1>5 DEF AppTypes

LEMMA ConnectTypes == TypeInv /\ Connect => TypeInv'
<1> SUFFICES ASSUME TypeInv, Connect PROVE TypeInv'
  OBVIOUS
<1>1. AppTypes' /\ DOMAIN requests' = {} /\ DOMAIN previews' = {}
  BY FreshTypes DEF Connect
<1>2. call' \in Calls /\ call'.kind = "connect"
  BY DEF Connect, NewCall, Calls
<1>3. CallTypes'
  BY <1>1, <1>2 DEF CallTypes
<1>4. wire' \in Seq(Messages)
  BY NothingMapped DEF Connect
<1>5. TwsTypes'
  BY <1>4 DEF Connect, TwsTypes, TypeInv
<1> QED
  BY <1>1, <1>3, <1>5 DEF TypeInv

\* Ending a call changes the call alone; a preview is forgotten with it.
LEMMA EndTypes ==
  ASSUME TypeInv,
         call' = NoCall, UNCHANGED <<nextRequestId, nextOrderId, orderIdEvent,
           requests, positionRows, positionEvent, requestErrors, globalError>>,
         \/ call.kind # "preview" /\ UNCHANGED previews
         \/ call.kind = "preview" /\ Forget(call.id),
         serving' \subseteq serving,
         UNCHANGED <<calls, versions, wire, placed>>
  PROVE  TypeInv'
<1>1. DOMAIN previews' = {} /\ previews' \in [DOMAIN previews' -> Pending]
  BY DEF TypeInv, AppTypes, CallTypes, Forget
<1>2. AppTypes'
  BY <1>1 DEF TypeInv, AppTypes
<1>3. CallTypes'
  BY <1>1 DEF CallTypes, NoCall
<1>4. TwsTypes'
  BY DEF TypeInv, TwsTypes
<1> QED
  BY <1>2, <1>3, <1>4 DEF TypeInv

\* What a new call adds to serving.
LEMMA ServeTypes ==
  ASSUME TypeInv, calls' = calls + 1, NEW c, Serve(c),
         c.kind \in {"request", "positions"} \cup OrderKinds,
         c.id \in Nat, c.serial = calls', c.kind # "positions" => c.id # 0
  PROVE  /\ serving' \subseteq [kind : {"request", "positions"} \cup OrderKinds,
                                id : Nat, serial : 1..calls', sent : 0..Parts]
         /\ \A r \in serving' : r.kind # "positions" => r.id # 0
BY PartsAssumption DEF TypeInv, TwsTypes, Serve

LEMMA ReturnTypes ==
  TypeInv /\ (\/ ConnectReturns \/ ConnectTimesOut \/ RequestReturns
              \/ RequestTimesOut \/ PositionsReturn \/ PositionsTimeOut
              \/ PreviewReturns \/ PreviewTimesOut)
    => TypeInv'
<1> USE DEF EndCall, GiveUp, appVars, twsVars, historyVars
<1>1. ASSUME TypeInv, \/ ConnectReturns \/ ConnectTimesOut \/ RequestReturns
                      \/ RequestTimesOut \/ PositionsTimeOut
      PROVE  TypeInv'
  <2>1. /\ call' = NoCall /\ call.kind # "preview"
        /\ UNCHANGED <<appVars, serving, calls, versions, wire, placed>>
    BY <1>1 DEF ConnectReturns, ConnectTimesOut, RequestReturns, RequestTimesOut,
       PositionsTimeOut
  <2> QED
    BY <1>1, <2>1, EndTypes
<1>2. ASSUME TypeInv, PositionsReturn PROVE TypeInv'
  <2>1. /\ call' = NoCall /\ call.kind # "preview"
        /\ UNCHANGED <<appVars, calls, versions, wire, placed>>
        /\ serving' \subseteq serving
    BY <1>2 DEF PositionsReturn
  <2> QED
    BY <1>2, <2>1, EndTypes
<1>3. ASSUME TypeInv, PreviewReturns \/ PreviewTimesOut PROVE TypeInv'
  <2>1. /\ call' = NoCall /\ call.kind = "preview" /\ Forget(call.id)
        /\ UNCHANGED <<nextRequestId, nextOrderId, orderIdEvent, requests,
                       positionRows, positionEvent, requestErrors, globalError>>
        /\ UNCHANGED <<serving, calls, versions, wire, placed>>
    BY <1>3 DEF PreviewReturns, PreviewTimesOut
  <2> QED
    BY <1>3, <2>1, EndTypes
<1> QED
  BY <1>1, <1>2, <1>3

LEMMA NewCallTypes ==
  ASSUME TypeInv, calls' \in Nat,
         NEW kind \in {"connect", "request", "resetting", "preview"}, NEW id \in Nat
  PROVE  /\ NewCall(kind, id) \in Calls
         /\ NewCall(kind, id).kind = kind
         /\ NewCall(kind, id).id = id
         /\ NewCall(kind, id).serial = calls'
BY DEF NewCall, Calls, TypeInv, AppTypes

LEMMA RequestTypes == TypeInv /\ (RequestRows \/ SendRaises("request")) => TypeInv'
<1> SUFFICES ASSUME TypeInv, RequestRows \/ SendRaises("request") PROVE TypeInv'
  OBVIOUS
<1>1. /\ call = NoCall /\ calls' = calls + 1 /\ calls' \in Nat
      /\ nextRequestId' = nextRequestId + 1
      /\ requests' = Put(requests, nextRequestId, [rows |-> {}, event |-> FALSE])
      /\ UNCHANGED <<nextOrderId, orderIdEvent, previews, positionRows,
                     positionEvent, requestErrors, globalError, versions, wire,
                     placed>>
  BY DEF RequestRows, SendRaises, MayCall, IdAfter, OrderKinds, TypeInv, TwsTypes,
     twsVars
<1>2. [rows |-> {}, event |-> FALSE] \in Pending
  BY DEF Pending
<1>3. /\ requests' \in [DOMAIN requests' -> Pending]
      /\ DOMAIN requests' = DOMAIN requests \cup {nextRequestId}
      /\ DOMAIN requests' \subseteq 1..(nextRequestId' - 1)
      /\ nextRequestId' \in Nat \ {0}
  BY <1>1, <1>2 DEF Put, TypeInv, AppTypes
<1>4. AppTypes'
  BY <1>1, <1>3 DEF TypeInv, AppTypes
<1>5. CASE RequestRows
  <2>1. call' = NewCall("request", nextRequestId) /\ Serve(call')
    BY <1>5 DEF RequestRows
  <2>2. /\ call' \in Calls /\ call'.kind = "request"
        /\ call'.id = nextRequestId /\ call'.serial = calls'
    BY <1>1, <2>1 DEF NewCall, Calls, TypeInv, AppTypes
  <2>3. CallTypes'
    BY <1>1, <1>3, <2>2 DEF CallTypes, TypeInv, AppTypes, NoCall
  <2>4. TwsTypes'
    BY <1>1, <2>1, <2>2, ServeTypes DEF TypeInv, TwsTypes, AppTypes
  <2> QED
    BY <1>4, <2>3, <2>4 DEF TypeInv
<1>6. CASE SendRaises("request")
  <2>1. UNCHANGED <<call, serving>>
    BY <1>6 DEF SendRaises, twsVars
  <2>2. CallTypes'
    BY <1>1, <2>1 DEF CallTypes, TypeInv, NoCall
  <2>3. TwsTypes'
    BY <1>1, <2>1 DEF TwsTypes, TypeInv
  <2> QED
    BY <1>4, <2>2, <2>3 DEF TypeInv
<1> QED
  BY <1>5, <1>6

LEMMA PositionsTypes ==
  TypeInv /\ (ResetRows \/ RequestPositions \/ PositionsNotRequested) => TypeInv'
<1>1. ASSUME TypeInv, ResetRows PROVE TypeInv'
  <2>1. AppTypes'
    BY <1>1, NothingMapped DEF ResetRows, TypeInv, AppTypes
  <2>2. call' \in Calls /\ call'.kind = "resetting" /\ call'.serial \in 1..calls'
    BY <1>1, NewCallTypes DEF ResetRows, MayCall, TypeInv, TwsTypes
  <2>3. CallTypes'
    BY <1>1, <2>2 DEF ResetRows, MayCall, TypeInv, CallTypes, NoCall
  <2>4. TwsTypes'
    BY <1>1 DEF ResetRows, MayCall, TypeInv, TwsTypes, twsVars
  <2> QED
    BY <2>1, <2>3, <2>4 DEF TypeInv
<1>2. ASSUME TypeInv, RequestPositions PROVE TypeInv'
  <2>1. AppTypes'
    BY <1>2, Zenon DEF RequestPositions, NewEvent, TypeInv, AppTypes
  <2>2. call \in Calls /\ call.kind = "resetting" /\ UNCHANGED calls
    BY <1>2 DEF RequestPositions, TypeInv, CallTypes, NoCall, historyVars
  <2>3. /\ call.id \in Nat /\ call.serial \in Nat /\ call.doomed \in BOOLEAN
    BY <2>2 DEF Calls
  <2>4. Strays \in BOOLEAN /\ versions \in [Instruments -> Nat]
    BY <1>2 DEF Strays, TypeInv, TwsTypes
  <2>5. /\ call' \in Calls /\ call'.kind = "positions"
        /\ call'.id = call.id /\ call'.serial = call.serial
    BY <1>2, <2>3, <2>4 DEF RequestPositions, Calls
  <2>6. CallTypes'
    BY <1>2, <2>2, <2>5 DEF RequestPositions, TypeInv, CallTypes
  <2>7. call.serial \in 1..calls
    BY <1>2, <2>2 DEF TypeInv, CallTypes
  <2>8. serving' \subseteq [kind : {"request", "positions"} \cup OrderKinds,
                            id : Nat, serial : 1..calls, sent : 0..Parts]
        /\ \A r \in serving' : r.kind # "positions" => r.id # 0
    BY <1>2, <2>3, <2>5, <2>7, PartsAssumption
       DEF RequestPositions, Serve, TypeInv, TwsTypes
  <2>9. TwsTypes'
    BY <1>2, <2>2, <2>8 DEF RequestPositions, historyVars, TypeInv, TwsTypes
  <2> QED
    BY <2>1, <2>6, <2>9 DEF TypeInv
<1>3. ASSUME TypeInv, PositionsNotRequested PROVE TypeInv'
  <2>1. AppTypes'
    BY <1>3, Zenon DEF PositionsNotRequested, NewEvent, TypeInv, AppTypes
  <2>2. CallTypes'
    BY <1>3 DEF PositionsNotRequested, NoCall, TypeInv, CallTypes
  <2>3. TwsTypes'
    BY <1>3 DEF PositionsNotRequested, twsVars, historyVars, TypeInv, TwsTypes
  <2> QED
    BY <2>1, <2>2, <2>3 DEF TypeInv
<1> QED
  BY <1>1, <1>2, <1>3

LEMMA OrderTypes ==
  TypeInv /\ (\/ NoOrderIdYet \/ SubmitOrder \/ PreviewMargin
              \/ \E kind \in OrderKinds : SendRaises(kind))
    => TypeInv'
<1>1. ASSUME TypeInv, NoOrderIdYet PROVE TypeInv'
  <2>1. /\ UNCHANGED <<appVars, call, serving, versions, wire, placed>>
        /\ call = NoCall /\ calls' = calls + 1
    BY <1>1 DEF NoOrderIdYet, MayCall, twsVars
  <2>2. AppTypes'
    BY <1>1, <2>1 DEF TypeInv, AppTypes, appVars
  <2>3. CallTypes' /\ TwsTypes'
    BY <1>1, <2>1 DEF TypeInv, CallTypes, TwsTypes, appVars, NoCall
  <2> QED
    BY <2>2, <2>3 DEF TypeInv
<1>2. ASSUME TypeInv, TakeOrderId
      PROVE  /\ call = NoCall /\ calls' = calls + 1 /\ calls' \in Nat
             /\ nextOrderId \in Nat \ {0}
             /\ nextOrderId' \in Nat /\ orderIdEvent
  BY <1>2 DEF TakeOrderId, MayCall, IdAfter, NoOrderId, TypeInv, AppTypes, TwsTypes
<1>3. ASSUME TypeInv, SubmitOrder PROVE TypeInv'
  <2>1. TakeOrderId
    BY <1>3 DEF SubmitOrder
  <2>2. AppTypes'
    BY <1>2, <1>3, <2>1 DEF SubmitOrder, TypeInv, AppTypes
  <2>3. CallTypes'
    BY <1>2, <1>3, <2>1 DEF SubmitOrder, TypeInv, CallTypes, NoCall
  <2>4. placed' \in Seq(Nat \ {0})
    BY <1>2, <1>3, <2>1, AppendProperties DEF SubmitOrder, TypeInv, TwsTypes
  <2> DEFINE c == NewCall("order", nextOrderId)
  <2>5. c.kind = "order" /\ c.id = nextOrderId /\ c.serial = calls' /\ Serve(c)
    BY <1>3 DEF SubmitOrder, NewCall
  <2> HIDE DEF c
  <2>6. TwsTypes'
    BY <1>2, <1>3, <2>1, <2>4, <2>5, ServeTypes
       DEF SubmitOrder, TypeInv, TwsTypes, OrderKinds
  <2> QED
    BY <2>2, <2>3, <2>6 DEF TypeInv
<1>4. ASSUME TypeInv, PreviewMargin PROVE TypeInv'
  <2>1. TakeOrderId
    BY <1>4 DEF PreviewMargin
  <2>2. /\ call' \in Calls /\ call'.kind = "preview" /\ call'.id = nextOrderId
        /\ call'.serial = calls' /\ Serve(call')
    BY <1>2, <1>4, <2>1, NewCallTypes DEF PreviewMargin
  <2>3. [rows |-> {}, event |-> FALSE] \in Pending
    BY DEF Pending
  <2>4. previews' \in [DOMAIN previews' -> Pending] /\ DOMAIN previews' = {nextOrderId}
    BY <1>2, <1>4, <2>1, <2>3 DEF PreviewMargin, Put, TypeInv, AppTypes, CallTypes,
       NoCall
  <2>5. AppTypes'
    BY <1>2, <1>4, <2>1, <2>4 DEF PreviewMargin, TypeInv, AppTypes
  <2>6. CallTypes'
    BY <1>2, <2>1, <1>4, <2>2, <2>4 DEF CallTypes
  <2>7. placed' \in Seq(Nat \ {0})
    BY <1>2, <1>4, <2>1, AppendProperties DEF PreviewMargin, TypeInv, TwsTypes
  <2>8. TwsTypes'
    BY <1>2, <1>4, <2>1, <2>2, <2>7, ServeTypes
       DEF PreviewMargin, TypeInv, TwsTypes, OrderKinds
  <2> QED
    BY <2>5, <2>6, <2>8 DEF TypeInv
<1>5. ASSUME TypeInv, NEW kind \in OrderKinds, SendRaises(kind) PROVE TypeInv'
  <2>1. TakeOrderId /\ UNCHANGED <<nextRequestId, requests>>
    BY <1>5 DEF SendRaises, OrderKinds
  <2>2. AppTypes'
    BY <1>2, <1>5, <2>1 DEF SendRaises, TypeInv, AppTypes
  <2>3. CallTypes' /\ TwsTypes'
    BY <1>2, <1>5, <2>1 DEF SendRaises, twsVars, TypeInv, CallTypes, TwsTypes, NoCall
  <2> QED
    BY <2>2, <2>3 DEF TypeInv
<1> QED
  BY <1>1, <1>3, <1>4, <1>5

\* TWS changes what it serves, the positions and the wire.
LEMMA TwsStepTypes == TypeInv /\ Tws => TypeInv'
<1> SUFFICES ASSUME TypeInv, Tws PROVE TypeInv'
  OBVIOUS
<1>1. UNCHANGED <<appVars, call, calls, placed>>
  BY DEF Tws, SendOrderId, SendGlobalError, SendRow, SendEnd, SendOpenOrder, SendError,
     PositionChanges, historyVars
<1>2. AppTypes' /\ CallTypes'
  BY <1>1 DEF TypeInv, AppTypes, CallTypes, appVars
<1> DEFINE Served == [kind : {"request", "positions"} \cup OrderKinds,
                      id : Nat, serial : 1..calls, sent : 0..Parts]
<1> DEFINE Types == /\ serving' \subseteq Served
                    /\ \A r \in serving' : r.kind # "positions" => r.id # 0
                    /\ versions' \in [Instruments -> Nat]
                    /\ wire' \in Seq(Messages)
<1>3. ASSUME SendOrderId PROVE Types
  <2>1. placed # << >> => placed[Len(placed)] \in Nat
    BY LenProperties DEF TypeInv, TwsTypes
  <2>2. (IF placed = << >> THEN 1 ELSE placed[Len(placed)] + 1) \in Nat \ {0}
    BY <2>1
  <2> QED
    BY <1>3, <2>2, SendTypes DEF SendOrderId, Messages, TypeInv, TwsTypes
<1>4. ASSUME SendGlobalError PROVE Types
  BY <1>4, SendTypes DEF SendGlobalError, Messages, TypeInv, TwsTypes
<1>5. ASSUME NEW r \in serving, SendRow(r) PROVE Types
  <2>1. r \in Served /\ (r.kind = "request" => r.id \in Nat \ {0})
    BY DEF TypeInv, TwsTypes
  <2>2. r.sent + 1 \in Instruments
    BY <1>5, <2>1, PartsAssumption DEF SendRow, Instruments
  <2>3. [r EXCEPT !.sent = @ + 1] \in Served /\ [r EXCEPT !.sent = @ + 1].kind = r.kind
        /\ [r EXCEPT !.sent = @ + 1].id = r.id
    BY <1>5, <2>1, PartsAssumption DEF SendRow
  <2>4. serving' \subseteq Served /\ \A x \in serving' : x.kind # "positions" => x.id # 0
    BY <1>5, <2>3 DEF SendRow, Progress, TypeInv, TwsTypes
  <2>5. CASE r.kind = "positions"
    <3>1. versions[r.sent + 1] \in Nat
      BY <2>2 DEF TypeInv, TwsTypes
    <3>2. [type |-> "position", instrument |-> r.sent + 1,
           version |-> versions[r.sent + 1]] \in Messages
      BY <2>2, <3>1 DEF Messages
    <3> QED
      BY <1>5, <2>4, <2>5, <3>2, SendTypes DEF SendRow, TypeInv, TwsTypes
  <2>6. CASE r.kind = "request"
    <3>1. [of |-> r.serial, part |-> r.sent + 1] \in Rows
      BY <2>1, <2>2 DEF Rows, Instruments, TypeInv, TwsTypes
    <3>2. [type |-> "row", id |-> r.id,
           row |-> [of |-> r.serial, part |-> r.sent + 1]] \in Messages
      BY <2>1, <2>6, <3>1 DEF Messages
    <3> QED
      BY <1>5, <2>4, <2>6, <3>2, SendTypes DEF SendRow, TypeInv, TwsTypes
  <2> QED
    BY <1>5, <2>5, <2>6 DEF SendRow
<1>6. ASSUME NEW r \in serving, SendEnd(r) PROVE Types
  <2>1. r.kind = "request" => r.id \in Nat \ {0}
    BY DEF TypeInv, TwsTypes
  <2>2. (IF r.kind = "positions" THEN [type |-> "positionEnd"]
         ELSE [type |-> "end", id |-> r.id]) \in Messages
    BY <1>6, <2>1 DEF SendEnd, Messages
  <2> QED
    BY <1>6, <2>2, SendTypes DEF SendEnd, TypeInv, TwsTypes
<1>7. ASSUME NEW r \in serving, SendOpenOrder(r) PROVE Types
  <2>1. r.id \in Nat \ {0} /\ r.serial \in Nat
    BY <1>7 DEF SendOpenOrder, OrderKinds, TypeInv, TwsTypes
  <2>2. [of |-> r.serial, part |-> 1] \in Rows
    BY <2>1 DEF Rows
  <2>3. [type |-> "openOrder", id |-> r.id,
         row |-> [of |-> r.serial, part |-> 1]] \in Messages
    BY <2>1, <2>2 DEF Messages
  <2> QED
    BY <1>7, <2>3, SendTypes DEF SendOpenOrder, TypeInv, TwsTypes
<1>8. ASSUME NEW r \in serving, SendError(r) PROVE Types
  <2>1. r.id \in Nat \ {0} /\ r.serial \in Nat /\ r.kind \in {"request"} \cup OrderKinds
    BY <1>8 DEF SendError, TypeInv, TwsTypes
  <2>2. [kind |-> r.kind, id |-> r.id, serial |-> r.serial] \in Abouts
    BY <2>1 DEF Abouts
  <2>3. [type |-> "error", id |-> r.id, about |-> [kind |-> r.kind, id |-> r.id,
         serial |-> r.serial]] \in Messages
    BY <2>1, <2>2 DEF Messages
  <2> QED
    BY <1>8, <2>3, SendTypes DEF SendError, TypeInv, TwsTypes
<1>9. ASSUME NEW i \in Instruments, PositionChanges(i) PROVE Types
  <2>1. versions' \in [Instruments -> Nat] /\ versions'[i] \in Nat
    BY <1>9 DEF PositionChanges, TypeInv, TwsTypes
  <2>2. [type |-> "position", instrument |-> i, version |-> versions'[i]] \in Messages
    BY <2>1 DEF Messages
  <2>3. wire' \in Seq(Messages)
    BY <1>9, <2>2, SendTypes DEF PositionChanges, TypeInv, TwsTypes
  <2> QED
    BY <1>9, <2>1, <2>3 DEF PositionChanges, TypeInv, TwsTypes
<1>10. Types
  BY <1>3, <1>4, <1>5, <1>6, <1>7, <1>8, <1>9 DEF Tws
<1>11. TwsTypes'
  BY <1>1, <1>10 DEF TypeInv, TwsTypes
<1> QED
  BY <1>2, <1>11 DEF TypeInv

LEMMA TypeStep == TypeInv /\ [Next]_vars => TypeInv'
<1> SUFFICES ASSUME TypeInv, [Next]_vars PROVE TypeInv'
  OBVIOUS
<1>1. CASE UNCHANGED vars
  BY <1>1 DEF TypeInv, AppTypes, CallTypes, TwsTypes, vars, appVars, twsVars, historyVars
<1>2. CASE Caller
  <2>1. CASE Connect
    BY <2>1, ConnectTypes
  <2>2. CASE \/ ConnectReturns \/ ConnectTimesOut \/ RequestReturns
             \/ RequestTimesOut \/ PositionsReturn \/ PositionsTimeOut
             \/ PreviewReturns \/ PreviewTimesOut
    BY <2>2, ReturnTypes
  <2>3. CASE RequestRows \/ SendRaises("request")
    BY <2>3, RequestTypes
  <2>4. CASE ResetRows \/ RequestPositions \/ PositionsNotRequested
    BY <2>4, PositionsTypes
  <2>5. CASE \/ NoOrderIdYet \/ SubmitOrder \/ PreviewMargin
             \/ \E kind \in OrderKinds : SendRaises(kind)
    BY <2>5, OrderTypes
  <2> QED
    BY <1>2, <2>1, <2>2, <2>3, <2>4, <2>5 DEF Caller
<1>3. CASE Tws
  BY <1>3, TwsStepTypes
<1>4. CASE Callback
  BY <1>4, CallbackTypes
<1> QED
  BY <1>1, <1>2, <1>3, <1>4 DEF Next

LEMMA TypesInductive == Spec => []TypeInv
BY TypeInit, TypeStep, PTL DEF Spec

\* The variables keep their types, the request in progress is registered, and
\* a preview is registered only while its call is in progress.
THEOREM ClientTypes == Spec => []ITypeOK
<1>1. TypeInv => ITypeOK
  BY DEF TypeInv, AppTypes, CallTypes, TwsTypes, ITypeOK
<1> QED
  BY <1>1, TypesInductive, PTL

-----------------------------------------------------------------------------
(* Waking.  An event that is set has a reason the caller finds afterwards.  *)

WakeInv ==
  /\ orderIdEvent => nextOrderId # NoOrderId \/ globalError
  /\ ConnectedOrBroken

\* Until the next connection an order ID stays, and so does a global error.
LEMMA OnOneConnection ==
  TypeInv /\ [Next]_vars =>
    \/ Connect
    \/ /\ globalError => globalError'
       /\ nextOrderId # NoOrderId => nextOrderId' # NoOrderId
<1> SUFFICES ASSUME TypeInv, [Next]_vars, ~Connect
             PROVE  /\ globalError => globalError'
                    /\ nextOrderId # NoOrderId => nextOrderId' # NoOrderId
  OBVIOUS
<1>1. ASSUME Callback
      PROVE  /\ globalError => globalError'
             /\ nextOrderId # NoOrderId => nextOrderId' # NoOrderId
  <2>1. CASE NextValidId
    BY <2>1, ReadTypes DEF NextValidId, Messages, NoOrderId
  <2>2. CASE ~NextValidId
    BY <1>1, <2>2 DEF Callback, Row, End, Position, PositionEnd, OpenOrder, ErrorOfId,
       ErrorWithoutId
  <2> QED
    BY <2>1, <2>2
<1>2. ASSUME Caller \/ Tws \/ UNCHANGED vars, ~TakeOrderId
      PROVE  UNCHANGED <<globalError, nextOrderId>>
  BY <1>2 DEF Caller, Tws, ConnectReturns, ConnectTimesOut, RequestRows,
     RequestReturns, RequestTimesOut, ResetRows, RequestPositions, PositionsNotRequested, PositionsReturn,
     PositionsTimeOut, NoOrderIdYet, SubmitOrder, PreviewMargin, PreviewReturns,
     PreviewTimesOut, SendRaises, SendOrderId, SendGlobalError, SendRow, SendEnd,
     SendOpenOrder, SendError, PositionChanges, vars, appVars
<1>3. ASSUME Caller \/ Tws \/ UNCHANGED vars, TakeOrderId
      PROVE  UNCHANGED globalError /\ nextOrderId' # NoOrderId
  <2>1. nextOrderId' # NoOrderId
    BY <1>3 DEF TakeOrderId, IdAfter, NoOrderId, TypeInv, AppTypes
  <2>2. UNCHANGED globalError
    BY <1>3 DEF Caller, Tws, ConnectReturns, ConnectTimesOut, RequestRows,
       RequestReturns, RequestTimesOut, ResetRows, RequestPositions, PositionsNotRequested, PositionsReturn,
       PositionsTimeOut, NoOrderIdYet, SubmitOrder, PreviewMargin, PreviewReturns,
       PreviewTimesOut, SendRaises, SendOrderId, SendGlobalError, SendRow, SendEnd,
       SendOpenOrder, SendError, PositionChanges, vars, appVars
  <2> QED
    BY <2>1, <2>2
<1> QED
  BY <1>1, <1>2, <1>3 DEF Next

LEMMA WakeStep == TypeInv /\ WakeInv /\ [Next]_vars => WakeInv'
<1> SUFFICES ASSUME TypeInv, WakeInv, [Next]_vars PROVE WakeInv'
  OBVIOUS
<1>1. CASE Connect
  BY <1>1 DEF Connect, FreshApp, WakeInv, ConnectedOrBroken, NoOutcome
<1>2. CASE ~Connect
  <2>1. /\ globalError => globalError'
        /\ nextOrderId # NoOrderId => nextOrderId' # NoOrderId
    BY <1>2, OnOneConnection
  <2>2. orderIdEvent' => nextOrderId' # NoOrderId \/ globalError'
    <3>1. CASE UNCHANGED orderIdEvent
      BY <2>1, <3>1 DEF WakeInv
    <3>2. CASE NextValidId
      BY <3>2, ReadTypes DEF NextValidId, Messages, NoOrderId
    <3>3. CASE ErrorWithoutId
      BY <3>3 DEF ErrorWithoutId
    <3>4. UNCHANGED orderIdEvent \/ NextValidId \/ ErrorWithoutId
      BY <1>2 DEF Next, Caller, Tws, Callback, ConnectReturns, ConnectTimesOut,
         RequestRows, RequestReturns, RequestTimesOut, ResetRows, RequestPositions,
         PositionsNotRequested, PositionsReturn, PositionsTimeOut, NoOrderIdYet, SubmitOrder, PreviewMargin,
         PreviewReturns, PreviewTimesOut, SendRaises, SendOrderId, SendGlobalError,
         SendRow, SendEnd, SendOpenOrder, SendError, PositionChanges, Row, End,
         Position, PositionEnd, OpenOrder, ErrorOfId, vars, appVars
    <3> QED
      BY <3>1, <3>2, <3>3, <3>4
  <2>3. ConnectedOrBroken'
    <3>1. CASE ConnectReturns
      BY <2>1, <3>1 DEF ConnectReturns, WakeInv, ConnectedOrBroken
    <3>2. CASE UNCHANGED outcome
      BY <2>1, <3>2 DEF WakeInv, ConnectedOrBroken
    <3>3. CASE outcome' # outcome /\ ~ConnectReturns
      <4>1. CASE RequestReturns \/ PositionsReturn \/ PreviewReturns
        BY <4>1 DEF RequestReturns, PositionsReturn, PreviewReturns, EndCall,
           ConnectedOrBroken
      <4>0. CASE PositionsNotRequested
        BY <4>0 DEF PositionsNotRequested, ConnectedOrBroken
      <4>2. CASE ConnectTimesOut \/ RequestTimesOut \/ PositionsTimeOut \/ PreviewTimesOut
        BY <4>2 DEF ConnectTimesOut, RequestTimesOut, PositionsTimeOut,
           PreviewTimesOut, GiveUp, EndCall, ConnectedOrBroken
      <4>3. CASE RequestRows \/ ResetRows \/ PreviewMargin
        BY <4>3 DEF RequestRows, ResetRows, PreviewMargin, NoOutcome, ConnectedOrBroken
      <4>4. CASE NoOrderIdYet \/ SubmitOrder
        <5>1. outcome'.kind = "order"
          <6>1. CASE NoOrderIdYet
            BY <6>1 DEF NoOrderIdYet
          <6>2. CASE SubmitOrder
            BY <6>2 DEF SubmitOrder
          <6> QED
            BY <4>4, <6>1, <6>2
        <5> QED
          BY <5>1 DEF ConnectedOrBroken
      <4>5. CASE \E kind \in OrderKinds \cup {"request"} : SendRaises(kind)
        <5>1. outcome'.kind # "connect"
          BY <4>5 DEF SendRaises, OrderKinds, NewCall
        <5> QED
          BY <5>1 DEF ConnectedOrBroken
      <4>6. Caller
        BY <3>3 DEF Next, Tws, Callback, SendOrderId, SendGlobalError, SendRow,
           SendEnd, SendOpenOrder, SendError, PositionChanges, vars
      <4>7. ~RequestPositions
        BY <3>3 DEF RequestPositions
      <4> QED
        BY <1>2, <3>3, <4>0, <4>1, <4>2, <4>3, <4>4, <4>5, <4>6, <4>7 DEF Caller
    <3> QED
      BY <3>1, <3>2, <3>3
  <2> QED
    BY <2>2, <2>3 DEF WakeInv
<1> QED
  BY <1>1, <1>2

\* A connect that returned has an order ID, or an error woke it.
THEOREM ConnectKnowsItsReason == Spec => []ConnectedOrBroken
<1>1. Init => WakeInv
  BY DEF Init, WakeInv, ConnectedOrBroken, NoOutcome
<1>2. WakeInv => ConnectedOrBroken
  BY DEF WakeInv
<1> QED
  BY <1>1, <1>2, TypesInductive, WakeStep, PTL DEF Spec

-----------------------------------------------------------------------------
(* Errors without an ID.                                                   *)

DoomInv ==
  /\ (call.kind \in {"request", "resetting", "positions", "preview"}
      /\ call.doomed) => globalError
  /\ GlobalErrorIsFinal

\* With a global error there always is something to raise.
LEMMA GlobalErrorIsRaised ==
  ASSUME TypeInv, globalError, NEW id
  PROVE  PendingError(id) # NoCause
<1>1. CASE id \in DOMAIN requestErrors
  <2>1. requestErrors[id] \in Abouts
    BY <1>1 DEF TypeInv, AppTypes
  <2>2. requestErrors[id].kind # "none"
    BY <2>1 DEF Abouts, OrderKinds
  <2> QED
    BY <1>1, <2>2 DEF PendingError, NoCause
<1>2. CASE id \notin DOMAIN requestErrors
  <2>1. Global.kind = "global" /\ NoCause.kind = "none"
    BY DEF Global, NoCause
  <2> QED
    BY <1>2, <2>1 DEF PendingError
<1> QED
  BY <1>1, <1>2

LEMMA DoomStep == TypeInv /\ DoomInv /\ [Next]_vars => DoomInv'
<1> DEFINE Asks == {"request", "resetting", "positions", "preview"}
           Doomed == call.kind \in Asks /\ call.doomed => globalError
<1> SUFFICES ASSUME TypeInv, DoomInv, [Next]_vars PROVE Doomed' /\ GlobalErrorIsFinal'
  BY DEF DoomInv
<1>0. Doomed /\ GlobalErrorIsFinal
  BY DEF DoomInv
<1>1. CASE Connect
  <2>1. call'.kind = "connect"
    BY <1>1 DEF Connect, NewCall
  <2>2. outcome' = NoOutcome
    BY <1>1 DEF Connect
  <2> QED
    BY <2>1, <2>2 DEF GlobalErrorIsFinal, NoOutcome
<1>2. CASE RequestReturns \/ PositionsReturn \/ PreviewReturns
  <2>1. /\ call.kind \in Asks /\ call'.kind = "none"
        /\ outcome'.call = call
    BY <1>2 DEF RequestReturns, PositionsReturn, PreviewReturns, EndCall, NoCall
  <2>2. PICK id : outcome'.ok = (PendingError(id) = NoCause)
    BY <1>2 DEF RequestReturns, PositionsReturn, PreviewReturns, EndCall
  <2>3. call.doomed => ~outcome'.ok
    BY <1>0, <2>1, <2>2, GlobalErrorIsRaised
  <2> QED
    BY <2>1, <2>3 DEF GlobalErrorIsFinal
<1>3. CASE ConnectTimesOut \/ RequestTimesOut \/ PositionsTimeOut \/ PreviewTimesOut
  <2>1. call'.kind = "none" /\ outcome'.ok = FALSE
    BY <1>3 DEF ConnectTimesOut, RequestTimesOut, PositionsTimeOut, PreviewTimesOut,
       GiveUp, EndCall, NoCall
  <2> QED
    BY <2>1 DEF GlobalErrorIsFinal
<1>10. CASE PositionsNotRequested
  <2>1. call'.kind = "none" /\ outcome'.ok = FALSE
    BY <1>10 DEF PositionsNotRequested, NoCall
  <2> QED
    BY <2>1 DEF GlobalErrorIsFinal
<1>4. CASE ConnectReturns
  <2>1. call'.kind = "none" /\ outcome'.kind = "connect"
    BY <1>4 DEF ConnectReturns, EndCall, NoCall
  <2> QED
    BY <2>1 DEF GlobalErrorIsFinal
<1>5. CASE RequestRows \/ ResetRows \/ PreviewMargin
  <2>1. call'.doomed = globalError /\ UNCHANGED globalError
    BY <1>5 DEF RequestRows, ResetRows, PreviewMargin, NewCall
  <2>2. outcome' = NoOutcome
    BY <1>5 DEF RequestRows, ResetRows, PreviewMargin
  <2> QED
    BY <2>1, <2>2 DEF GlobalErrorIsFinal, NoOutcome
<1>6. CASE RequestPositions
  <2>1. call.kind = "resetting" /\ call'.doomed = call.doomed
    BY <1>6 DEF RequestPositions
  <2>2. UNCHANGED <<globalError, outcome>>
    BY <1>6 DEF RequestPositions
  <2> QED
    BY <1>0, <2>1, <2>2 DEF GlobalErrorIsFinal
<1>7. CASE NoOrderIdYet \/ SubmitOrder
  <2>1. outcome'.kind = "order"
    <3>1. CASE NoOrderIdYet
      BY <3>1 DEF NoOrderIdYet
    <3>2. CASE SubmitOrder
      BY <3>2 DEF SubmitOrder
    <3> QED
      BY <1>7, <3>1, <3>2
  <2>2. UNCHANGED <<call, globalError>>
    BY <1>7 DEF NoOrderIdYet, SubmitOrder, appVars
  <2> QED
    BY <1>0, <2>1, <2>2 DEF GlobalErrorIsFinal
<1>8. CASE \E kind \in OrderKinds \cup {"request"} : SendRaises(kind)
  <2>1. outcome'.ok = FALSE /\ UNCHANGED <<call, globalError>>
    BY <1>8 DEF SendRaises
  <2> QED
    BY <1>0, <2>1 DEF GlobalErrorIsFinal
<1>9. CASE Tws \/ Callback \/ UNCHANGED vars
  <2>1. UNCHANGED <<call, outcome>>
    BY <1>9 DEF Tws, Callback, SendOrderId, SendGlobalError, SendRow, SendEnd,
       SendOpenOrder, SendError, PositionChanges, vars
  <2>2. globalError => globalError'
    BY <1>9 DEF Tws, Callback, SendOrderId, SendGlobalError, SendRow, SendEnd,
       SendOpenOrder, SendError, PositionChanges, NextValidId, Row, End, Position,
       PositionEnd, OpenOrder, ErrorOfId, ErrorWithoutId, vars, appVars
  <2> QED
    BY <1>0, <2>1, <2>2 DEF GlobalErrorIsFinal
<1> QED
  BY <1>1, <1>2, <1>3, <1>4, <1>5, <1>6, <1>7, <1>8, <1>9, <1>10 DEF Next, Caller

\* Once an error without ID has arrived, no request begun on that connection
\* is answered: it stays until the next connection.
THEOREM GlobalErrorsStay == Spec => []GlobalErrorIsFinal
<1>1. Init => DoomInv
  BY DEF Init, DoomInv, GlobalErrorIsFinal, NoCall, NoOutcome
<1>2. DoomInv => GlobalErrorIsFinal
  BY DEF DoomInv
<1> QED
  BY <1>1, <1>2, TypesInductive, DoomStep, PTL DEF Spec

-----------------------------------------------------------------------------
(* Order IDs.  They ascend: each is above those used before, and the one    *)
(* nextValidId on a connection arrives before the first is taken.          *)

Unused(id) == \A k \in 1..Len(placed) : placed[k] < id

Greets(k) == wire[k].type = "nextValidId"

Ascending == \A k, l \in 1..Len(placed) : k < l => placed[k] < placed[l]

NextIsUnused == nextOrderId # NoOrderId => Unused(nextOrderId)

GreetingIsUnused == \A k \in 1..Len(wire) : Greets(k) => Unused(wire[k].id)

GreetedOnce ==
  /\ \A k \in 1..Len(wire) : Greets(k) => greeted /\ nextOrderId = NoOrderId
  /\ \A k, l \in 1..Len(wire) : Greets(k) /\ Greets(l) => k = l
  /\ nextOrderId # NoOrderId => greeted

OrderIdInv == Ascending /\ NextIsUnused /\ GreetingIsUnused /\ GreetedOnce

LEMMA AscendingAreUsedOnce == TypeInv /\ Ascending => OrderIdsUsedOnce
<1> SUFFICES ASSUME TypeInv, Ascending, NEW k \in DOMAIN placed,
                    NEW l \in DOMAIN placed, k # l
             PROVE  placed[k] # placed[l]
  BY DEF OrderIdsUsedOnce
<1>1. placed \in Seq(Nat \ {0}) /\ k \in 1..Len(placed) /\ l \in 1..Len(placed)
  BY DEF TypeInv, TwsTypes
<1>2. placed[k] \in Nat /\ placed[l] \in Nat
  BY <1>1
<1> QED
  BY <1>1, <1>2 DEF Ascending

\* What TakeOrderId takes is appended, and the next one is above it.
LEMMA TakenInOrder ==
  ASSUME TypeInv, OrderIdInv, TakeOrderId
  PROVE  /\ \A k \in 1..Len(wire) : ~Greets(k)
         /\ nextOrderId' \in Nat /\ nextOrderId' = nextOrderId + 1
         /\ greeted
         /\ Unused(nextOrderId)
BY DEF TypeInv, AppTypes, OrderIdInv, TakeOrderId, IdAfter, GreetedOnce, NextIsUnused

\* The step of a caller that uses an ID.
LEMMA UseStep ==
  ASSUME TypeInv, OrderIdInv, TakeOrderId, UNCHANGED <<wire, greeted>>,
         placed' = Append(placed, nextOrderId) \/ UNCHANGED placed
  PROVE  OrderIdInv'
<1>1. /\ \A k \in 1..Len(wire) : ~Greets(k)
      /\ nextOrderId \in Nat /\ nextOrderId' = nextOrderId + 1
      /\ greeted
      /\ Unused(nextOrderId)
  BY TakenInOrder DEF TypeInv, AppTypes
<1>2. GreetingIsUnused' /\ GreetedOnce'
  BY <1>1 DEF GreetingIsUnused, GreetedOnce, Greets
<1>3. placed \in Seq(Nat \ {0}) /\ Len(placed) \in Nat
      /\ \A k \in 1..Len(placed) : placed[k] \in Nat
  BY DEF TypeInv, TwsTypes
<1>4. CASE placed' = Append(placed, nextOrderId)
  <2>1. /\ Len(placed') = Len(placed) + 1
        /\ \A k \in 1..Len(placed) : placed'[k] = placed[k]
        /\ placed'[Len(placed) + 1] = nextOrderId
    BY <1>3, <1>4
  <2>2. NextIsUnused'
    <3>1. ASSUME NEW k \in 1..Len(placed') PROVE placed'[k] < nextOrderId'
      <4>1. CASE k \in 1..Len(placed)
        BY <1>1, <1>3, <2>1, <4>1 DEF Unused
      <4>2. CASE k = Len(placed) + 1
        BY <1>1, <2>1, <4>2
      <4> QED
        BY <1>3, <2>1, <4>1, <4>2
    <3> QED
      BY <3>1 DEF NextIsUnused, Unused
  <2>3. Ascending'
    <3>1. SUFFICES ASSUME NEW k \in 1..Len(placed'), NEW l \in 1..Len(placed'), k < l
                   PROVE  placed'[k] < placed'[l]
      BY DEF Ascending
    <3>2. CASE l \in 1..Len(placed)
      <4>1. k \in 1..Len(placed)
        BY <1>3, <3>1, <3>2
      <4> QED
        BY <2>1, <3>1, <3>2, <4>1 DEF OrderIdInv, Ascending
    <3>3. CASE l = Len(placed) + 1
      <4>1. k \in 1..Len(placed)
        BY <1>3, <2>1, <3>1, <3>3
      <4> QED
        BY <1>1, <2>1, <3>3, <4>1 DEF Unused
    <3> QED
      BY <1>3, <2>1, <3>1, <3>2, <3>3
  <2> QED
    BY <1>2, <2>2, <2>3 DEF OrderIdInv
<1>5. CASE UNCHANGED placed
  <2>1. \A k \in 1..Len(placed) : placed[k] < nextOrderId + 1
    BY <1>1, <1>3 DEF Unused
  <2>2. NextIsUnused' /\ Ascending'
    BY <1>1, <1>5, <2>1 DEF NextIsUnused, Unused, Ascending, OrderIdInv
  <2> QED
    BY <1>2, <2>2 DEF OrderIdInv
<1> QED
  BY <1>4, <1>5

\* A message is added that is no nextValidId, or none is.
LEMMA OtherMessageStep ==
  ASSUME TypeInv, OrderIdInv, UNCHANGED <<nextOrderId, placed, greeted>>,
         NEW m, m.type # "nextValidId", Send(m) \/ UNCHANGED wire
  PROVE  OrderIdInv'
<1>1. Ascending' /\ NextIsUnused'
  BY DEF OrderIdInv, Ascending, NextIsUnused, Unused
<1>2. GreetingIsUnused' /\ GreetedOnce'
  <2>1. CASE UNCHANGED wire
    BY <2>1 DEF OrderIdInv, GreetingIsUnused, GreetedOnce, Greets, Unused
  <2>2. CASE Send(m)
    <3>1. wire \in Seq(Messages) /\ Len(wire) \in Nat
      BY DEF TypeInv, TwsTypes
    <3>2. /\ Len(wire') = Len(wire) + 1
          /\ \A k \in 1..Len(wire) : wire'[k] = wire[k]
          /\ wire'[Len(wire) + 1] = m
      BY <2>2, <3>1 DEF Send
    <3>3. \A k \in 1..Len(wire') : Greets(k)' => k \in 1..Len(wire) /\ Greets(k)
      BY <3>1, <3>2 DEF Greets
    <3>4. GreetedOnce'
      BY <3>3 DEF OrderIdInv, GreetedOnce
    <3>5. GreetingIsUnused'
      BY <3>2, <3>3 DEF OrderIdInv, GreetingIsUnused, Unused
    <3> QED
      BY <3>4, <3>5
  <2> QED
    BY <2>1, <2>2
<1> QED
  BY <1>1, <1>2 DEF OrderIdInv

\* A callback takes the first message off the wire.
LEMMA ReadStep ==
  ASSUME TypeInv, OrderIdInv, NEW type, Read(type), UNCHANGED <<placed, greeted>>,
         IF type = "nextValidId" THEN nextOrderId' = Message.id
                                 ELSE UNCHANGED nextOrderId
  PROVE  OrderIdInv'
<1>1. /\ wire \in Seq(Messages) /\ wire # << >> /\ Len(wire) \in Nat
      /\ Message \in Messages /\ Message.type = type /\ wire' = Tail(wire)
  BY ReadTypes DEF TypeInv, TwsTypes
<1>2. /\ Len(wire') = Len(wire) - 1
      /\ \A k \in 1..Len(wire') : k + 1 \in 1..Len(wire) /\ wire'[k] = wire[k + 1]
      /\ 1 \in 1..Len(wire) /\ wire[1] = Message
  BY <1>1 DEF Message
<1>3. Ascending'
  BY DEF OrderIdInv, Ascending
<1>4. GreetingIsUnused'
  BY <1>2 DEF OrderIdInv, GreetingIsUnused, Greets, Unused
<1>5. CASE type # "nextValidId"
  <2>1. NextIsUnused'
    BY <1>5 DEF OrderIdInv, NextIsUnused, Unused
  <2>2. \A k, l \in 1..Len(wire') : Greets(k)' /\ Greets(l)' => k = l
    <3>1. SUFFICES ASSUME NEW k \in 1..Len(wire'), NEW l \in 1..Len(wire'),
                          Greets(k)', Greets(l)'
                   PROVE  k = l
      OBVIOUS
    <3>2. Greets(k + 1) /\ Greets(l + 1) /\ k + 1 \in 1..Len(wire) /\ l + 1 \in 1..Len(wire)
      BY <1>2, <3>1 DEF Greets
    <3>3. k + 1 = l + 1
      BY <3>2 DEF OrderIdInv, GreetedOnce
    <3> QED
      BY <1>1, <1>2, <3>1, <3>3
  <2>3. GreetedOnce'
    BY <1>2, <1>5, <2>2 DEF OrderIdInv, GreetedOnce, Greets
  <2> QED
    BY <1>3, <1>4, <2>1, <2>3 DEF OrderIdInv
<1>6. CASE type = "nextValidId"
  <2>1. Greets(1) /\ nextOrderId' = wire[1].id /\ greeted
    BY <1>1, <1>2, <1>6 DEF Greets, OrderIdInv, GreetedOnce
  <2>2. NextIsUnused'
    BY <1>2, <2>1 DEF OrderIdInv, NextIsUnused, GreetingIsUnused, Unused
  <2>3. \A k \in 1..Len(wire') : ~Greets(k)'
    <3>1. \A k \in 2..Len(wire) : ~Greets(k)
      BY <1>1, <1>2, <2>1 DEF OrderIdInv, GreetedOnce
    <3> QED
      BY <1>1, <1>2, <3>1 DEF Greets
  <2>4. GreetedOnce'
    BY <2>1, <2>3 DEF GreetedOnce
  <2> QED
    BY <1>3, <1>4, <2>2, <2>4 DEF OrderIdInv
<1> QED
  BY <1>5, <1>6

\* TWS greets a client with an ID above those it was sent.
LEMMA GreetStep ==
  ASSUME TypeInv, OrderIdInv, SendOrderId
  PROVE  OrderIdInv'
<1> DEFINE id == IF placed = << >> THEN 1 ELSE placed[Len(placed)] + 1
<1>1. /\ wire \in Seq(Messages) /\ Len(wire) \in Nat
      /\ placed \in Seq(Nat \ {0}) /\ Len(placed) \in Nat
      /\ \A k \in 1..Len(placed) : placed[k] \in Nat
  BY DEF TypeInv, TwsTypes
<1>2. Unused(id)
  <2>1. SUFFICES ASSUME NEW k \in 1..Len(placed) PROVE placed[k] < placed[Len(placed)] + 1
    BY <1>1 DEF Unused
  <2>2. Len(placed) \in 1..Len(placed)
    BY <1>1, <2>1
  <2>3. CASE k = Len(placed)
    <3>1. placed[k] \in Nat
      BY <1>1, <2>1
    <3> QED
      BY <2>3, <3>1
  <2>4. CASE k < Len(placed)
    <3>1. placed[k] < placed[Len(placed)]
      BY <1>1, <2>1, <2>2, <2>4 DEF OrderIdInv, Ascending
    <3>2. placed[k] \in Nat /\ placed[Len(placed)] \in Nat
      BY <1>1, <2>1, <2>2
    <3> QED
      BY <3>1, <3>2
  <2> QED
    BY <1>1, <2>1, <2>3, <2>4
<1>3. /\ ~greeted /\ greeted' /\ UNCHANGED <<nextOrderId, placed>>
      /\ wire' = Append(wire, [type |-> "nextValidId", id |-> id])
  BY DEF SendOrderId, Send, appVars, historyVars
<1>4. /\ Len(wire') = Len(wire) + 1
      /\ \A k \in 1..Len(wire) : wire'[k] = wire[k]
      /\ wire'[Len(wire) + 1].id = id
  BY <1>1, <1>3
<1>5. nextOrderId = NoOrderId /\ \A k \in 1..Len(wire) : ~Greets(k)
  BY <1>3 DEF OrderIdInv, GreetedOnce
<1>6. \A k \in 1..Len(wire') : Greets(k)' => k = Len(wire) + 1
  BY <1>1, <1>4, <1>5 DEF Greets
<1>7. GreetedOnce'
  BY <1>3, <1>5, <1>6 DEF GreetedOnce
<1>8. GreetingIsUnused'
  BY <1>2, <1>3, <1>4, <1>6 DEF GreetingIsUnused, Unused
<1>9. Ascending' /\ NextIsUnused'
  BY <1>3 DEF OrderIdInv, Ascending, NextIsUnused, Unused
<1> QED
  BY <1>7, <1>8, <1>9 DEF OrderIdInv

LEMMA OrderIdStep == TypeInv /\ OrderIdInv /\ [Next]_vars => OrderIdInv'
<1> SUFFICES ASSUME TypeInv, OrderIdInv, [Next]_vars PROVE OrderIdInv'
  OBVIOUS
<1>1. CASE UNCHANGED vars
  BY <1>1 DEF vars, appVars, twsVars, historyVars, OrderIdInv, Ascending,
     NextIsUnused, GreetingIsUnused, GreetedOnce, Unused, Greets
<1>2. CASE Connect
  <2>1. nextOrderId' = NoOrderId /\ wire' = << >> /\ UNCHANGED placed
    BY <1>2 DEF Connect, FreshApp
  <2>2. Len(wire') = 0
    BY <2>1, LenProperties
  <2> QED
    BY <2>1, <2>2 DEF OrderIdInv, Ascending, NextIsUnused, GreetingIsUnused,
       GreetedOnce, Unused
<1>3. CASE SubmitOrder \/ PreviewMargin \/ \E kind \in OrderKinds : SendRaises(kind)
  <2>1. TakeOrderId
    BY <1>3 DEF SubmitOrder, PreviewMargin, SendRaises, OrderKinds
  <2>2. UNCHANGED <<wire, greeted>>
    BY <1>3 DEF SubmitOrder, PreviewMargin, SendRaises, twsVars
  <2>3. placed' = Append(placed, nextOrderId) \/ UNCHANGED placed
    BY <1>3 DEF SubmitOrder, PreviewMargin, SendRaises
  <2> QED
    BY <2>1, <2>2, <2>3, UseStep
<1>4. CASE \/ ConnectReturns \/ ConnectTimesOut \/ RequestRows \/ RequestReturns
           \/ RequestTimesOut \/ ResetRows \/ RequestPositions \/ PositionsReturn
           \/ PositionsNotRequested \/ PositionsTimeOut \/ NoOrderIdYet \/ PreviewReturns \/ PreviewTimesOut
           \/ SendRaises("request")
  <2>1. UNCHANGED <<nextOrderId, placed, greeted, wire>>
    BY <1>4 DEF ConnectReturns, ConnectTimesOut, RequestRows, RequestReturns,
       RequestTimesOut, ResetRows, RequestPositions, PositionsNotRequested,
       PositionsReturn, PositionsTimeOut, NoOrderIdYet, PreviewReturns, PreviewTimesOut, SendRaises, OrderKinds, appVars,
       twsVars, historyVars
  <2> QED
    BY <2>1 DEF OrderIdInv, Ascending, NextIsUnused, GreetingIsUnused, GreetedOnce,
       Unused, Greets
<1>5. CASE Tws
  <2>1. CASE SendOrderId
    BY <2>1, GreetStep
  <2>2. CASE ~SendOrderId
    <3> DEFINE Other == \E m : m.type # "nextValidId" /\ (Send(m) \/ UNCHANGED wire)
    <3>1. UNCHANGED <<nextOrderId, placed, greeted>>
      BY <1>5, <2>2 DEF Tws, SendGlobalError, SendRow, SendEnd, SendOpenOrder,
         SendError, PositionChanges, appVars, historyVars
    <3>2. Other
      <4>1. CASE SendGlobalError
        BY <4>1 DEF SendGlobalError
      <4>2. ASSUME NEW r \in serving, SendRow(r) PROVE Other
        <5>1. CASE r.kind = "positions"
          BY <4>2, <5>1 DEF SendRow
        <5>2. CASE r.kind # "positions"
          BY <4>2, <5>2 DEF SendRow
        <5> QED
          BY <5>1, <5>2
      <4>3. ASSUME NEW r \in serving, SendEnd(r) PROVE Other
        <5>1. CASE r.kind = "positions"
          BY <4>3, <5>1 DEF SendEnd
        <5>2. CASE r.kind # "positions"
          BY <4>3, <5>2 DEF SendEnd
        <5> QED
          BY <5>1, <5>2
      <4>4. ASSUME NEW r \in serving, SendOpenOrder(r) PROVE Other
        BY <4>4 DEF SendOpenOrder
      <4>5. ASSUME NEW r \in serving, SendError(r) PROVE Other
        BY <4>5 DEF SendError
      <4>6. ASSUME NEW i \in Instruments, PositionChanges(i) PROVE Other
        BY <4>6 DEF PositionChanges
      <4> QED
        BY <1>5, <2>2, <4>1, <4>2, <4>3, <4>4, <4>5, <4>6 DEF Tws
    <3> QED
      BY <3>1, <3>2, OtherMessageStep
  <2> QED
    BY <2>1, <2>2
<1>6. CASE Callback
  <2>1. UNCHANGED <<placed, greeted>>
    BY <1>6 DEF Callback, historyVars
  <2>2. CASE NextValidId
    BY <2>1, <2>2, ReadStep DEF NextValidId
  <2>3. CASE \/ Row \/ End \/ Position \/ PositionEnd \/ OpenOrder \/ ErrorOfId
             \/ ErrorWithoutId
    <3>1. \E type : type # "nextValidId" /\ Read(type)
      BY <2>3 DEF Row, End, Position, PositionEnd, OpenOrder, ErrorOfId, ErrorWithoutId
    <3>2. UNCHANGED nextOrderId
      BY <2>3 DEF Row, End, Position, PositionEnd, OpenOrder, ErrorOfId, ErrorWithoutId
    <3> QED
      BY <2>1, <3>1, <3>2, ReadStep
  <2> QED
    BY <1>6, <2>2, <2>3 DEF Callback
<1> QED
  BY <1>1, <1>2, <1>3, <1>4, <1>5, <1>6 DEF Next, Caller

LEMMA OrderIdsAscend == Spec => []OrderIdInv
<1>1. Init => OrderIdInv
  <2>1. Len(<< >>) = 0
    BY LenProperties
  <2> QED
    BY <2>1 DEF Init, OrderIdInv, Ascending, NextIsUnused, GreetingIsUnused,
       GreetedOnce, Unused, Greets
<1> QED
  BY <1>1, TypesInductive, OrderIdStep, PTL DEF Spec

\* No order ID is sent to TWS twice, whatever the calls, failures to send and
\* connections between.
THEOREM OrderIdsAreUsedOnce == Spec => []OrderIdsUsedOnce
<1>1. TypeInv /\ OrderIdInv => OrderIdsUsedOnce
  BY AscendingAreUsedOnce DEF OrderIdInv
<1> QED
  BY <1>1, TypesInductive, OrderIdsAscend, PTL

-----------------------------------------------------------------------------
(* Whose answer is whose.  Whatever refers to a call, wherever it has got   *)
(* to, has the tag of the call: which of the two counters its ID came from, *)
(* the ID, and the serial of the call.  An ID is taken once from its        *)
(* counter, so that the first two determine the third.                      *)

Class(kind) == IF kind \in OrderKinds THEN "order" ELSE "request"

Tag(kind, id, serial) == <<Class(kind), id, serial>>

OnWire(m) == \E k \in 1..Len(wire) : wire[k] = m

CallTag(t) ==
  call.kind \in {"request", "preview"} /\ t = Tag(call.kind, call.id, call.serial)

ServingTag(t) ==
  \E r \in serving : r.kind # "positions" /\ t = Tag(r.kind, r.id, r.serial)

RowTag(t) ==
  \E k \in DOMAIN requests : \E row \in requests[k].rows : t = <<"request", k, row.of>>

PreviewTag(t) ==
  \E k \in DOMAIN previews : \E row \in previews[k].rows : t = <<"order", k, row.of>>

ErrorTag(t) ==
  \E k \in DOMAIN requestErrors :
    t = Tag(requestErrors[k].kind, k, requestErrors[k].serial)

MessageTag(m, t) ==
  \/ m.type = "row" /\ t = <<"request", m.id, m.row.of>>
  \/ m.type = "openOrder" /\ t = <<"order", m.id, m.row.of>>
  \/ m.type = "error" /\ t = Tag(m.about.kind, m.id, m.about.serial)

WireTag(t) == \E m : OnWire(m) /\ MessageTag(m, t)

Tagged(t) ==
  CallTag(t) \/ ServingTag(t) \/ RowTag(t) \/ PreviewTag(t) \/ ErrorTag(t) \/ WireTag(t)

Taken(t) ==
  \/ t[1] = "request" /\ t[2] \in 1..(nextRequestId - 1)
  \/ t[1] = "order" /\ \E k \in 1..Len(placed) : placed[k] = t[2]

TagInv ==
  /\ \A t : Tagged(t) => Taken(t)
  /\ \A t, u : Tagged(t) /\ Tagged(u) /\ t[1] = u[1] /\ t[2] = u[2] => t[3] = u[3]
  /\ \A k \in DOMAIN requestErrors : requestErrors[k].id = k
  /\ \A m : OnWire(m) /\ m.type = "error" => m.about.id = m.id

LEMMA TagParts ==
  ASSUME NEW kind, NEW id, NEW serial
  PROVE  /\ Tag(kind, id, serial)[1] = Class(kind)
         /\ Tag(kind, id, serial)[2] = id
         /\ Tag(kind, id, serial)[3] = serial
BY DEF Tag

LEMMA SentOnWire ==
  ASSUME TypeInv, NEW m, Send(m), NEW x, OnWire(x)'
  PROVE  OnWire(x) \/ x = m
<1>1. PICK k \in 1..Len(wire') : wire'[k] = x
  BY DEF OnWire
<1>2. /\ wire \in Seq(Messages) /\ wire' = Append(wire, m)
  BY DEF TypeInv, TwsTypes, Send
<1>3. /\ Len(wire) \in Nat /\ Len(wire') = Len(wire) + 1
      /\ \A j \in 1..Len(wire) : wire'[j] = wire[j]
      /\ wire'[Len(wire) + 1] = m
  <2> DEFINE Universe == Messages \cup {m}
  <2>1. wire \in Seq(Universe) /\ m \in Universe
    BY <1>2, LenProperties, ElementOfSeq, SeqDef
  <2> HIDE DEF Universe
  <2> QED
    BY <1>2, <2>1, AppendProperties, LenProperties
<1> QED
  BY <1>1, <1>3 DEF OnWire

LEMMA ReadFromWire ==
  ASSUME TypeInv, NEW type, Read(type)
  PROVE  /\ OnWire(Message)
         /\ \A x : OnWire(x)' => OnWire(x)
<1>1. /\ wire \in Seq(Messages) /\ wire' = Tail(wire) /\ wire # << >>
      /\ Message = wire[1] /\ Len(wire) \in Nat \ {0}
  BY EmptySeq, LenProperties, HeadTailProperties DEF TypeInv, TwsTypes, Read, Message
<1>2. Len(wire') = Len(wire) - 1 /\ \A k \in 1..Len(wire') : wire'[k] = wire[k + 1]
  BY <1>1, HeadTailProperties
<1> QED
  BY <1>1, <1>2 DEF OnWire

LEMMA SameWire == ASSUME UNCHANGED wire, NEW x PROVE OnWire(x)' <=> OnWire(x)
BY DEF OnWire

\* A step that brings no new tag.
LEMMA OldTags ==
  ASSUME TypeInv, TagInv, \A t : Tagged(t)' => Tagged(t),
         nextRequestId' = nextRequestId \/ nextRequestId' = nextRequestId + 1,
         UNCHANGED placed
  PROVE  /\ \A t : Tagged(t)' => Taken(t)'
         /\ \A t, u : Tagged(t)' /\ Tagged(u)' /\ t[1] = u[1] /\ t[2] = u[2] => t[3] = u[3]
<1>1. nextRequestId \in Nat
  BY DEF TypeInv, AppTypes
<1>2. \A t : Taken(t) => Taken(t)'
  BY <1>1 DEF Taken
<1> QED
  BY <1>2 DEF TagInv

\* A step that takes an ID: the tag is new.
LEMMA NewTag ==
  ASSUME TypeInv, OrderIdInv, TagInv, NEW new,
         \A t : Tagged(t)' => Tagged(t) \/ t = new,
         \/ /\ new[1] = "request" /\ new[2] = nextRequestId
            /\ nextRequestId' = nextRequestId + 1 /\ UNCHANGED placed
         \/ /\ new[1] = "order" /\ new[2] = nextOrderId /\ nextOrderId # NoOrderId
            /\ UNCHANGED nextRequestId /\ placed' = Append(placed, nextOrderId)
  PROVE  /\ \A t : Tagged(t)' => Taken(t)'
         /\ \A t, u : Tagged(t)' /\ Tagged(u)' /\ t[1] = u[1] /\ t[2] = u[2] => t[3] = u[3]
<1>1. nextRequestId \in Nat \ {0} /\ nextOrderId \in Nat /\ placed \in Seq(Nat \ {0})
      /\ Len(placed) \in Nat
  BY LenProperties DEF TypeInv, AppTypes, TwsTypes
<1>2. \A t : Tagged(t) => Taken(t) /\ ~(t[1] = new[1] /\ t[2] = new[2])
  <2> SUFFICES ASSUME NEW t, Tagged(t), t[1] = new[1], t[2] = new[2] PROVE FALSE
    BY DEF TagInv
  <2>1. Taken(t)
    BY DEF TagInv
  <2>2. CASE new[1] = "request"
    BY <1>1, <2>1, <2>2 DEF Taken
  <2>3. CASE new[1] = "order" /\ new[2] = nextOrderId /\ nextOrderId # NoOrderId
    <3>1. PICK k \in 1..Len(placed) : placed[k] = nextOrderId
      BY <2>1, <2>3 DEF Taken
    <3>2. placed[k] < nextOrderId
      BY <2>3, <3>1 DEF OrderIdInv, NextIsUnused, Unused
    <3> QED
      BY <1>1, <3>1, <3>2
  <2> QED
    BY <2>2, <2>3
<1>3. ASSUME NEW t, Taken(t) PROVE Taken(t)'
  <2>1. CASE t[1] = "request"
    BY <1>1, <1>3, <2>1 DEF Taken
  <2>2. CASE t[1] = "order"
    <3>1. PICK k \in 1..Len(placed) : placed[k] = t[2]
      BY <1>3, <2>2 DEF Taken
    <3>2. k \in 1..Len(placed') /\ placed'[k] = placed[k]
      BY <1>1, AppendProperties
    <3> QED
      BY <2>2, <3>1, <3>2 DEF Taken
  <2> QED
    BY <1>3, <2>1, <2>2 DEF Taken
<1>4. Taken(new)'
  <2>1. CASE new[1] = "request" /\ new[2] = nextRequestId /\ nextRequestId' = nextRequestId + 1
    BY <1>1, <2>1 DEF Taken
  <2>2. CASE /\ new[1] = "order" /\ new[2] = nextOrderId /\ nextOrderId # NoOrderId
             /\ placed' = Append(placed, nextOrderId)
    <3>1. nextOrderId \in Nat \ {0}
      BY <1>1, <2>2 DEF NoOrderId
    <3>2. Len(placed) + 1 \in 1..Len(placed') /\ placed'[Len(placed) + 1] = nextOrderId
      BY <1>1, <2>2, <3>1, AppendProperties
    <3> QED
      BY <2>2, <3>2 DEF Taken
  <2> QED
    BY <2>1, <2>2
<1> QED
  BY <1>2, <1>3, <1>4 DEF TagInv

\* The two maps of errors agree on what an error is about.
ErrorsFit ==
  /\ \A k \in DOMAIN requestErrors : requestErrors[k].id = k
  /\ \A m : OnWire(m) /\ m.type = "error" => m.about.id = m.id

\* A callback moves tags from the wire to the app.
LEMMA CallbackTags ==
  ASSUME TypeInv, TagInv, Callback
  PROVE  (\A t : Tagged(t)' => Tagged(t)) /\ ErrorsFit'
<1>0. /\ UNCHANGED <<call, serving, placed>>
      /\ requests \in [DOMAIN requests -> Pending] /\ previews \in [DOMAIN previews -> Pending]
      /\ requestErrors \in [DOMAIN requestErrors -> Abouts]
  BY DEF Callback, historyVars, TypeInv, AppTypes
<1>1. PICK type : Read(type)
  BY DEF Callback, NextValidId, Row, End, Position, PositionEnd, OpenOrder, ErrorOfId,
     ErrorWithoutId
<1>2. /\ OnWire(Message) /\ Message \in Messages /\ Message.type = type
      /\ \A x : OnWire(x)' => OnWire(x)
  BY <1>1, ReadTypes, ReadFromWire
<1>3. \A t : /\ CallTag(t)' => CallTag(t)
             /\ ServingTag(t)' => ServingTag(t)
             /\ WireTag(t)' => WireTag(t)
  BY <1>0, <1>2 DEF CallTag, ServingTag, WireTag
<1>4. \A t : RowTag(t)' => RowTag(t) \/ WireTag(t)
  <2>1. CASE Row
    <3> SUFFICES ASSUME NEW t, RowTag(t)' PROVE RowTag(t) \/ WireTag(t)
      OBVIOUS
    <3>1. type = "row"
      BY <1>2, <2>1 DEF Row, Read, Message
    <3>2. /\ DOMAIN requests' = DOMAIN requests
          /\ \A k \in DOMAIN requests :
               requests'[k].rows = requests[k].rows
               \/ (k = Message.id /\ requests'[k].rows = requests[k].rows \cup {Message.row})
      BY <1>0, <2>1 DEF Row, Pending
    <3>3. PICK k \in DOMAIN requests : \E row \in requests'[k].rows : t = <<"request", k, row.of>>
      BY <3>2 DEF RowTag
    <3>4. CASE \E row \in requests[k].rows : t = <<"request", k, row.of>>
      BY <3>4 DEF RowTag
    <3>5. CASE k = Message.id /\ t = <<"request", k, Message.row.of>>
      BY <1>2, <3>1, <3>5 DEF WireTag, MessageTag
    <3> QED
      BY <3>2, <3>3, <3>4, <3>5
  <2>2. CASE ~Row
    <3>1. /\ DOMAIN requests' = DOMAIN requests
          /\ \A k \in DOMAIN requests : requests'[k].rows = requests[k].rows
      BY <1>0, <2>2 DEF Callback, NextValidId, End, Position, PositionEnd, OpenOrder,
         ErrorOfId, ErrorWithoutId, WakeIn, Pending
    <3> QED
      BY <3>1 DEF RowTag
  <2> QED
    BY <2>1, <2>2
<1>5. \A t : PreviewTag(t)' => PreviewTag(t) \/ WireTag(t)
  <2>1. CASE OpenOrder
    <3> SUFFICES ASSUME NEW t, PreviewTag(t)' PROVE PreviewTag(t) \/ WireTag(t)
      OBVIOUS
    <3>1. type = "openOrder"
      BY <1>2, <2>1 DEF OpenOrder, Read, Message
    <3>2. /\ DOMAIN previews' = DOMAIN previews
          /\ \A k \in DOMAIN previews :
               previews'[k].rows = previews[k].rows
               \/ (k = Message.id /\ previews'[k].rows = previews[k].rows \cup {Message.row})
      BY <1>0, <2>1 DEF OpenOrder, Pending
    <3>3. PICK k \in DOMAIN previews : \E row \in previews'[k].rows : t = <<"order", k, row.of>>
      BY <3>2 DEF PreviewTag
    <3>4. CASE \E row \in previews[k].rows : t = <<"order", k, row.of>>
      BY <3>4 DEF PreviewTag
    <3>5. CASE k = Message.id /\ t = <<"order", k, Message.row.of>>
      BY <1>2, <3>1, <3>5 DEF WireTag, MessageTag
    <3> QED
      BY <3>2, <3>3, <3>4, <3>5
  <2>2. CASE ~OpenOrder
    <3>1. /\ DOMAIN previews' = DOMAIN previews
          /\ \A k \in DOMAIN previews : previews'[k].rows = previews[k].rows
      BY <1>0, <2>2 DEF Callback, NextValidId, Row, End, Position, PositionEnd,
         ErrorOfId, ErrorWithoutId, WakeIn, Pending
    <3> QED
      BY <3>1 DEF PreviewTag
  <2> QED
    BY <2>1, <2>2
<1>6. (\A t : ErrorTag(t)' => ErrorTag(t) \/ WireTag(t))
      /\ \A k \in DOMAIN requestErrors' : requestErrors'[k].id = k
  <2>1. CASE ErrorOfId
    <3>1. type = "error" /\ Message.about.id = Message.id
      BY <1>2, <2>1 DEF ErrorOfId, Read, Message, TagInv
    <3>2. /\ DOMAIN requestErrors' = DOMAIN requestErrors \cup {Message.id}
          /\ \A k \in DOMAIN requestErrors' :
               requestErrors'[k] = IF k = Message.id THEN Message.about ELSE requestErrors[k]
      BY <2>1 DEF ErrorOfId, Put
    <3>3. ASSUME NEW t, ErrorTag(t)' PROVE ErrorTag(t) \/ WireTag(t)
      <4>1. PICK k \in DOMAIN requestErrors' :
              t = Tag(requestErrors'[k].kind, k, requestErrors'[k].serial)
        BY <3>3 DEF ErrorTag, Tag, Class
      <4>2. CASE k = Message.id
        BY <1>2, <3>1, <3>2, <4>1, <4>2 DEF WireTag, MessageTag
      <4>3. CASE k # Message.id
        BY <3>2, <4>1, <4>3 DEF ErrorTag
      <4> QED
        BY <4>2, <4>3
    <3> QED
      BY <3>1, <3>2, <3>3 DEF TagInv
  <2>2. CASE ~ErrorOfId
    <3>1. requestErrors' = requestErrors
      BY <2>2 DEF Callback, NextValidId, Row, End, Position, PositionEnd, OpenOrder,
         ErrorWithoutId
    <3> QED
      BY <3>1 DEF ErrorTag, TagInv
  <2> QED
    BY <2>1, <2>2
<1> QED
  BY <1>2, <1>3, <1>4, <1>5, <1>6 DEF Tagged, ErrorsFit, TagInv

\* What TWS sends has the tag of what it answers.
LEMMA SendTags ==
  ASSUME TypeInv, TagInv, UNCHANGED <<requests, previews, requestErrors, call>>,
         \A t : ServingTag(t)' => ServingTag(t),
         UNCHANGED wire
         \/ \E m : /\ Send(m)
                   /\ \A t : MessageTag(m, t) => ServingTag(t)
                   /\ m.type = "error" => m.about.id = m.id
  PROVE  (\A t : Tagged(t)' => Tagged(t)) /\ ErrorsFit'
<1>1. \A t : /\ CallTag(t)' => CallTag(t)
             /\ RowTag(t)' => RowTag(t)
             /\ PreviewTag(t)' => PreviewTag(t)
             /\ ErrorTag(t)' => ErrorTag(t)
  BY DEF CallTag, RowTag, PreviewTag, ErrorTag
<1>2. CASE UNCHANGED wire
  <2>1. \A m : OnWire(m)' <=> OnWire(m)
    BY <1>2, SameWire
  <2> QED
    BY <1>1, <2>1 DEF Tagged, WireTag, ErrorsFit, TagInv
<1>3. ASSUME NEW m, Send(m), \A t : MessageTag(m, t) => ServingTag(t),
             m.type = "error" => m.about.id = m.id
      PROVE  (\A t : Tagged(t)' => Tagged(t)) /\ ErrorsFit'
  <2>1. \A x : OnWire(x)' => OnWire(x) \/ x = m
    BY <1>3, SentOnWire
  <2>2. \A t : WireTag(t)' => WireTag(t) \/ ServingTag(t)
    BY <1>3, <2>1 DEF WireTag
  <2> QED
    BY <1>1, <1>3, <2>1, <2>2 DEF Tagged, ErrorsFit, TagInv
<1> QED
  BY <1>2, <1>3

LEMMA TwsTags ==
  ASSUME TypeInv, TagInv, Tws
  PROVE  /\ (\A t : Tagged(t)' => Tagged(t)) /\ ErrorsFit'
         /\ UNCHANGED <<nextRequestId, placed>>
<1>0. UNCHANGED <<requests, previews, requestErrors, call, nextRequestId, placed>>
  BY DEF Tws, SendOrderId, SendGlobalError, SendRow, SendEnd, SendOpenOrder, SendError,
     PositionChanges, appVars, historyVars
<1> DEFINE Sent == \E m : /\ Send(m)
                          /\ \A t : MessageTag(m, t) => ServingTag(t)
                          /\ m.type = "error" => m.about.id = m.id
<1> DEFINE Fewer == \A t : ServingTag(t)' => ServingTag(t)
<1>1. CASE SendOrderId
  <2>1. Sent
    BY <1>1 DEF SendOrderId, MessageTag
  <2> QED
    BY <1>0, <1>1, <2>1, SendTags DEF SendOrderId, ServingTag
<1>2. CASE SendGlobalError
  <2>1. Sent
    BY <1>2 DEF SendGlobalError, MessageTag
  <2> QED
    BY <1>0, <1>2, <2>1, SendTags DEF SendGlobalError, ServingTag
<1>3. ASSUME NEW i \in Instruments, PositionChanges(i)
      PROVE  (\A t : Tagged(t)' => Tagged(t)) /\ ErrorsFit'
  <2>1. UNCHANGED wire \/ Sent
    BY <1>3 DEF PositionChanges, MessageTag
  <2> QED
    BY <1>0, <1>3, <2>1, SendTags DEF PositionChanges, ServingTag
<1>4. ASSUME NEW r \in serving, SendRow(r)
      PROVE  (\A t : Tagged(t)' => Tagged(t)) /\ ErrorsFit'
  <2>0. [r EXCEPT !.sent = @ + 1].kind = r.kind /\ [r EXCEPT !.sent = @ + 1].id = r.id
        /\ [r EXCEPT !.sent = @ + 1].serial = r.serial
    BY DEF TypeInv, TwsTypes
  <2>1. Fewer
    BY <1>4, <2>0 DEF SendRow, Progress, ServingTag
  <2>2. CASE r.kind = "positions"
    <3>1. Sent
      BY <1>4, <2>2 DEF SendRow, MessageTag
    <3> QED
      BY <1>0, <2>1, <3>1, SendTags
  <2>3. CASE r.kind = "request"
    <3>1. ServingTag(<<"request", r.id, r.serial>>)
      BY <2>3 DEF ServingTag, Tag, Class, OrderKinds
    <3>2. PICK m : Send(m) /\ m = [type |-> "row", id |-> r.id,
                                   row |-> [of |-> r.serial, part |-> r.sent + 1]]
      BY <1>4, <2>3 DEF SendRow
    <3>3. \A t : MessageTag(m, t) => ServingTag(t)
      BY <3>1, <3>2 DEF MessageTag
    <3> QED
      BY <1>0, <2>1, <3>2, <3>3, SendTags
  <2> QED
    BY <1>4, <2>2, <2>3 DEF SendRow
<1>5. ASSUME NEW r \in serving, SendEnd(r)
      PROVE  (\A t : Tagged(t)' => Tagged(t)) /\ ErrorsFit'
  <2>1. Fewer
    BY <1>5 DEF SendEnd, ServingTag
  <2>2. Sent
    <3>1. CASE r.kind = "positions"
      BY <1>5, <3>1 DEF SendEnd, MessageTag
    <3>2. CASE r.kind # "positions"
      BY <1>5, <3>2 DEF SendEnd, MessageTag
    <3> QED
      BY <3>1, <3>2
  <2> QED
    BY <1>0, <2>1, <2>2, SendTags
<1>6. ASSUME NEW r \in serving, SendOpenOrder(r)
      PROVE  (\A t : Tagged(t)' => Tagged(t)) /\ ErrorsFit'
  <2>1. Fewer
    BY <1>6 DEF SendOpenOrder, ServingTag
  <2>2. ServingTag(<<"order", r.id, r.serial>>)
    BY <1>6 DEF SendOpenOrder, ServingTag, Tag, Class, OrderKinds
  <2>3. PICK m : Send(m) /\ m = [type |-> "openOrder", id |-> r.id,
                                 row |-> [of |-> r.serial, part |-> 1]]
    BY <1>6 DEF SendOpenOrder
  <2>4. \A t : MessageTag(m, t) => ServingTag(t)
    BY <2>2, <2>3 DEF MessageTag
  <2> QED
    BY <1>0, <2>1, <2>3, <2>4, SendTags
<1>7. ASSUME NEW r \in serving, SendError(r)
      PROVE  (\A t : Tagged(t)' => Tagged(t)) /\ ErrorsFit'
  <2>1. Fewer
    BY <1>7 DEF SendError, ServingTag
  <2>2. ServingTag(Tag(r.kind, r.id, r.serial))
    BY <1>7 DEF SendError, ServingTag
  <2>3. PICK m : Send(m) /\ m = [type |-> "error", id |-> r.id, about |-> [kind |-> r.kind,
                                 id |-> r.id, serial |-> r.serial]]
    BY <1>7 DEF SendError
  <2>4. \A t : MessageTag(m, t) => ServingTag(t)
    BY <2>2, <2>3 DEF MessageTag
  <2> QED
    BY <1>0, <2>1, <2>3, <2>4, SendTags
<1> QED
  BY <1>0, <1>1, <1>2, <1>3, <1>4, <1>5, <1>6, <1>7 DEF Tws

\* A step of the caller: the wire and the errors stay, the call and what TWS
\* serves may gain one tag, and a request or a preview is registered with no rows.
LEMMA CallerTags ==
  ASSUME TypeInv, TagInv, UNCHANGED <<wire, requestErrors>>, NEW allowed,
         \A t : CallTag(t)' => CallTag(t) \/ t \in allowed,
         \A t : ServingTag(t)' => ServingTag(t) \/ t \in allowed,
         \A k \in DOMAIN requests' : \/ requests'[k].rows = {}
                                     \/ k \in DOMAIN requests /\ requests'[k] = requests[k],
         \A k \in DOMAIN previews' : \/ previews'[k].rows = {}
                                     \/ k \in DOMAIN previews /\ previews'[k] = previews[k]
  PROVE  (\A t : Tagged(t)' => Tagged(t) \/ t \in allowed) /\ ErrorsFit'
<1>1. \A t : ErrorTag(t)' => ErrorTag(t)
  BY DEF ErrorTag
<1>2. \A t : RowTag(t)' => RowTag(t)
  BY DEF RowTag
<1>3. \A t : PreviewTag(t)' => PreviewTag(t)
  BY DEF PreviewTag
<1>4. \A m : OnWire(m)' <=> OnWire(m)
  BY SameWire
<1>5. \A t : WireTag(t)' => WireTag(t)
  BY <1>4 DEF WireTag
<1> QED
  BY <1>1, <1>2, <1>3, <1>4, <1>5 DEF Tagged, ErrorsFit, TagInv

LEMMA TagStep == TypeInv /\ OrderIdInv /\ TagInv /\ [Next]_vars => TagInv'
<1> SUFFICES ASSUME TypeInv, OrderIdInv, TagInv, [Next]_vars PROVE TagInv'
  OBVIOUS
<1> DEFINE Same == \A t : Tagged(t)' => Tagged(t)
           Kept == \A k \in DOMAIN requests' :
                     \/ requests'[k].rows = {}
                     \/ k \in DOMAIN requests /\ requests'[k] = requests[k]
           KeptPreviews == \A k \in DOMAIN previews' :
                     \/ previews'[k].rows = {}
                     \/ k \in DOMAIN previews /\ previews'[k] = previews[k]
<1>0. calls \in Nat /\ nextOrderId \in Nat /\ nextRequestId \in Nat
  BY DEF TypeInv, AppTypes, TwsTypes
<1>1. ASSUME Same, ErrorsFit', UNCHANGED placed,
             nextRequestId' = nextRequestId \/ nextRequestId' = nextRequestId + 1
      PROVE  TagInv'
  <2>1. /\ \A t : Tagged(t)' => Taken(t)'
        /\ \A t, u : Tagged(t)' /\ Tagged(u)' /\ t[1] = u[1] /\ t[2] = u[2] => t[3] = u[3]
    BY <1>1, OldTags
  <2> QED
    BY <1>1, <2>1 DEF TagInv, ErrorsFit
<1>2. CASE Callback
  <2>1. UNCHANGED <<placed, nextRequestId>>
    BY <1>2 DEF Callback, historyVars, NextValidId, Row, End, Position, PositionEnd,
       OpenOrder, ErrorOfId, ErrorWithoutId
  <2> QED
    BY <1>1, <1>2, <2>1, CallbackTags
<1>3. CASE Tws
  BY <1>1, <1>3, TwsTags
<1>4. CASE UNCHANGED vars
  <2>1. \A t : ServingTag(t)' => ServingTag(t)
    BY <1>4 DEF vars, twsVars, ServingTag
  <2>2. UNCHANGED <<requests, previews, requestErrors, call, wire, placed, nextRequestId>>
    BY <1>4 DEF vars, appVars, twsVars, historyVars
  <2> QED
    BY <1>1, <2>1, <2>2, SendTags
<1>5. CASE Connect
  <2>1. \A t : ~Tagged(t)'
    <3>1. \A m : ~OnWire(m)'
      BY <1>5, LenProperties DEF Connect, OnWire
    <3>2. call'.kind = "connect"
      BY <1>5 DEF Connect, NewCall
    <3>3. serving' = {} /\ DOMAIN requests' = {} /\ DOMAIN previews' = {}
          /\ DOMAIN requestErrors' = {}
      BY <1>5, NothingMapped DEF Connect, FreshApp
    <3> QED
      BY <3>1, <3>2, <3>3 DEF Tagged, CallTag, ServingTag, RowTag, PreviewTag, ErrorTag, WireTag
  <2>2. ErrorsFit'
    <3>1. \A m : ~OnWire(m)'
      BY <1>5, LenProperties DEF Connect, OnWire
    <3>2. DOMAIN requestErrors' = {}
      BY <1>5, NothingMapped DEF Connect, FreshApp
    <3> QED
      BY <3>1, <3>2 DEF ErrorsFit
  <2> QED
    BY <2>1, <2>2 DEF TagInv, ErrorsFit
<1>6. ASSUME UNCHANGED <<wire, requestErrors, placed>>, Kept, KeptPreviews,
             nextRequestId' = nextRequestId \/ nextRequestId' = nextRequestId + 1,
             call' = call \/ call'.kind \notin {"request", "preview"},
             \A t : ServingTag(t)' => ServingTag(t)
      PROVE  TagInv'
  <2>0. PICK none : none = {}
    OBVIOUS
  <2>1. \A t : CallTag(t)' => CallTag(t) \/ t \in none
    BY <1>6 DEF CallTag
  <2>2. (\A t : Tagged(t)' => Tagged(t) \/ t \in none) /\ ErrorsFit'
    BY <1>6, <2>1, CallerTags
  <2> QED
    BY <1>1, <1>6, <2>0, <2>2
<1>7. CASE \/ ConnectReturns \/ ConnectTimesOut \/ RequestReturns \/ RequestTimesOut
           \/ PositionsReturn \/ PositionsTimeOut \/ PreviewReturns \/ PreviewTimesOut
           \/ ResetRows \/ RequestPositions \/ PositionsNotRequested \/ NoOrderIdYet
  <2>1. UNCHANGED <<wire, requestErrors, placed, nextRequestId, requests>>
    BY <1>7 DEF ConnectReturns, ConnectTimesOut, RequestReturns,
       RequestTimesOut, ResetRows, RequestPositions, PositionsNotRequested,
       PositionsReturn, PositionsTimeOut, NoOrderIdYet, PreviewReturns, PreviewTimesOut,
       appVars, twsVars, historyVars
  <2>2. KeptPreviews
    <3>1. UNCHANGED previews \/ \E id : Forget(id)
      BY <1>7 DEF ConnectReturns, ConnectTimesOut, RequestReturns,
         RequestTimesOut, ResetRows, RequestPositions, PositionsNotRequested,
         PositionsReturn, PositionsTimeOut, NoOrderIdYet, PreviewReturns, PreviewTimesOut,
         appVars
    <3> QED
      BY <3>1 DEF Forget
  <2>3. call' = call \/ call'.kind \notin {"request", "preview"}
    <3>1. CASE NoOrderIdYet
      BY <3>1 DEF NoOrderIdYet
    <3>2. CASE ResetRows
      BY <3>2 DEF ResetRows, NewCall
    <3>3. CASE RequestPositions
      BY <3>3 DEF RequestPositions
    <3>4. CASE ~NoOrderIdYet /\ ~ResetRows /\ ~RequestPositions
      <4>1. call' = NoCall
        BY <1>7, <3>4 DEF ConnectReturns, ConnectTimesOut, RequestReturns,
           RequestTimesOut, PositionsNotRequested, PositionsReturn, PositionsTimeOut,
           PreviewReturns, PreviewTimesOut, GiveUp, EndCall
      <4> QED
        BY <4>1 DEF NoCall
    <3> QED
      BY <3>1, <3>2, <3>3, <3>4
  <2>4. \A t : ServingTag(t)' => ServingTag(t)
    <3>1. CASE RequestPositions
      <4>1. call'.kind = "positions" /\ Serve(call')
        BY <3>1 DEF RequestPositions
      <4> QED
        BY <4>1 DEF Serve, ServingTag
    <3>2. CASE ~RequestPositions
      <4>1. serving' \subseteq serving
        BY <1>7, <3>2 DEF ConnectReturns, ConnectTimesOut, RequestReturns,
           RequestTimesOut, ResetRows, PositionsNotRequested,
           PositionsReturn, PositionsTimeOut, NoOrderIdYet, PreviewReturns, PreviewTimesOut,
           twsVars
      <4> QED
        BY <4>1 DEF ServingTag
    <3> QED
      BY <3>1, <3>2
  <2> QED
    BY <1>6, <2>1, <2>2, <2>3, <2>4
<1>8. CASE \E kind \in OrderKinds \cup {"request"} : SendRaises(kind)
  <2>1. UNCHANGED <<wire, requestErrors, placed, call, serving, previews>>
    BY <1>8 DEF SendRaises, twsVars
  <2>2. \/ UNCHANGED <<nextRequestId, requests>>
        \/ /\ nextRequestId' = nextRequestId + 1
           /\ requests' = Put(requests, nextRequestId, [rows |-> {}, event |-> FALSE])
    BY <1>8 DEF SendRaises, IdAfter
  <2>3. Kept
    BY <2>2 DEF Put
  <2>4. \A t : ServingTag(t)' => ServingTag(t)
    BY <2>1 DEF ServingTag
  <2> QED
    BY <1>6, <2>1, <2>2, <2>3, <2>4
<1>9. CASE RequestRows
  <2> DEFINE new == Tag("request", nextRequestId, calls')
  <2>1. /\ call'.kind = "request" /\ call'.id = nextRequestId /\ call'.serial = calls'
        /\ Serve(call') /\ nextRequestId' = nextRequestId + 1
        /\ UNCHANGED <<wire, requestErrors, placed, previews>>
        /\ requests' = Put(requests, nextRequestId, [rows |-> {}, event |-> FALSE])
    BY <1>9 DEF RequestRows, NewCall, IdAfter
  <2>2. PICK t : t = new /\ t[1] = "request" /\ t[2] = nextRequestId
    <3>1. new[1] = "request" /\ new[2] = nextRequestId
      BY TagParts DEF Class, OrderKinds
    <3> HIDE DEF new
    <3> QED
      BY <3>1
  <2> HIDE DEF new
  <2>3. \A u : CallTag(u)' => CallTag(u) \/ u \in {t}
    BY <2>1, <2>2 DEF CallTag, new
  <2>4. \A u : ServingTag(u)' => ServingTag(u) \/ u \in {t}
    BY <2>1, <2>2 DEF Serve, ServingTag, new
  <2>5. Kept /\ KeptPreviews
    BY <2>1 DEF Put
  <2>6. (\A u : Tagged(u)' => Tagged(u) \/ u \in {t}) /\ ErrorsFit'
    BY <2>1, <2>3, <2>4, <2>5, CallerTags
  <2>7. /\ \A u : Tagged(u)' => Taken(u)'
        /\ \A u, v : Tagged(u)' /\ Tagged(v)' /\ u[1] = v[1] /\ u[2] = v[2] => u[3] = v[3]
    BY <2>1, <2>2, <2>6, NewTag
  <2> QED
    BY <2>6, <2>7 DEF TagInv, ErrorsFit
<1>10. CASE SubmitOrder \/ PreviewMargin
  <2> DEFINE new == Tag("order", nextOrderId, calls')
  <2>0. nextOrderId # NoOrderId
    BY <1>10 DEF SubmitOrder, PreviewMargin, TakeOrderId
  <2>1. PICK c : /\ c.kind \in OrderKinds /\ c.id = nextOrderId /\ c.serial = calls'
                 /\ Serve(c)
                 /\ UNCHANGED call \/ call' = c
    BY <1>10 DEF SubmitOrder, PreviewMargin, NewCall, OrderKinds
  <2>2. /\ placed' = Append(placed, nextOrderId)
        /\ UNCHANGED <<wire, requestErrors, nextRequestId, requests>>
        /\ UNCHANGED previews
           \/ previews' = Put(previews, nextOrderId, [rows |-> {}, event |-> FALSE])
    BY <1>10 DEF SubmitOrder, PreviewMargin
  <2>3. PICK t : t = new /\ t[1] = "order" /\ t[2] = nextOrderId
    <3>1. new[1] = "order" /\ new[2] = nextOrderId
      BY TagParts DEF Class, OrderKinds
    <3> HIDE DEF new
    <3> QED
      BY <3>1
  <2>4. Tag(c.kind, c.id, c.serial) = t
    BY <2>1, <2>3 DEF Tag, Class, OrderKinds
  <2> HIDE DEF new
  <2>5. \A u : CallTag(u)' => CallTag(u) \/ u \in {t}
    BY <2>1, <2>4 DEF CallTag
  <2>6. \A u : ServingTag(u)' => ServingTag(u) \/ u \in {t}
    BY <2>1, <2>4 DEF Serve, ServingTag
  <2>7. Kept /\ KeptPreviews
    BY <2>2 DEF Put
  <2>8. (\A u : Tagged(u)' => Tagged(u) \/ u \in {t}) /\ ErrorsFit'
    BY <2>2, <2>5, <2>6, <2>7, CallerTags
  <2>9. /\ \A u : Tagged(u)' => Taken(u)'
        /\ \A u, v : Tagged(u)' /\ Tagged(v)' /\ u[1] = v[1] /\ u[2] = v[2] => u[3] = v[3]
    BY <2>0, <2>2, <2>3, <2>8, NewTag
  <2> QED
    BY <2>8, <2>9 DEF TagInv, ErrorsFit
<1> QED
  BY <1>2, <1>3, <1>4, <1>5, <1>7, <1>8, <1>9, <1>10 DEF Next, Caller

LEMMA TagInvariant == Spec => []TagInv
<1>1. Init => TagInv
  <2> SUFFICES ASSUME Init PROVE TagInv
    OBVIOUS
  <2>1. \A m : ~OnWire(m)
    BY LenProperties DEF Init, OnWire
  <2>2. call.kind = "none" /\ serving = {}
    BY DEF Init, NoCall
  <2>3. DOMAIN requests = {} /\ DOMAIN previews = {} /\ DOMAIN requestErrors = {}
    BY NothingMapped DEF Init
  <2>4. \A t : ~Tagged(t)
    BY <2>1, <2>2, <2>3
    DEF Tagged, CallTag, ServingTag, RowTag, PreviewTag, ErrorTag, WireTag
  <2> QED
    BY <2>1, <2>3, <2>4 DEF TagInv
<1> QED
  BY <1>1, TypesInductive, OrderIdsAscend, TagStep, PTL DEF Spec

\* The error a failing call is given.
LEMMA FailedCall ==
  ASSUME TypeInv, TagInv, NEW id,
         id = -1 \/ (call.kind \in {"request", "preview"} /\ id = call.id),
         NEW cause, cause = PendingError(id) \/ cause = TimeOut,
         "serial" \in DOMAIN cause
  PROVE  \/ cause.serial = call.serial
         \/ /\ cause.id = call.id
            /\ cause.kind \in OrderKinds <=> call.kind \notin OrderKinds
<1>1. cause = requestErrors[id] /\ id \in DOMAIN requestErrors
  <2>1. "serial" \notin DOMAIN TimeOut /\ "serial" \notin DOMAIN NoCause
        /\ "serial" \notin DOMAIN Global
    BY DEF TimeOut, NoCause, Global
  <2> QED
    BY <2>1 DEF PendingError
<1>2. id # -1
  BY <1>1 DEF TypeInv, AppTypes
<1>3. call.kind \in {"request", "preview"} /\ id = call.id /\ cause.id = call.id
  BY <1>1, <1>2 DEF TagInv
<1> DEFINE t == Tag(cause.kind, id, cause.serial)
           u == Tag(call.kind, id, call.serial)
<1>4. Tagged(t) /\ Tagged(u)
  BY <1>1, <1>3 DEF Tagged, ErrorTag, CallTag
<1>5. /\ t[1] = Class(cause.kind) /\ t[2] = id /\ t[3] = cause.serial
      /\ u[1] = Class(call.kind) /\ u[2] = id /\ u[3] = call.serial
  BY DEF Tag
<1> HIDE DEF t, u
<1>6. Class(cause.kind) = Class(call.kind) => cause.serial = call.serial
  BY <1>4, <1>5 DEF TagInv
<1>7. Class(cause.kind) # Class(call.kind) =>
        (cause.kind \in OrderKinds <=> call.kind \notin OrderKinds)
  BY DEF Class
<1> QED
  BY <1>3, <1>6, <1>7

LEMMA FailureStep ==
  TypeInv /\ TagInv /\ FailuresExplained /\ [Next]_vars => FailuresExplained'
<1> SUFFICES ASSUME TypeInv, TagInv, FailuresExplained, [Next]_vars PROVE FailuresExplained'
  OBVIOUS
<1>1. CASE UNCHANGED outcome
  BY <1>1 DEF FailuresExplained
<1>2. ASSUME NEW ok, NEW cause, NEW rows, EndCall(ok, cause, rows), NEW id,
             ok \/ cause = PendingError(id) \/ cause = TimeOut,
             id = -1 \/ (call.kind \in {"request", "preview"} /\ id = call.id)
      PROVE  FailuresExplained'
  <2>1. /\ outcome'.kind = call.kind /\ outcome'.call = call
        /\ outcome'.ok = ok /\ outcome'.cause = cause
    BY <1>2 DEF EndCall
  <2> QED
    BY <1>2, <2>1, FailedCall DEF FailuresExplained
<1>3. CASE \/ ConnectReturns \/ ConnectTimesOut \/ PositionsReturn \/ PositionsTimeOut
  <2>1. \E ok, cause, rows : /\ EndCall(ok, cause, rows)
                             /\ ok \/ cause = PendingError(-1) \/ cause = TimeOut
    BY <1>3 DEF ConnectReturns, ConnectTimesOut, PositionsReturn, PositionsTimeOut, GiveUp
  <2> QED
    BY <1>2, <2>1
<1>4. CASE RequestReturns \/ RequestTimesOut \/ PreviewReturns \/ PreviewTimesOut
  <2>1. /\ call.kind \in {"request", "preview"}
        /\ \E ok, cause, rows : /\ EndCall(ok, cause, rows)
                                /\ ok \/ cause = PendingError(call.id) \/ cause = TimeOut
    BY <1>4 DEF RequestReturns, RequestTimesOut, PreviewReturns, PreviewTimesOut, GiveUp
  <2> QED
    BY <1>2, <2>1
<1>5. CASE \/ NoOrderIdYet \/ SubmitOrder \/ PositionsNotRequested
           \/ \E kind \in OrderKinds \cup {"request"} : SendRaises(kind)
  <2>1. outcome'.ok = TRUE \/ "serial" \notin DOMAIN outcome'.cause
    <3>1. CASE NoOrderIdYet
      BY <3>1 DEF NoOrderIdYet
    <3>2. CASE SubmitOrder
      BY <3>2 DEF SubmitOrder
    <3>3. CASE PositionsNotRequested
      BY <3>3 DEF PositionsNotRequested
    <3>4. ASSUME NEW kind, SendRaises(kind) PROVE "serial" \notin DOMAIN outcome'.cause
      BY <3>4 DEF SendRaises
    <3> QED
      BY <1>5, <3>1, <3>2, <3>3, <3>4
  <2> QED
    BY <2>1 DEF FailuresExplained
<1>6. CASE Connect \/ RequestRows \/ ResetRows \/ PreviewMargin
  <2>1. outcome' = NoOutcome
    BY <1>6 DEF Connect, RequestRows, ResetRows, PreviewMargin
  <2> QED
    BY <2>1 DEF FailuresExplained, NoOutcome
<1>7. CASE RequestPositions \/ Tws \/ Callback \/ UNCHANGED vars
  BY <1>1, <1>7 DEF RequestPositions, Tws, Callback, SendOrderId, SendGlobalError,
     SendRow, SendEnd, SendOpenOrder, SendError, PositionChanges, vars
<1> QED
  BY <1>3, <1>4, <1>5, <1>6, <1>7 DEF Next, Caller

\* A call that fails on an error TWS sent for an ID fails on its own error, or on
\* that of an order that has the number of a request, or of a request that has the
\* number of an order; never on the error of an earlier call of its kind.
THEOREM FailuresHaveReasons == Spec => []FailuresExplained
<1>1. Init => FailuresExplained
  BY DEF Init, FailuresExplained, NoOutcome
<1> QED
  BY <1>1, TypesInductive, TagInvariant, FailureStep, PTL DEF Spec

-----------------------------------------------------------------------------
(* Complete answers.  Each part of an answer TWS has sent is in the app or  *)
(* on the wire, in front of the end of the answer, so that the end arrives  *)
(* after all of them.                                                       *)

Arrived(id, p) == \E row \in requests[id].rows : row.part = p

\* Part p of the answer to id is on the wire, before position n.
Coming(id, p, n) ==
  \E k \in 1..Len(wire) :
    k < n /\ wire[k].type = "row" /\ wire[k].id = id /\ wire[k].row.part = p

OnItsWay(id, p, n) == Arrived(id, p) \/ Coming(id, p, n)

PartsFit ==
  /\ \A m : OnWire(m) /\ m.type = "row" => m.row.part \in 1..Parts
  /\ \A m : OnWire(m) /\ m.type = "openOrder" => m.row.part = 1
  /\ \A id \in DOMAIN requests : \A row \in requests[id].rows : row.part \in 1..Parts
  /\ \A id \in DOMAIN previews : \A row \in previews[id].rows : row.part = 1

WokenWithReason ==
  /\ \A id \in DOMAIN requests :
       requests[id].event =>
         id \in DOMAIN requestErrors \/ \A p \in 1..Parts : Arrived(id, p)
  /\ \A id \in DOMAIN previews :
       previews[id].event => id \in DOMAIN requestErrors \/ previews[id].rows # {}

EndsAreLast ==
  \A k \in 1..Len(wire) : wire[k].type = "end" =>
    wire[k].id \in DOMAIN requests /\ \A p \in 1..Parts : OnItsWay(wire[k].id, p, k)

ServedInOrder ==
  \A r \in serving : r.kind = "request" =>
    r.id \in DOMAIN requests /\ \A p \in 1..r.sent : OnItsWay(r.id, p, Len(wire) + 1)

AnswerInv == PartsFit /\ WokenWithReason /\ EndsAreLast /\ ServedInOrder

\* Reading a message shifts the rest of the wire.
LEMMA ReadShifts ==
  ASSUME TypeInv, NEW type, Read(type)
  PROVE  /\ Len(wire) \in Nat \ {0} /\ Len(wire') = Len(wire) - 1 /\ Message = wire[1]
         /\ \A k \in 1..Len(wire') : k + 1 \in 1..Len(wire) /\ wire'[k] = wire[k + 1]
<1>1. /\ wire \in Seq(Messages) /\ wire' = Tail(wire) /\ wire # << >>
      /\ Message = wire[1] /\ Len(wire) \in Nat \ {0}
  BY EmptySeq, LenProperties, HeadTailProperties DEF TypeInv, TwsTypes, Read, Message
<1>2. Len(wire') = Len(wire) - 1 /\ \A k \in 1..Len(wire') : wire'[k] = wire[k + 1]
  BY <1>1, HeadTailProperties
<1> QED
  BY <1>1, <1>2

LEMMA SendExtends ==
  ASSUME TypeInv, NEW m, Send(m)
  PROVE  /\ Len(wire) \in Nat /\ Len(wire') = Len(wire) + 1
         /\ \A j \in 1..Len(wire) : wire'[j] = wire[j]
         /\ wire'[Len(wire) + 1] = m
<1>1. /\ wire \in Seq(Messages) /\ wire' = Append(wire, m)
  BY DEF TypeInv, TwsTypes, Send
<1> DEFINE Universe == Messages \cup {m}
<1>2. wire \in Seq(Universe) /\ m \in Universe
  BY <1>1, LenProperties, ElementOfSeq, SeqDef
<1> HIDE DEF Universe
<1> QED
  BY <1>1, <1>2, AppendProperties, LenProperties

\* What a callback does to the requests: the rows of a registered request stay,
\* and the row it reads is added.
LEMMA CallbackRows ==
  ASSUME TypeInv, Callback
  PROVE  /\ DOMAIN requests' = DOMAIN requests /\ DOMAIN previews' = DOMAIN previews
         /\ \A id \in DOMAIN requests :
              requests'[id].rows =
                IF Message.type = "row" /\ Message.id = id
                THEN requests[id].rows \cup {Message.row} ELSE requests[id].rows
         /\ \A id \in DOMAIN previews :
              previews'[id].rows =
                IF Message.type = "openOrder" /\ Message.id = id
                THEN previews[id].rows \cup {Message.row} ELSE previews[id].rows
         /\ DOMAIN requestErrors' =
              IF Message.type = "error" THEN DOMAIN requestErrors \cup {Message.id}
              ELSE DOMAIN requestErrors
         /\ \A id \in DOMAIN requests :
              requests'[id].event =>
                requests[id].event \/ (Message.id = id /\ Message.type \in {"end", "error"})
         /\ \A id \in DOMAIN previews :
              previews'[id].event =>
                \/ previews[id].event
                \/ Message.id = id /\ Message.type \in {"openOrder", "error"}
<1>0. /\ requests \in [DOMAIN requests -> Pending] /\ previews \in [DOMAIN previews -> Pending]
  BY DEF TypeInv, AppTypes
<1>1. CASE Row
  <2>1. Message.type = "row"
    BY <1>1 DEF Row, Read, Message
  <2> QED
    BY <1>0, <1>1, <2>1 DEF Row, Pending
<1>2. CASE End
  <2>1. Message.type = "end"
    BY <1>2 DEF End, Read, Message
  <2> QED
    BY <1>0, <1>2, <2>1 DEF End, WakeIn, Pending
<1>3. CASE OpenOrder
  <2>1. Message.type = "openOrder"
    BY <1>3 DEF OpenOrder, Read, Message
  <2> QED
    BY <1>0, <1>3, <2>1 DEF OpenOrder, Pending
<1>4. CASE ErrorOfId
  <2>1. Message.type = "error"
    BY <1>4 DEF ErrorOfId, Read, Message
  <2> QED
    BY <1>0, <1>4, <2>1 DEF ErrorOfId, WakeIn, Put, Pending
<1>5. CASE NextValidId \/ Position \/ PositionEnd \/ ErrorWithoutId
  <2>1. Message.type \in {"nextValidId", "position", "positionEnd", "globalError"}
        /\ UNCHANGED <<requests, previews, requestErrors>>
    BY <1>5 DEF NextValidId, Position, PositionEnd, ErrorWithoutId, Read, Message
  <2> QED
    BY <2>1
<1> QED
  BY <1>1, <1>2, <1>3, <1>4, <1>5 DEF Callback

LEMMA AnswerCallback ==
  ASSUME TypeInv, AnswerInv, Callback
  PROVE  AnswerInv'
<1>0. PICK type : Read(type)
  BY DEF Callback, NextValidId, Row, End, Position, PositionEnd, OpenOrder, ErrorOfId,
     ErrorWithoutId
<1>1. /\ Len(wire) \in Nat \ {0} /\ Len(wire') = Len(wire) - 1 /\ Message = wire[1]
      /\ \A k \in 1..Len(wire') : k + 1 \in 1..Len(wire) /\ wire'[k] = wire[k + 1]
      /\ OnWire(Message)
      /\ \A x : OnWire(x)' => OnWire(x)
  BY <1>0, ReadShifts, ReadFromWire
<1>2. PartsFit'
  <2>0. PartsFit
    BY DEF AnswerInv
  <2>1. ASSUME NEW id \in DOMAIN requests', NEW row \in requests'[id].rows
        PROVE  row.part \in 1..Parts
    <3>0. id \in DOMAIN requests /\ (\/ requests'[id].rows = requests[id].rows
                                \/ /\ requests'[id].rows = requests[id].rows \cup {Message.row}
                                   /\ Message.type = "row")
      BY <2>1, CallbackRows
    <3>1. row \in requests[id].rows \/ (row = Message.row /\ Message.type = "row")
      BY <2>1, <3>0
    <3> QED
      BY <1>1, <2>0, <2>1, <3>1, CallbackRows DEF PartsFit
  <2>2. ASSUME NEW id \in DOMAIN previews', NEW row \in previews'[id].rows
        PROVE  row.part = 1
    <3>0. id \in DOMAIN previews /\ (\/ previews'[id].rows = previews[id].rows
                                \/ /\ previews'[id].rows = previews[id].rows \cup {Message.row}
                                   /\ Message.type = "openOrder")
      BY <2>2, CallbackRows
    <3>1. row \in previews[id].rows \/ (row = Message.row /\ Message.type = "openOrder")
      BY <2>2, <3>0
    <3> QED
      BY <1>1, <2>0, <2>2, <3>1, CallbackRows DEF PartsFit
  <2> QED
    BY <1>1, <2>0, <2>1, <2>2 DEF PartsFit
<1>3. ASSUME NEW id \in DOMAIN requests, NEW p, NEW n \in Nat, NEW m, m = n - 1, OnItsWay(id, p, n)
      PROVE  OnItsWay(id, p, m)'
  <2>1. CASE Arrived(id, p)
    BY <2>1, CallbackRows DEF Arrived, OnItsWay
  <2>2. CASE Coming(id, p, n)
    <3>1. PICK k \in 1..Len(wire) :
            k < n /\ wire[k].type = "row" /\ wire[k].id = id /\ wire[k].row.part = p
      BY <2>2 DEF Coming
    <3>2. CASE k = 1
      BY <1>1, <3>1, <3>2, CallbackRows DEF Arrived, OnItsWay
    <3>3. CASE k # 1
      <4>1. k - 1 \in 1..Len(wire') /\ wire'[k - 1] = wire[k] /\ k - 1 < m
        BY <1>1, <1>3, <3>1, <3>3
      <4> QED
        BY <3>1, <4>1 DEF OnItsWay, Coming
    <3> QED
      BY <3>2, <3>3
  <2> QED
    BY <1>3, <2>1, <2>2 DEF OnItsWay
<1>4. WokenWithReason'
  <2>1. ASSUME NEW id \in DOMAIN requests', requests'[id].event, id \notin DOMAIN requestErrors',
               NEW p \in 1..Parts
        PROVE  Arrived(id, p)'
    <3>1. id \in DOMAIN requests /\ id \notin DOMAIN requestErrors
      BY <2>1, CallbackRows
    <3>2. CASE requests[id].event
      <4>1. Arrived(id, p)
        BY <2>1, <3>1, <3>2 DEF AnswerInv, WokenWithReason
      <4> QED
        BY <3>1, <4>1, CallbackRows DEF Arrived
    <3>3. CASE Message.id = id /\ Message.type = "end"
      <4>1. OnItsWay(id, p, 1)
        BY <1>1, <3>3, <2>1 DEF AnswerInv, EndsAreLast
      <4>2. Arrived(id, p)
        BY <1>1, <4>1 DEF OnItsWay, Coming
      <4> QED
        BY <3>1, <4>2, CallbackRows DEF Arrived
    <3> QED
      BY <2>1, <3>1, <3>2, <3>3, CallbackRows
  <2>2. ASSUME NEW id \in DOMAIN previews', previews'[id].event, id \notin DOMAIN requestErrors'
        PROVE  previews'[id].rows # {}
    <3>1. id \in DOMAIN previews /\ id \notin DOMAIN requestErrors
      BY <2>2, CallbackRows
    <3>2. CASE previews[id].event
      BY <3>1, <3>2, CallbackRows DEF AnswerInv, WokenWithReason
    <3>3. CASE Message.id = id /\ Message.type = "openOrder"
      BY <3>1, <3>3, CallbackRows
    <3> QED
      BY <2>2, <3>1, <3>2, <3>3, CallbackRows
  <2> QED
    BY <2>1, <2>2 DEF WokenWithReason
<1>5. EndsAreLast'
  <2> SUFFICES ASSUME NEW k \in 1..Len(wire'), wire'[k].type = "end"
               PROVE  /\ wire'[k].id \in DOMAIN requests'
                      /\ \A p \in 1..Parts : OnItsWay(wire[k].id, p, k)'
    BY DEF EndsAreLast
  <2>1. k + 1 \in 1..Len(wire) /\ wire'[k] = wire[k + 1]
    BY <1>1
  <2>2. PICK id : id = wire[k + 1].id
    OBVIOUS
  <2>3. id \in DOMAIN requests /\ \A p \in 1..Parts : OnItsWay(id, p, k + 1)
    BY <2>1, <2>2 DEF AnswerInv, EndsAreLast
  <2>4. \A p \in 1..Parts : OnItsWay(id, p, k)'
    <3>1. k + 1 \in Nat /\ k = (k + 1) - 1
      BY <1>1
    <3> QED
      BY <1>3, <2>3, <3>1
  <2> QED
    BY <2>1, <2>2, <2>3, <2>4, CallbackRows DEF OnItsWay, Arrived, Coming
<1>6. ServedInOrder'
  <2>0. serving' = serving
    BY DEF Callback
  <2> SUFFICES ASSUME NEW r \in serving, r.kind = "request"
               PROVE  /\ r.id \in DOMAIN requests'
                      /\ \A p \in 1..r.sent : OnItsWay(r.id, p, Len(wire) + 1)'
    BY <2>0 DEF ServedInOrder
  <2>1. r.id \in DOMAIN requests /\ \A p \in 1..r.sent : OnItsWay(r.id, p, Len(wire) + 1)
    BY DEF AnswerInv, ServedInOrder
  <2>2. \A p \in 1..r.sent : OnItsWay(r.id, p, Len(wire) + 1)'
    <3>1. PICK n, m : n = Len(wire) + 1 /\ n \in Nat /\ m = Len(wire') + 1 /\ m = n - 1
      BY <1>1
    <3>2. \A p \in 1..r.sent : OnItsWay(r.id, p, m)'
      BY <1>3, <2>1, <3>1
    <3> QED
      BY <3>1, <3>2
  <2> QED
    BY <2>1, <2>2, CallbackRows
<1> QED
  BY <1>2, <1>4, <1>5, <1>6 DEF AnswerInv

\* TWS sends a message.
LEMMA AnswerSent ==
  ASSUME TypeInv, AnswerInv, NEW m, Send(m), UNCHANGED <<requests, previews, requestErrors>>,
         m.type = "row" => m.row.part \in 1..Parts,
         m.type = "openOrder" => m.row.part = 1,
         m.type = "end" => /\ m.id \in DOMAIN requests
                           /\ \A p \in 1..Parts : OnItsWay(m.id, p, Len(wire) + 1),
         \A r \in serving' : r.kind = "request" =>
           /\ r.id \in DOMAIN requests
           /\ \A p \in 1..r.sent : \/ OnItsWay(r.id, p, Len(wire) + 1)
                                   \/ m.type = "row" /\ m.id = r.id /\ m.row.part = p
  PROVE  AnswerInv'
<1>1. /\ Len(wire) \in Nat /\ Len(wire') = Len(wire) + 1
      /\ \A j \in 1..Len(wire) : wire'[j] = wire[j]
      /\ wire'[Len(wire) + 1] = m
  BY SendExtends
<1>2. \A x : OnWire(x)' => OnWire(x) \/ x = m
  BY SentOnWire
<1>3. PartsFit'
  BY <1>2 DEF AnswerInv, PartsFit
<1>4. WokenWithReason'
  BY DEF AnswerInv, WokenWithReason, Arrived
<1>5. ASSUME NEW id, NEW p, NEW n, OnItsWay(id, p, n) PROVE OnItsWay(id, p, n)'
  <2>1. \A k \in 1..Len(wire) : k \in 1..Len(wire') /\ wire'[k] = wire[k]
    BY <1>1
  <2> QED
    BY <1>5, <2>1 DEF OnItsWay, Coming, Arrived
<1>6. EndsAreLast'
  <2> SUFFICES ASSUME NEW k \in 1..Len(wire'), wire'[k].type = "end"
               PROVE  /\ wire'[k].id \in DOMAIN requests
                      /\ \A p \in 1..Parts : OnItsWay(wire[k].id, p, k)'
    BY DEF EndsAreLast
  <2>1. PICK id : id = wire'[k].id
    OBVIOUS
  <2>2. id \in DOMAIN requests /\ \A p \in 1..Parts : OnItsWay(id, p, k)
    <3>1. CASE k \in 1..Len(wire)
      BY <1>1, <2>1, <3>1 DEF AnswerInv, EndsAreLast
    <3>2. CASE k = Len(wire) + 1
      BY <1>1, <2>1, <3>2
    <3> QED
      BY <1>1, <3>1, <3>2
  <2>3. \A p \in 1..Parts : OnItsWay(id, p, k)'
    BY <1>5, <2>2
  <2> QED
    BY <2>1, <2>2, <2>3 DEF OnItsWay, Arrived, Coming
<1>7. ServedInOrder'
  <2> SUFFICES ASSUME NEW r \in serving', r.kind = "request"
               PROVE  /\ r.id \in DOMAIN requests
                      /\ \A p \in 1..r.sent : OnItsWay(r.id, p, Len(wire) + 1)'
    BY DEF ServedInOrder
  <2>1. PICK n, l : n = Len(wire) + 1 /\ l = Len(wire') + 1 /\ n < l
    BY <1>1
  <2>2. ASSUME NEW p \in 1..r.sent, OnItsWay(r.id, p, n) PROVE OnItsWay(r.id, p, l)'
    <3>1. \A k \in 1..Len(wire) : k \in 1..Len(wire') /\ wire'[k] = wire[k] /\ k < l
      BY <1>1, <2>1
    <3> QED
      BY <2>2, <3>1 DEF OnItsWay, Coming, Arrived
  <2>3. ASSUME NEW p \in 1..r.sent, m.type = "row", m.id = r.id, m.row.part = p
        PROVE  OnItsWay(r.id, p, l)'
    <3>1. Len(wire) + 1 \in 1..Len(wire') /\ Len(wire) + 1 < l
      BY <1>1, <2>1
    <3> QED
      BY <1>1, <2>3, <3>1 DEF OnItsWay, Coming
  <2>4. \A p \in 1..r.sent : OnItsWay(r.id, p, l)'
    BY <2>1, <2>2, <2>3
  <2> QED
    BY <2>1, <2>4
<1> QED
  BY <1>3, <1>4, <1>6, <1>7 DEF AnswerInv

LEMMA AnswerTws ==
  ASSUME TypeInv, AnswerInv, Tws
  PROVE  AnswerInv'
<1>0. UNCHANGED <<requests, previews, requestErrors>>
  BY DEF Tws, SendOrderId, SendGlobalError, SendRow, SendEnd, SendOpenOrder, SendError,
     PositionChanges, appVars
<1> DEFINE Ordered(r) == /\ r.id \in DOMAIN requests
                         /\ \A p \in 1..r.sent : OnItsWay(r.id, p, Len(wire) + 1)
<1>1. \A r \in serving : r.kind = "request" => Ordered(r)
  BY DEF AnswerInv, ServedInOrder
<1>2. ASSUME NEW m, Send(m), m.type \notin {"row", "openOrder", "end"}, serving' \subseteq serving
      PROVE  AnswerInv'
  <2>1. \A r \in serving' : r.kind = "request" => Ordered(r)
    BY <1>1, <1>2
  <2> QED
    BY <1>0, <1>2, <2>1, AnswerSent
<1>3. CASE SendOrderId \/ SendGlobalError
  <2>1. serving' \subseteq serving
        /\ \E m : Send(m) /\ m.type \notin {"row", "openOrder", "end"}
    BY <1>3 DEF SendOrderId, SendGlobalError
  <2> QED
    BY <1>2, <2>1
<1>4. ASSUME NEW i \in Instruments, PositionChanges(i) PROVE AnswerInv'
  <2>1. serving' = serving
    BY <1>4 DEF PositionChanges
  <2>2. CASE subscribed
    <3>1. \E m : Send(m) /\ m.type \notin {"row", "openOrder", "end"}
      BY <1>4, <2>2 DEF PositionChanges
    <3> QED
      BY <1>2, <2>1, <3>1
  <2>3. CASE ~subscribed
    <3>1. UNCHANGED wire
      BY <1>4, <2>3 DEF PositionChanges
    <3> QED
      BY <1>0, <2>1, <3>1 DEF AnswerInv, PartsFit, WokenWithReason, EndsAreLast,
         ServedInOrder, OnItsWay, Coming, Arrived, OnWire
  <2> QED
    BY <2>2, <2>3
<1>5. ASSUME NEW r \in serving, SendRow(r) PROVE AnswerInv'
  <2>1. PICK s : /\ s = [r EXCEPT !.sent = @ + 1] /\ s.kind = r.kind /\ s.id = r.id
                 /\ s.sent = r.sent + 1 /\ r.sent \in 0..Parts /\ r.sent < Parts
                 /\ serving' = (serving \ {r}) \cup {s}
    BY <1>5 DEF SendRow, Progress, TypeInv, TwsTypes
  <2>2. CASE r.kind = "positions"
    <3>1. \A x \in serving' : x.kind = "request" => Ordered(x)
      BY <1>1, <2>1, <2>2
    <3>2. \E m : Send(m) /\ m.type = "position"
      BY <1>5, <2>2 DEF SendRow
    <3> QED
      BY <1>0, <3>1, <3>2, AnswerSent
  <2>3. CASE r.kind = "request"
    <3>1. PICK m : Send(m) /\ m.type = "row" /\ m.id = r.id /\ m.row.part = r.sent + 1
      BY <1>5, <2>3 DEF SendRow
    <3>2. r.sent + 1 \in 1..Parts /\ 1..s.sent = (1..r.sent) \cup {r.sent + 1}
      BY <2>1, PartsAssumption
    <3>3. ASSUME NEW x \in serving', x.kind = "request"
          PROVE  /\ x.id \in DOMAIN requests
                 /\ \A p \in 1..x.sent : \/ OnItsWay(x.id, p, Len(wire) + 1)
                                         \/ m.type = "row" /\ m.id = x.id /\ m.row.part = p
      <4>1. CASE x \in serving
        BY <1>1, <3>3, <4>1
      <4>2. CASE x = s
        BY <1>1, <2>1, <2>3, <3>1, <3>2, <4>2
      <4> QED
        BY <2>1, <4>1, <4>2
    <3> QED
      BY <1>0, <3>1, <3>2, <3>3, AnswerSent
  <2> QED
    BY <1>5, <2>2, <2>3 DEF SendRow
<1>6. ASSUME NEW r \in serving, SendEnd(r) PROVE AnswerInv'
  <2>1. serving' \subseteq serving
    BY <1>6 DEF SendEnd
  <2>2. CASE r.kind = "positions"
    <3>1. \E m : Send(m) /\ m.type = "positionEnd"
      BY <1>6, <2>2 DEF SendEnd
    <3> QED
      BY <1>2, <2>1, <3>1
  <2>3. CASE r.kind = "request"
    <3>1. PICK m : Send(m) /\ m.type = "end" /\ m.id = r.id /\ r.sent = Parts
      BY <1>6, <2>3 DEF SendEnd
    <3>2. /\ m.id \in DOMAIN requests
          /\ \A p \in 1..Parts : OnItsWay(m.id, p, Len(wire) + 1)
      BY <1>1, <2>3, <3>1
    <3>3. \A x \in serving' : x.kind = "request" => Ordered(x)
      BY <1>1, <2>1
    <3> QED
      BY <1>0, <3>1, <3>2, <3>3, AnswerSent
  <2> QED
    BY <1>6, <2>2, <2>3 DEF SendEnd
<1>7. ASSUME NEW r \in serving, SendOpenOrder(r) PROVE AnswerInv'
  <2>1. \A x \in serving' : x.kind = "request" => Ordered(x)
    BY <1>1, <1>7 DEF SendOpenOrder
  <2>2. \E m : Send(m) /\ m.type = "openOrder" /\ m.row.part = 1
    BY <1>7 DEF SendOpenOrder
  <2> QED
    BY <1>0, <2>1, <2>2, AnswerSent
<1>8. ASSUME NEW r \in serving, SendError(r) PROVE AnswerInv'
  <2>1. serving' \subseteq serving /\ \E m : Send(m) /\ m.type = "error"
    BY <1>8 DEF SendError
  <2> QED
    BY <1>2, <2>1
<1> QED
  BY <1>3, <1>4, <1>5, <1>6, <1>7, <1>8 DEF Tws

\* The caller reads the answers; it registers a request with no rows yet, and
\* drops a preview.
LEMMA AnswerCaller ==
  ASSUME TypeInv, AnswerInv, UNCHANGED <<wire, requestErrors>>,
         \A id \in DOMAIN requests : id \in DOMAIN requests' /\ requests'[id] = requests[id],
         \A id \in DOMAIN requests' :
           \/ id \in DOMAIN requests
           \/ requests'[id] = [rows |-> {}, event |-> FALSE],
         \A id \in DOMAIN previews' :
           \/ id \in DOMAIN previews /\ previews'[id] = previews[id]
           \/ previews'[id] = [rows |-> {}, event |-> FALSE],
         \A r \in serving' :
           r \in serving \/ r.kind # "request" \/ (r.id \in DOMAIN requests' /\ r.sent = 0)
  PROVE  AnswerInv'
<1>1. \A x : OnWire(x)' <=> OnWire(x)
  BY SameWire
<1>2. PartsFit'
  <2>1. PartsFit
    BY DEF AnswerInv
  <2>2. \A id \in DOMAIN requests' : \A row \in requests'[id].rows : row.part \in 1..Parts
    BY <2>1 DEF PartsFit
  <2>3. \A id \in DOMAIN previews' : \A row \in previews'[id].rows : row.part = 1
    BY <2>1 DEF PartsFit
  <2> QED
    BY <1>1, <2>1, <2>2, <2>3 DEF PartsFit
<1>3. WokenWithReason'
  <2>1. ASSUME NEW id \in DOMAIN requests', requests'[id].event
        PROVE  id \in DOMAIN requestErrors \/ \A p \in 1..Parts : Arrived(id, p)'
    <3>1. id \in DOMAIN requests /\ requests'[id] = requests[id]
      BY <2>1
    <3> QED
      BY <2>1, <3>1 DEF AnswerInv, WokenWithReason, Arrived
  <2>2. ASSUME NEW id \in DOMAIN previews', previews'[id].event
        PROVE  id \in DOMAIN requestErrors \/ previews'[id].rows # {}
    <3>1. id \in DOMAIN previews /\ previews'[id] = previews[id]
      BY <2>2
    <3> QED
      BY <2>2, <3>1 DEF AnswerInv, WokenWithReason
  <2> QED
    BY <2>1, <2>2 DEF WokenWithReason
<1>4. ASSUME NEW id \in DOMAIN requests, NEW p, NEW n, OnItsWay(id, p, n)
      PROVE  OnItsWay(id, p, n)'
  BY <1>4 DEF OnItsWay, Arrived, Coming
<1>5. EndsAreLast'
  <2> SUFFICES ASSUME NEW k \in 1..Len(wire), wire[k].type = "end"
               PROVE  /\ wire[k].id \in DOMAIN requests'
                      /\ \A p \in 1..Parts : OnItsWay(wire[k].id, p, k)'
    BY DEF EndsAreLast
  <2>1. PICK id : id = wire[k].id
    OBVIOUS
  <2>2. id \in DOMAIN requests /\ \A p \in 1..Parts : OnItsWay(id, p, k)
    BY <2>1 DEF AnswerInv, EndsAreLast
  <2>3. \A p \in 1..Parts : OnItsWay(id, p, k)'
    BY <1>4, <2>2
  <2> QED
    BY <2>1, <2>2, <2>3
<1>6. ServedInOrder'
  <2> SUFFICES ASSUME NEW r \in serving', r.kind = "request"
               PROVE  /\ r.id \in DOMAIN requests'
                      /\ \A p \in 1..r.sent : OnItsWay(r.id, p, Len(wire) + 1)'
    BY DEF ServedInOrder
  <2>1. CASE r \in serving
    <3>1. PICK n : n = Len(wire) + 1
      OBVIOUS
    <3>2. r.id \in DOMAIN requests /\ \A p \in 1..r.sent : OnItsWay(r.id, p, n)
      BY <2>1, <3>1 DEF AnswerInv, ServedInOrder
    <3>3. \A p \in 1..r.sent : OnItsWay(r.id, p, n)'
      BY <1>4, <3>2
    <3> QED
      BY <3>1, <3>2, <3>3
  <2>2. CASE r.id \in DOMAIN requests' /\ r.sent = 0
    BY <2>2
  <2> QED
    BY <2>1, <2>2
<1> QED
  BY <1>2, <1>3, <1>5, <1>6 DEF AnswerInv

LEMMA AnswerStep == TypeInv /\ AnswerInv /\ [Next]_vars => AnswerInv'
<1> SUFFICES ASSUME TypeInv, AnswerInv, [Next]_vars PROVE AnswerInv'
  OBVIOUS
<1> DEFINE Kept == \A id \in DOMAIN requests : id \in DOMAIN requests' /\ requests'[id] = requests[id]
           Fresh == \A id \in DOMAIN requests' :
                      \/ id \in DOMAIN requests
                      \/ requests'[id] = [rows |-> {}, event |-> FALSE]
           FreshPreviews == \A id \in DOMAIN previews' :
                      \/ id \in DOMAIN previews /\ previews'[id] = previews[id]
                      \/ previews'[id] = [rows |-> {}, event |-> FALSE]
           Served == \A r \in serving' :
                      r \in serving \/ r.kind # "request" \/ (r.id \in DOMAIN requests' /\ r.sent = 0)
<1>1. CASE Connect
  <2>1. serving' = {} /\ DOMAIN requests' = {} /\ DOMAIN previews' = {}
    BY <1>1, NothingMapped DEF Connect, FreshApp
  <2>2. 1..Len(wire') = {}
    BY <1>1, LenProperties DEF Connect
  <2> QED
    BY <2>1, <2>2 DEF AnswerInv, PartsFit, OnWire, WokenWithReason, EndsAreLast, ServedInOrder
<1>2. CASE \/ ConnectReturns \/ ConnectTimesOut \/ RequestReturns \/ RequestTimesOut
           \/ PositionsReturn \/ PositionsTimeOut \/ PreviewReturns \/ PreviewTimesOut
           \/ ResetRows \/ PositionsNotRequested \/ NoOrderIdYet \/ UNCHANGED vars
  <2>1. UNCHANGED <<wire, requestErrors, requests>>
    BY <1>2 DEF ConnectReturns, ConnectTimesOut, RequestReturns,
       RequestTimesOut, ResetRows, PositionsNotRequested,
       PositionsReturn, PositionsTimeOut, NoOrderIdYet, PreviewReturns, PreviewTimesOut,
       appVars, twsVars, vars
  <2>2. FreshPreviews
    <3>1. UNCHANGED previews \/ \E id : Forget(id)
      BY <1>2 DEF ConnectReturns, ConnectTimesOut, RequestReturns,
         RequestTimesOut, ResetRows, PositionsNotRequested,
         PositionsReturn, PositionsTimeOut, NoOrderIdYet, PreviewReturns, PreviewTimesOut,
         appVars, vars
    <3> QED
      BY <3>1 DEF Forget
  <2>3. serving' \subseteq serving
    BY <1>2 DEF ConnectReturns, ConnectTimesOut, RequestReturns,
       RequestTimesOut, ResetRows, PositionsNotRequested,
       PositionsReturn, PositionsTimeOut, NoOrderIdYet, PreviewReturns, PreviewTimesOut,
       twsVars, vars
  <2> QED
    BY <2>1, <2>2, <2>3, AnswerCaller
<1>3. CASE RequestPositions
  <2>1. UNCHANGED <<wire, requestErrors, requests, previews>> /\ Serve(call')
        /\ call'.kind = "positions"
    BY <1>3 DEF RequestPositions
  <2>2. Served
    BY <2>1 DEF Serve
  <2> QED
    BY <2>1, <2>2, AnswerCaller
<1>4. nextRequestId \notin DOMAIN requests
  BY DEF TypeInv, AppTypes
<1>5. CASE RequestRows
  <2>1. /\ UNCHANGED <<wire, requestErrors, previews>> /\ Serve(call')
        /\ call'.id = nextRequestId
        /\ requests' = Put(requests, nextRequestId, [rows |-> {}, event |-> FALSE])
    BY <1>5 DEF RequestRows, NewCall
  <2>2. Kept /\ Fresh /\ nextRequestId \in DOMAIN requests'
    BY <1>4, <2>1 DEF Put
  <2>3. Served
    BY <2>1, <2>2 DEF Serve
  <2> QED
    BY <2>1, <2>2, <2>3, AnswerCaller
<1>6. CASE \E kind \in OrderKinds \cup {"request"} : SendRaises(kind)
  <2>1. UNCHANGED <<wire, requestErrors, serving, previews>>
    BY <1>6 DEF SendRaises, twsVars
  <2>2. \/ UNCHANGED requests
        \/ requests' = Put(requests, nextRequestId, [rows |-> {}, event |-> FALSE])
    BY <1>6 DEF SendRaises
  <2>3. Kept /\ Fresh
    BY <1>4, <2>2 DEF Put
  <2> QED
    BY <2>1, <2>3, AnswerCaller
<1>7. CASE SubmitOrder \/ PreviewMargin
  <2>1. /\ UNCHANGED <<wire, requestErrors, requests>>
        /\ \E c : c.kind \in OrderKinds /\ Serve(c)
    BY <1>7 DEF SubmitOrder, PreviewMargin, NewCall, OrderKinds
  <2>2. \/ UNCHANGED previews
        \/ previews' = Put(previews, nextOrderId, [rows |-> {}, event |-> FALSE])
    BY <1>7 DEF SubmitOrder, PreviewMargin
  <2>3. FreshPreviews
    BY <2>2 DEF Put
  <2>4. Served
    BY <2>1 DEF Serve, OrderKinds
  <2> QED
    BY <2>1, <2>3, <2>4, AnswerCaller
<1> QED
  BY <1>1, <1>2, <1>3, <1>5, <1>6, <1>7, AnswerTws, AnswerCallback DEF Next, Caller

LEMMA AnswerInvariant == Spec => []AnswerInv
<1>1. Init => AnswerInv
  <2> SUFFICES ASSUME Init PROVE AnswerInv
    OBVIOUS
  <2>1. serving = {} /\ DOMAIN requests = {} /\ DOMAIN previews = {}
    BY NothingMapped DEF Init
  <2>2. 1..Len(wire) = {}
    BY LenProperties DEF Init
  <2> QED
    BY <2>1, <2>2 DEF AnswerInv, PartsFit, OnWire, WokenWithReason, EndsAreLast, ServedInOrder
<1> QED
  BY <1>1, TypesInductive, AnswerStep, PTL DEF Spec

\* With no error of its ID there is nothing to raise but the global error.
LEMMA NothingToRaise ==
  ASSUME TypeInv, NEW id, PendingError(id) = NoCause
  PROVE  id \notin DOMAIN requestErrors /\ ~globalError
<1>1. ASSUME id \in DOMAIN requestErrors PROVE FALSE
  <2>1. requestErrors[id] = NoCause
    BY <1>1 DEF PendingError
  <2>2. requestErrors[id] \in Abouts
    BY <1>1 DEF TypeInv, AppTypes
  <2> QED
    BY <2>1, <2>2 DEF Abouts, NoCause, OrderKinds
<1>2. ASSUME globalError PROVE FALSE
  BY <1>1, <1>2 DEF PendingError, Global, NoCause
<1> QED
  BY <1>1, <1>2 DEF TypeInv, AppTypes

LEMMA AnswerReturned ==
  ASSUME TypeInv, TagInv, AnswerInv, RequestReturns, PendingError(call.id) = NoCause
  PROVE  requests[call.id].rows = [of : {call.serial}, part : 1..Parts]
<1>1. /\ call.kind = "request" /\ call.id \in DOMAIN requests
      /\ requests[call.id].event
      /\ call.id \notin DOMAIN requestErrors
  BY NothingToRaise DEF RequestReturns, TypeInv, CallTypes
<1>2. requests[call.id].rows \subseteq Rows
  BY <1>1 DEF TypeInv, AppTypes, Pending
<1>3. ASSUME NEW row \in requests[call.id].rows
      PROVE  row.of = call.serial /\ row.part \in 1..Parts
  <2>1. PICK t : /\ t = <<"request", call.id, row.of>>
                 /\ t[1] = "request" /\ t[2] = call.id /\ t[3] = row.of
    <3> DEFINE tuple == <<"request", call.id, row.of>>
    <3>1. tuple[1] = "request" /\ tuple[2] = call.id /\ tuple[3] = row.of
      OBVIOUS
    <3>2. tuple = <<"request", call.id, row.of>>
      OBVIOUS
    <3> HIDE DEF tuple
    <3> QED
      BY <3>1, <3>2
  <2>2. PICK u : /\ u = Tag(call.kind, call.id, call.serial)
                 /\ u[1] = "request" /\ u[2] = call.id /\ u[3] = call.serial
    BY <1>1, TagParts DEF Class, OrderKinds
  <2>3. RowTag(t) /\ CallTag(u)
    BY <1>1, <1>3, <2>1, <2>2 DEF RowTag, CallTag
  <2>4. Tagged(t) /\ Tagged(u)
    BY <2>3 DEF Tagged
  <2> QED
    BY <1>1, <1>3, <2>1, <2>2, <2>4 DEF TagInv, AnswerInv, PartsFit
<1>4. \A p \in 1..Parts : \E row \in requests[call.id].rows : row.part = p
  BY <1>1 DEF AnswerInv, WokenWithReason, Arrived
<1>5. ASSUME NEW p \in 1..Parts
      PROVE  [of |-> call.serial, part |-> p] \in requests[call.id].rows
  <2>1. PICK row \in requests[call.id].rows : row.part = p
    BY <1>4
  <2>2. row = [of |-> row.of, part |-> row.part]
    BY <1>2, <2>1 DEF Rows
  <2> QED
    BY <1>3, <2>1, <2>2
<1>6. \A row \in requests[call.id].rows : row \in [of : {call.serial}, part : 1..Parts]
  BY <1>2, <1>3 DEF Rows
<1>7. ASSUME NEW row \in [of : {call.serial}, part : 1..Parts]
      PROVE  row \in requests[call.id].rows
  <2>1. row = [of |-> call.serial, part |-> row.part] /\ row.part \in 1..Parts
    OBVIOUS
  <2> QED
    BY <1>5, <2>1
<1> QED
  BY <1>6, <1>7

LEMMA PreviewReturned ==
  ASSUME TypeInv, TagInv, AnswerInv, PreviewReturns, PendingError(call.id) = NoCause
  PROVE  previews[call.id].rows = [of : {call.serial}, part : {1}]
<1>1. /\ call.kind = "preview" /\ call.id \in DOMAIN previews
      /\ previews[call.id].event
      /\ call.id \notin DOMAIN requestErrors
  BY NothingToRaise DEF PreviewReturns, TypeInv, CallTypes
<1>2. previews[call.id].rows \subseteq Rows /\ previews[call.id].rows # {}
  BY <1>1 DEF TypeInv, AppTypes, Pending, AnswerInv, WokenWithReason
<1>3. ASSUME NEW row \in previews[call.id].rows
      PROVE  row.of = call.serial /\ row.part = 1
  <2>1. PICK t : /\ t = <<"order", call.id, row.of>>
                 /\ t[1] = "order" /\ t[2] = call.id /\ t[3] = row.of
    <3> DEFINE tuple == <<"order", call.id, row.of>>
    <3>1. tuple[1] = "order" /\ tuple[2] = call.id /\ tuple[3] = row.of
      OBVIOUS
    <3>2. tuple = <<"order", call.id, row.of>>
      OBVIOUS
    <3> HIDE DEF tuple
    <3> QED
      BY <3>1, <3>2
  <2>2. PICK u : /\ u = Tag(call.kind, call.id, call.serial)
                 /\ u[1] = "order" /\ u[2] = call.id /\ u[3] = call.serial
    BY <1>1, TagParts DEF Class, OrderKinds
  <2>3. PreviewTag(t) /\ CallTag(u)
    BY <1>1, <1>3, <2>1, <2>2 DEF PreviewTag, CallTag
  <2>4. Tagged(t) /\ Tagged(u)
    BY <2>3 DEF Tagged
  <2> QED
    BY <1>1, <1>3, <2>1, <2>2, <2>4 DEF TagInv, AnswerInv, PartsFit
<1>4. \A row \in previews[call.id].rows : row = [of |-> call.serial, part |-> 1]
  BY <1>2, <1>3 DEF Rows
<1>5. [of |-> call.serial, part |-> 1] \in previews[call.id].rows
  BY <1>2, <1>4
<1>6. previews[call.id].rows = {[of |-> call.serial, part |-> 1]}
  BY <1>4, <1>5
<1>7. [of : {call.serial}, part : {1}] = {[of |-> call.serial, part |-> 1]}
  <2>1. ASSUME NEW row \in [of : {call.serial}, part : {1}]
        PROVE  row = [of |-> call.serial, part |-> 1]
    <3>1. row = [of |-> row.of, part |-> row.part] /\ row.of = call.serial /\ row.part = 1
      OBVIOUS
    <3> QED
      BY <3>1
  <2>2. [of |-> call.serial, part |-> 1] \in [of : {call.serial}, part : {1}]
    OBVIOUS
  <2> QED
    BY <2>1, <2>2
<1> QED
  BY <1>6, <1>7

LEMMA AnswersStep ==
  TypeInv /\ TagInv /\ AnswerInv /\ AnswersAreOwnAndComplete /\ [Next]_vars
    => AnswersAreOwnAndComplete'
<1> SUFFICES ASSUME TypeInv, TagInv, AnswerInv, AnswersAreOwnAndComplete, [Next]_vars
             PROVE  AnswersAreOwnAndComplete'
  OBVIOUS
<1>1. CASE RequestReturns
  <2>1. /\ outcome'.kind = "request" /\ outcome'.call = call
        /\ outcome'.ok = (PendingError(call.id) = NoCause)
        /\ outcome'.rows = requests[call.id].rows
    BY <1>1 DEF RequestReturns, EndCall
  <2> QED
    BY <1>1, <2>1, AnswerReturned DEF AnswersAreOwnAndComplete
<1>2. CASE PreviewReturns
  <2>1. /\ outcome'.kind = "preview" /\ outcome'.call = call
        /\ outcome'.ok = (PendingError(call.id) = NoCause)
        /\ outcome'.rows = previews[call.id].rows
    BY <1>2 DEF PreviewReturns, EndCall
  <2> QED
    BY <1>2, <2>1, PreviewReturned DEF AnswersAreOwnAndComplete
<1>3. CASE ConnectReturns \/ PositionsReturn
  <2>1. outcome'.kind \in {"connect", "positions"}
    BY <1>3 DEF ConnectReturns, PositionsReturn, EndCall
  <2> QED
    BY <2>1 DEF AnswersAreOwnAndComplete
<1>4. CASE \/ ConnectTimesOut \/ PositionsTimeOut \/ RequestTimesOut \/ PreviewTimesOut
           \/ PositionsNotRequested
           \/ \E kind \in OrderKinds \cup {"request"} : SendRaises(kind)
  <2>1. outcome'.ok = FALSE
    BY <1>4 DEF ConnectTimesOut, PositionsTimeOut, RequestTimesOut, PreviewTimesOut,
       GiveUp, EndCall, PositionsNotRequested, SendRaises
  <2> QED
    BY <2>1 DEF AnswersAreOwnAndComplete
<1>5. CASE NoOrderIdYet \/ SubmitOrder
  <2>1. outcome'.kind = "order"
    <3>1. CASE NoOrderIdYet
      BY <3>1 DEF NoOrderIdYet
    <3>2. CASE SubmitOrder
      BY <3>2 DEF SubmitOrder
    <3> QED
      BY <1>5, <3>1, <3>2
  <2> QED
    BY <2>1 DEF AnswersAreOwnAndComplete
<1>6. CASE Connect \/ RequestRows \/ ResetRows \/ PreviewMargin
  <2>1. outcome' = NoOutcome
    BY <1>6 DEF Connect, RequestRows, ResetRows, PreviewMargin
  <2> QED
    BY <2>1 DEF AnswersAreOwnAndComplete, NoOutcome
<1>7. CASE RequestPositions \/ Tws \/ Callback \/ UNCHANGED vars
  <2>1. outcome' = outcome
    BY <1>7 DEF RequestPositions, Tws, Callback, SendOrderId, SendGlobalError,
       SendRow, SendEnd, SendOpenOrder, SendError, PositionChanges, vars
  <2> QED
    BY <2>1 DEF AnswersAreOwnAndComplete
<1> QED
  BY <1>1, <1>2, <1>3, <1>4, <1>5, <1>6, <1>7 DEF Next, Caller

\* An account summary, a range of bars or a preview that is returned has all the
\* rows TWS sent for that call and no other, whatever was given up before it.
THEOREM AnswersOwnAndComplete == Spec => []AnswersAreOwnAndComplete
<1>1. Init => AnswersAreOwnAndComplete
  BY DEF Init, AnswersAreOwnAndComplete, NoOutcome
<1> QED
  BY <1>1, TypesInductive, TagInvariant, AnswerInvariant, AnswersStep, PTL DEF Spec

-----------------------------------------------------------------------------
(* Positions.  What is known of an instrument, in the app and on the wire,  *)
(* never gets older, and the end of an answer follows a row for each        *)
(* instrument that is no older than the request.                            *)

LEMMA NatSet ==
  ASSUME NEW S, 0 \in S, \A n \in Nat : n \in S => n + 1 \in S
  PROVE  \A n \in Nat : n \in S
<1> SUFFICES ASSUME NEW n \in Nat, n \notin S PROVE FALSE
  OBVIOUS
<1> DEFINE A == {i \in 0..n : i \in S}
           f == [i \in A |-> i + 1]
<1>1. IsFiniteSet(0..n)
  BY FS_Interval
<1>2. IsFiniteSet(A)
  BY <1>1, FS_Subset
<1>3. \A i \in A : i + 1 \in A
  OBVIOUS
<1>4. f \in Injection(A, A)
  BY <1>3 DEF Injection, IsInjective
<1>5. f \in Surjection(A, A)
  <2> HIDE DEF A, f
  <2> QED
    BY <1>2, <1>4, FS_Injection
<1>6. 0 \in A
  OBVIOUS
<1>7. PICK i \in A : f[i] = 0
  BY <1>5, <1>6 DEF Surjection
<1> QED
  BY <1>7

\* The last of some places in a sequence.
LEMMA Greatest ==
  ASSUME NEW n \in Nat, NEW S \in SUBSET (1..n), S # {}
  PROVE  \E k \in S : \A l \in S : l =< k
<1> DEFINE Last == \E k \in S : \A l \in S : l =< k
           T == {j \in Nat : (\E k \in S : k >= n - j) => Last}
<1>1. 0 \in T
  <2>1. ASSUME NEW k \in S, k >= n - 0 PROVE Last
    <3>1. \A l \in S : l =< k
      BY <2>1
    <3> QED
      BY <3>1
  <2> HIDE DEF Last
  <2> QED
    BY <2>1
<1>2. ASSUME NEW j \in Nat, j \in T PROVE j + 1 \in T
  <2>1. ASSUME NEW k \in S, k >= n - (j + 1) PROVE Last
    <3>1. CASE \E l \in S : l >= n - j
      <4> HIDE DEF Last
      <4> QED
        BY <1>2, <3>1
    <3>2. CASE \A l \in S : ~(l >= n - j)
      <4>1. \A l \in S : l =< k
        BY <2>1, <3>2
      <4> QED
        BY <4>1
    <3> QED
      BY <3>1, <3>2
  <2> HIDE DEF Last
  <2> QED
    BY <1>2, <2>1
<1>3. n \in T
  <2> HIDE DEF T
  <2> QED
    BY <1>1, <1>2, NatSet
<1>4. \E k \in S : k >= n - n
  <2>1. PICK k \in S : TRUE
    OBVIOUS
  <2>2. k \in Nat /\ n - n = 0
    BY <2>1
  <2> QED
    BY <2>1, <2>2
<1> HIDE DEF Last
<1> QED
  BY <1>3, <1>4 DEF Last

\* Wire position k reports the position of instrument i.
Reports(k, i) == wire[k].type = "position" /\ wire[k].instrument = i

RowsGrow ==
  \A k, l \in 1..Len(positionRows) :
    k < l /\ positionRows[k].instrument = positionRows[l].instrument =>
      positionRows[k].version =< positionRows[l].version

WireGrows ==
  \A k, l \in 1..Len(wire), i \in Instruments :
    k < l /\ Reports(k, i) /\ Reports(l, i) => wire[k].version =< wire[l].version

WireFollowsRows ==
  \A k \in 1..Len(positionRows), l \in 1..Len(wire) :
    Reports(l, positionRows[k].instrument) => positionRows[k].version =< wire[l].version

Known ==
  /\ \A k \in 1..Len(positionRows) :
       positionRows[k].version =< versions[positionRows[k].instrument]
  /\ \A k \in 1..Len(wire), i \in Instruments :
       Reports(k, i) => wire[k].version =< versions[i]

AgeInv == RowsGrow /\ WireGrows /\ WireFollowsRows /\ Known

\* A row of instrument i that is no older than v is in the app, or on the wire
\* before position n.
HeldRow(i, v) ==
  \E k \in 1..Len(positionRows) :
    positionRows[k].instrument = i /\ positionRows[k].version >= v

ComingRow(i, v, n) == \E k \in 1..Len(wire) : k < n /\ Reports(k, i) /\ wire[k].version >= v

YoungRow(i, v, n) == HeldRow(i, v) \/ ComingRow(i, v, n)

SinceInv ==
  (call.kind = "positions" /\ ~call.strays) =>
    /\ \A i \in Instruments : call.since[i] =< versions[i]
    /\ positionEvent => globalError \/ \A i \in Instruments : HeldRow(i, call.since[i])
    /\ \A k \in 1..Len(wire) : wire[k].type = "positionEnd" =>
         \A i \in Instruments : YoungRow(i, call.since[i], k)
    /\ \A r \in serving : r.kind = "positions" =>
         \A i \in 1..r.sent : YoungRow(i, call.since[i], Len(wire) + 1)

\* Types the steps below keep using.
LEMMA PositionTypes ==
  ASSUME TypeInv
  PROVE  /\ Len(positionRows) \in Nat /\ Len(wire) \in Nat
         /\ \A k \in 1..Len(positionRows) :
              positionRows[k].instrument \in Instruments /\ positionRows[k].version \in Nat
         /\ \A k \in 1..Len(wire), i \in Instruments : Reports(k, i) => wire[k].version \in Nat
         /\ \A k \in 1..Len(wire) : wire[k].type = "position" => wire[k].instrument \in Instruments
         /\ \A i \in Instruments : versions[i] \in Nat
<1>1. /\ positionRows \in Seq([instrument : Instruments, version : Nat])
      /\ wire \in Seq(Messages) /\ versions \in [Instruments -> Nat]
  BY DEF TypeInv, AppTypes, TwsTypes
<1>2. \A k \in 1..Len(positionRows) : positionRows[k] \in [instrument : Instruments, version : Nat]
  BY <1>1, ElementOfSeq
<1>3. \A k \in 1..Len(wire) : wire[k] \in Messages
  BY <1>1, ElementOfSeq
<1> QED
  BY <1>1, <1>2, <1>3, LenProperties DEF Reports, Messages

\* TWS sends a message; the versions may have grown before.
LEMMA AgeSent ==
  ASSUME TypeInv, TypeInv', AgeInv, NEW m, Send(m), UNCHANGED positionRows,
         \A i \in Instruments : versions[i] =< versions'[i],
         m.type = "position" => m.version = versions'[m.instrument]
  PROVE  AgeInv'
<1>1. /\ Len(wire) \in Nat /\ Len(wire') = Len(wire) + 1
      /\ \A j \in 1..Len(wire) : wire'[j] = wire[j]
      /\ wire'[Len(wire) + 1] = m
  BY SendExtends
<1>2. RowsGrow'
  BY DEF AgeInv, RowsGrow
<1>3. ASSUME NEW k \in 1..Len(wire), NEW i \in Instruments
      PROVE  /\ Reports(k, i)' <=> Reports(k, i)
             /\ Reports(k, i) => /\ wire'[k].version = wire[k].version
                                 /\ wire[k].version =< versions[i] /\ wire[k].version \in Nat
  BY <1>1, PositionTypes DEF Reports, AgeInv, Known
<1>4. PICK last : last = Len(wire) + 1 /\ last = Len(wire')
  BY <1>1
<1>7. \A i \in Instruments : versions[i] \in Nat /\ versions'[i] \in Nat
  BY DEF TypeInv, TwsTypes
<1>5. ASSUME NEW i \in Instruments, Reports(last, i)'
      PROVE  wire'[last].version = versions'[i] /\ versions'[i] \in Nat
  <2>1. m.type = "position" /\ m.instrument = i
    BY <1>1, <1>4, <1>5 DEF Reports
  <2>2. wire'[last] = m
    BY <1>1, <1>4
  <2> QED
    BY <1>7, <2>1, <2>2
<1>6. \A k \in 1..Len(wire') : k \in 1..Len(wire) \/ k = last
  BY <1>1, <1>4
<1>8. ASSUME NEW k \in 1..Len(wire'), NEW l \in 1..Len(wire'), NEW i \in Instruments,
             k < l, Reports(k, i)', Reports(l, i)'
      PROVE  wire'[k].version =< wire'[l].version
  <2>1. k \in 1..Len(wire)
    BY <1>1, <1>8
  <2>2. Reports(k, i) /\ wire'[k].version = wire[k].version
        /\ wire[k].version =< versions[i] /\ wire[k].version \in Nat
    BY <1>3, <1>8, <2>1
  <2>3. CASE l \in 1..Len(wire)
    BY <1>3, <1>8, <2>1, <2>2, <2>3 DEF AgeInv, WireGrows
  <2>4. CASE l = last
    BY <1>5, <1>7, <1>8, <2>2, <2>4
  <2> QED
    BY <1>6, <2>3, <2>4
<1>9. ASSUME NEW k \in 1..Len(positionRows), NEW l \in 1..Len(wire'),
             Reports(l, positionRows[k].instrument)'
      PROVE  positionRows[k].version =< wire'[l].version
  <2>1. PICK i \in Instruments : i = positionRows[k].instrument
    BY PositionTypes
  <2>2. Reports(l, i)'
    BY <1>9, <2>1 DEF Reports
  <2>3. positionRows[k].version =< versions[i] /\ positionRows[k].version \in Nat
    BY <2>1, PositionTypes DEF AgeInv, Known
  <2>4. CASE l \in 1..Len(wire)
    BY <1>3, <2>1, <2>2, <2>4 DEF AgeInv, WireFollowsRows
  <2>5. CASE l = last
    BY <1>5, <1>7, <2>2, <2>3, <2>5
  <2> QED
    BY <1>6, <2>4, <2>5
<1>10. ASSUME NEW k \in 1..Len(wire'), NEW i \in Instruments, Reports(k, i)'
       PROVE  wire'[k].version =< versions'[i]
  <2>1. CASE k \in 1..Len(wire)
    BY <1>3, <1>7, <1>10, <2>1
  <2>2. CASE k = last
    BY <1>5, <1>10, <2>2
  <2> QED
    BY <1>6, <2>1, <2>2
<1>11. ASSUME NEW k \in 1..Len(positionRows)
       PROVE  positionRows[k].version =< versions'[positionRows[k].instrument]
  BY <1>7, PositionTypes DEF AgeInv, Known
<1> QED
  BY <1>2, <1>8, <1>9, <1>10, <1>11 DEF AgeInv, WireGrows, WireFollowsRows, Known

\* A callback reads a message; the row of a position is added to the rows.
LEMMA AgeCallback ==
  ASSUME TypeInv, AgeInv, Callback
  PROVE  AgeInv'
<1>0. PICK type : Read(type)
  BY DEF Callback, NextValidId, Row, End, Position, PositionEnd, OpenOrder, ErrorOfId,
     ErrorWithoutId
<1>1. /\ Len(wire) \in Nat \ {0} /\ Len(wire') = Len(wire) - 1 /\ Message = wire[1]
      /\ \A k \in 1..Len(wire') : k + 1 \in 1..Len(wire) /\ wire'[k] = wire[k + 1]
      /\ Message.type = type
  BY <1>0, ReadShifts, ReadTypes
<1>2. versions' = versions
  BY DEF Callback
<1>3. ASSUME NEW k \in 1..Len(wire'), NEW i \in Instruments, Reports(k, i)'
      PROVE  Reports(k + 1, i) /\ wire'[k] = wire[k + 1] /\ k + 1 \in 1..Len(wire)
  BY <1>1, <1>3 DEF Reports
<1>4. WireGrows'
  BY <1>1, <1>3 DEF AgeInv, WireGrows
<1>5. \A k \in 1..Len(wire'), i \in Instruments : Reports(k, i)' => wire'[k].version =< versions[i]
  BY <1>3 DEF AgeInv, Known
<1>6. CASE Position
  <2>1. PICK i \in Instruments, v \in Nat :
          /\ i = Message.instrument /\ v = Message.version /\ Message.type = "position"
          /\ positionRows' = Append(positionRows, [instrument |-> i, version |-> v])
    BY <1>6, ReadTypes DEF Position, Messages
  <2>2. /\ Len(positionRows) \in Nat /\ Len(positionRows') = Len(positionRows) + 1
        /\ \A k \in 1..Len(positionRows) : positionRows'[k] = positionRows[k]
        /\ positionRows'[Len(positionRows) + 1] = [instrument |-> i, version |-> v]
    <3>1. positionRows \in Seq([instrument : Instruments, version : Nat])
          /\ [instrument |-> i, version |-> v] \in [instrument : Instruments, version : Nat]
      BY DEF TypeInv, AppTypes
    <3> QED
      BY <2>1, <3>1, AppendProperties, LenProperties
  <2>3. 1 \in 1..Len(wire) /\ Reports(1, i) /\ wire[1].version = v
    BY <1>1, <2>1 DEF Reports
  <2>4. v =< versions[i]
    BY <2>3 DEF AgeInv, Known
  <2>5. ASSUME NEW k \in 1..Len(positionRows), positionRows[k].instrument = i
        PROVE  positionRows[k].version =< v
    BY <2>3, <2>5 DEF AgeInv, WireFollowsRows
  <2>6. \A k \in 1..Len(positionRows') :
          k \in 1..Len(positionRows) \/ (k = Len(positionRows) + 1)
    BY <2>2
  <2>7. RowsGrow'
    <3> SUFFICES ASSUME NEW k \in 1..Len(positionRows'), NEW l \in 1..Len(positionRows'),
                        k < l, positionRows'[k].instrument = positionRows'[l].instrument
                 PROVE  positionRows'[k].version =< positionRows'[l].version
      BY DEF RowsGrow
    <3>1. k \in 1..Len(positionRows)
      BY <2>2
    <3>2. CASE l \in 1..Len(positionRows)
      BY <2>2, <3>1, <3>2 DEF AgeInv, RowsGrow
    <3>3. CASE l = Len(positionRows) + 1
      BY <2>2, <2>5, <3>1, <3>3
    <3> QED
      BY <2>6, <3>2, <3>3
  <2>8. WireFollowsRows'
    <3> SUFFICES ASSUME NEW k \in 1..Len(positionRows'), NEW l \in 1..Len(wire'),
                        Reports(l, positionRows[k].instrument)'
                 PROVE  positionRows'[k].version =< wire'[l].version
      BY DEF WireFollowsRows
    <3>1. PICK j : j = positionRows'[k].instrument
      OBVIOUS
    <3>2. j \in Instruments
      BY <2>2, <2>6, <3>1, PositionTypes
    <3>3. Reports(l, j)'
      BY <3>1 DEF Reports
    <3>4. Reports(l + 1, j) /\ wire'[l] = wire[l + 1] /\ l + 1 \in 1..Len(wire)
      BY <1>3, <3>2, <3>3
    <3>5. CASE k \in 1..Len(positionRows)
      BY <2>2, <3>1, <3>4, <3>5 DEF AgeInv, WireFollowsRows
    <3>6. CASE k = Len(positionRows) + 1
      <4>1. j = i /\ positionRows'[k].version = v
        BY <2>2, <3>1, <3>6
      <4>2. 1 < l + 1
        BY <1>1
      <4> QED
        BY <2>3, <3>4, <4>1, <4>2 DEF AgeInv, WireGrows
    <3> QED
      BY <2>6, <3>5, <3>6
  <2>9. \A k \in 1..Len(positionRows') :
          positionRows'[k].version =< versions[positionRows'[k].instrument]
    BY <2>2, <2>4, <2>6 DEF AgeInv, Known
  <2> QED
    BY <1>2, <1>4, <1>5, <2>7, <2>8, <2>9 DEF AgeInv, Known
<1>7. CASE ~Position
  <2>1. positionRows' = positionRows
    BY <1>7 DEF Callback, NextValidId, Row, End, PositionEnd, OpenOrder, ErrorOfId,
       ErrorWithoutId
  <2>2. WireFollowsRows'
    <3> SUFFICES ASSUME NEW k \in 1..Len(positionRows), NEW l \in 1..Len(wire'),
                        Reports(l, positionRows[k].instrument)'
                 PROVE  positionRows[k].version =< wire'[l].version
      BY <2>1 DEF WireFollowsRows
    <3>1. PICK j \in Instruments : j = positionRows[k].instrument
      BY PositionTypes
    <3>2. Reports(l, j)'
      BY <2>1, <3>1 DEF Reports
    <3> QED
      BY <1>3, <3>1, <3>2 DEF AgeInv, WireFollowsRows
  <2> QED
    BY <1>2, <1>4, <1>5, <2>1, <2>2 DEF AgeInv, RowsGrow, Known
<1> QED
  BY <1>6, <1>7

LEMMA AgeStep == TypeInv /\ TypeInv' /\ AgeInv /\ [Next]_vars => AgeInv'
<1> SUFFICES ASSUME TypeInv, TypeInv', AgeInv, [Next]_vars PROVE AgeInv'
  OBVIOUS
<1>1. \A i \in Instruments : versions[i] \in Nat
  BY DEF TypeInv, TwsTypes
<1>2. CASE Callback
  BY <1>2, AgeCallback
<1>3. CASE UNCHANGED <<positionRows, wire, versions>>
  BY <1>3 DEF AgeInv, RowsGrow, WireGrows, WireFollowsRows, Known, Reports
<1>4. CASE Connect \/ ResetRows
  <2>1. positionRows' = << >> /\ UNCHANGED versions /\ (wire' = << >> \/ UNCHANGED wire)
    BY <1>4 DEF Connect, FreshApp, ResetRows, twsVars
  <2>2. 1..Len(positionRows') = {}
    BY <2>1, LenProperties
  <2>3. CASE wire' = << >>
    <3>1. 1..Len(wire') = {}
      BY <2>3, LenProperties
    <3> QED
      BY <2>2, <3>1 DEF AgeInv, RowsGrow, WireGrows, WireFollowsRows, Known
  <2>4. CASE UNCHANGED wire
    BY <2>1, <2>2, <2>4 DEF AgeInv, RowsGrow, WireGrows, WireFollowsRows, Known, Reports
  <2> QED
    BY <2>1, <2>3, <2>4
<1>5. CASE Caller /\ ~Connect /\ ~ResetRows
  <2>1. UNCHANGED <<positionRows, wire, versions>>
    <3>1. CASE \/ ConnectReturns \/ ConnectTimesOut \/ RequestReturns \/ RequestTimesOut
               \/ PositionsReturn \/ PositionsTimeOut
      BY <3>1 DEF ConnectReturns, ConnectTimesOut, RequestReturns, RequestTimesOut,
         PositionsReturn, PositionsTimeOut, appVars, twsVars
    <3>2. CASE PreviewReturns \/ PreviewTimesOut
      BY <3>2 DEF PreviewReturns, PreviewTimesOut, twsVars
    <3>3. CASE RequestRows \/ RequestPositions \/ PositionsNotRequested
      BY <3>3 DEF RequestRows, RequestPositions, PositionsNotRequested, twsVars
    <3>4. CASE NoOrderIdYet \/ SubmitOrder \/ PreviewMargin
      BY <3>4 DEF NoOrderIdYet, SubmitOrder, PreviewMargin, appVars, twsVars
    <3>5. CASE \E kind \in OrderKinds \cup {"request"} : SendRaises(kind)
      BY <3>5 DEF SendRaises, twsVars
    <3> QED
      BY <1>5, <3>1, <3>2, <3>3, <3>4, <3>5 DEF Caller
  <2> QED
    BY <1>3, <2>1
<1>6. CASE Tws
  <2>1. UNCHANGED positionRows
    BY <1>6 DEF Tws, SendOrderId, SendGlobalError, SendRow, SendEnd, SendOpenOrder,
       SendError, PositionChanges, appVars
  <2>2. ASSUME NEW m, Send(m), m.type # "position", UNCHANGED versions
        PROVE  AgeInv'
    BY <1>1, <2>1, <2>2, AgeSent
  <2>3. CASE SendOrderId \/ SendGlobalError
    <3>1. \E m : Send(m) /\ m.type # "position"
      BY <2>3 DEF SendOrderId, SendGlobalError
    <3>2. UNCHANGED versions
      BY <2>3 DEF SendOrderId, SendGlobalError
    <3> QED
      BY <2>2, <3>1, <3>2
  <2>4. CASE \E r \in serving : SendEnd(r) \/ SendOpenOrder(r) \/ SendError(r)
    <3>1. PICK r \in serving : SendEnd(r) \/ SendOpenOrder(r) \/ SendError(r)
      BY <2>4
    <3>2. UNCHANGED versions
      BY <3>1 DEF SendEnd, SendOpenOrder, SendError
    <3>3. CASE SendEnd(r)
      <4>1. PICK m : Send(m) /\ m = (IF r.kind = "positions" THEN [type |-> "positionEnd"]
                                     ELSE [type |-> "end", id |-> r.id])
        BY <3>3 DEF SendEnd
      <4>2. m.type # "position"
        BY <4>1
      <4> QED
        BY <2>2, <3>2, <4>1, <4>2
    <3>4. CASE SendOpenOrder(r)
      <4>1. \E m : Send(m) /\ m.type # "position"
        BY <3>4 DEF SendOpenOrder
      <4> QED
        BY <2>2, <3>2, <4>1
    <3>5. CASE SendError(r)
      <4>1. \E m : Send(m) /\ m.type # "position"
        BY <3>5 DEF SendError
      <4> QED
        BY <2>2, <3>2, <4>1
    <3> QED
      BY <3>1, <3>3, <3>4, <3>5
  <2>5. CASE \E r \in serving : SendRow(r)
    <3>1. PICK r \in serving : SendRow(r)
      BY <2>5
    <3>2. UNCHANGED versions
      BY <3>1 DEF SendRow
    <3>3. PICK m : /\ Send(m)
                   /\ m = (IF r.kind = "positions"
                           THEN [type |-> "position", instrument |-> r.sent + 1,
                                 version |-> versions[r.sent + 1]]
                           ELSE [type |-> "row", id |-> r.id,
                                 row |-> [of |-> r.serial, part |-> r.sent + 1]])
      BY <3>1 DEF SendRow
    <3>4. m.type = "position" => m.version = versions'[m.instrument]
      BY <3>2, <3>3
    <3> QED
      BY <1>1, <2>1, <3>2, <3>3, <3>4, AgeSent
  <2>6. CASE \E i \in Instruments : PositionChanges(i)
    <3>1. PICK i \in Instruments : PositionChanges(i)
      BY <2>6
    <3>2. \A j \in Instruments : versions[j] =< versions'[j]
      BY <1>1, <3>1 DEF PositionChanges, TypeInv, TwsTypes
    <3>3. CASE subscribed
      <4>1. PICK m : /\ Send(m)
                     /\ m = [type |-> "position", instrument |-> i, version |-> versions'[i]]
        BY <3>1, <3>3 DEF PositionChanges
      <4>2. m.type = "position" => m.version = versions'[m.instrument]
        BY <4>1
      <4> QED
        BY <2>1, <3>2, <4>1, <4>2, AgeSent
    <3>4. CASE ~subscribed
      <4>1. UNCHANGED wire
        BY <3>1, <3>4 DEF PositionChanges
      <4>2. \A j \in Instruments : versions'[j] \in Nat
        BY DEF TypeInv, TwsTypes
      <4>3. Known'
        <5>1. ASSUME NEW k \in 1..Len(positionRows)
              PROVE  positionRows[k].version =< versions'[positionRows[k].instrument]
          BY <1>1, <3>2, <4>2, PositionTypes DEF AgeInv, Known
        <5>2. ASSUME NEW k \in 1..Len(wire), NEW j \in Instruments, Reports(k, j)
              PROVE  wire[k].version =< versions'[j]
          BY <1>1, <3>2, <4>2, <5>2, PositionTypes DEF AgeInv, Known
        <5> QED
          BY <2>1, <4>1, <5>1, <5>2 DEF Known, Reports
      <4> QED
        BY <2>1, <4>1, <4>3 DEF AgeInv, RowsGrow, WireGrows, WireFollowsRows, Reports
    <3> QED
      BY <3>3, <3>4
  <2> QED
    BY <1>6, <2>3, <2>4, <2>5, <2>6 DEF Tws
<1>7. CASE UNCHANGED vars
  BY <1>3, <1>7 DEF vars, appVars, twsVars
<1> QED
  BY <1>2, <1>4, <1>5, <1>6, <1>7 DEF Next

\* What is young stays so: when TWS sends, where it is; when the app reads, one
\* place earlier.
LEMMA YoungSent ==
  ASSUME TypeInv, NEW m, Send(m), UNCHANGED positionRows,
         NEW i, NEW v, NEW n \in 1..(Len(wire) + 1), YoungRow(i, v, n)
  PROVE  YoungRow(i, v, n)'
<1>1. /\ Len(wire) \in Nat /\ Len(wire') = Len(wire) + 1
      /\ \A j \in 1..Len(wire) : wire'[j] = wire[j]
  BY SendExtends
<1>2. CASE HeldRow(i, v)
  BY <1>2 DEF YoungRow, HeldRow
<1>3. CASE ComingRow(i, v, n)
  <2>1. PICK k \in 1..Len(wire) : k < n /\ Reports(k, i) /\ wire[k].version >= v
    BY <1>3 DEF ComingRow
  <2>2. k \in 1..Len(wire') /\ wire'[k] = wire[k]
    BY <1>1
  <2> QED
    BY <2>1, <2>2 DEF YoungRow, ComingRow, Reports
<1> QED
  BY <1>2, <1>3 DEF YoungRow

LEMMA YoungRead ==
  ASSUME TypeInv, Callback, NEW i, NEW v \in Nat, NEW n \in 1..(Len(wire) + 1),
         YoungRow(i, v, n)
  PROVE  YoungRow(i, v, n - 1)'
<1>0. PICK type : Read(type)
  BY DEF Callback, NextValidId, Row, End, Position, PositionEnd, OpenOrder, ErrorOfId,
     ErrorWithoutId
<1>1. /\ Len(wire) \in Nat \ {0} /\ Len(wire') = Len(wire) - 1 /\ Message = wire[1]
      /\ \A k \in 1..Len(wire') : k + 1 \in 1..Len(wire) /\ wire'[k] = wire[k + 1]
      /\ Message.type = type /\ Message \in Messages
  BY <1>0, ReadShifts, ReadTypes
<1>2. /\ Len(positionRows) \in Nat /\ Len(positionRows') >= Len(positionRows)
      /\ Len(positionRows') \in Nat
      /\ \A k \in 1..Len(positionRows) : positionRows'[k] = positionRows[k]
      /\ Position => positionRows'[Len(positionRows')]
                       = [instrument |-> Message.instrument, version |-> Message.version]
                     /\ Len(positionRows') >= 1
  <2>1. positionRows \in Seq([instrument : Instruments, version : Nat])
    BY DEF TypeInv, AppTypes
  <2>2. CASE Position
    <3>1. [instrument |-> Message.instrument, version |-> Message.version]
            \in [instrument : Instruments, version : Nat]
      BY <1>1, <2>2, ReadTypes DEF Position, Messages
    <3> QED
      BY <2>1, <2>2, <3>1, AppendProperties, LenProperties DEF Position
  <2>3. CASE ~Position
    <3>1. positionRows' = positionRows
      BY <2>3 DEF Callback, NextValidId, Row, End, PositionEnd, OpenOrder, ErrorOfId,
         ErrorWithoutId
    <3> QED
      BY <2>1, <2>3, <3>1, LenProperties
  <2> QED
    BY <2>2, <2>3
<1>3. CASE HeldRow(i, v)
  <2>1. PICK k \in 1..Len(positionRows) :
          positionRows[k].instrument = i /\ positionRows[k].version >= v
    BY <1>3 DEF HeldRow
  <2>2. k \in 1..Len(positionRows') /\ positionRows'[k] = positionRows[k]
    BY <1>2
  <2> QED
    BY <2>1, <2>2 DEF YoungRow, HeldRow
<1>4. CASE ComingRow(i, v, n)
  <2>1. PICK k \in 1..Len(wire) : k < n /\ Reports(k, i) /\ wire[k].version >= v
    BY <1>4 DEF ComingRow
  <2>2. CASE k = 1
    <3>1. Position
      BY <1>1, <2>1, <2>2 DEF Reports, Callback, NextValidId, Row, End, PositionEnd,
         OpenOrder, ErrorOfId, ErrorWithoutId, Read, Message
    <3>2. /\ Len(positionRows') \in 1..Len(positionRows')
          /\ positionRows'[Len(positionRows')].instrument = i
          /\ positionRows'[Len(positionRows')].version >= v
      BY <1>1, <1>2, <2>1, <2>2, <3>1 DEF Reports
    <3> QED
      BY <3>2 DEF YoungRow, HeldRow
  <2>3. CASE k # 1
    <3>1. PICK l \in 1..Len(wire') : l + 1 = k /\ wire'[l] = wire[k] /\ l < n - 1
      <4>1. k - 1 \in 1..Len(wire') /\ (k - 1) + 1 = k /\ k - 1 < n - 1
        BY <1>1, <2>1, <2>3
      <4> QED
        BY <1>1, <4>1
    <3> QED
      BY <2>1, <3>1 DEF YoungRow, ComingRow, Reports
  <2> QED
    BY <2>2, <2>3
<1> QED
  BY <1>3, <1>4 DEF YoungRow

LEMMA SinceTypes ==
  ASSUME TypeInv, call.kind = "positions"
  PROVE  \A i \in Instruments : call.since[i] \in Nat
BY DEF TypeInv, CallTypes, Calls, NoCall

LEMMA SinceSent ==
  ASSUME TypeInv, TypeInv', SinceInv, NEW m, Send(m),
         UNCHANGED <<positionRows, positionEvent, globalError, call>>,
         \A i \in Instruments : versions[i] =< versions'[i],
         call.kind = "positions" /\ ~call.strays =>
           /\ m.type = "positionEnd" =>
                \A i \in Instruments : YoungRow(i, call.since[i], Len(wire) + 1)
           /\ \A r \in serving' : r.kind = "positions" =>
                \A i \in 1..r.sent :
                  \/ YoungRow(i, call.since[i], Len(wire) + 1)
                  \/ m.type = "position" /\ m.instrument = i /\ m.version >= call.since[i]
  PROVE  SinceInv'
<1> SUFFICES ASSUME call.kind = "positions", ~call.strays
             PROVE  /\ \A i \in Instruments : call.since[i] =< versions'[i]
                    /\ positionEvent => globalError \/ \A i \in Instruments : HeldRow(i, call.since[i])
                    /\ \A k \in 1..Len(wire') : wire'[k].type = "positionEnd" =>
                         \A i \in Instruments : YoungRow(i, call.since[i], k)'
                    /\ \A r \in serving' : r.kind = "positions" =>
                         \A i \in 1..r.sent : YoungRow(i, call.since[i], Len(wire) + 1)'
  BY DEF SinceInv, HeldRow
<1>1. PICK last : last = Len(wire) + 1
  OBVIOUS
<1>2. /\ Len(wire) \in Nat /\ Len(wire') = last /\ last \in Nat
      /\ \A j \in 1..Len(wire) : wire'[j] = wire[j]
      /\ wire'[last] = m
  BY <1>1, SendExtends
<1>3. \A i \in Instruments :
        call.since[i] \in Nat /\ versions[i] \in Nat /\ versions'[i] \in Nat
        /\ call.since[i] =< versions[i]
  BY SinceTypes DEF SinceInv, TypeInv, TwsTypes
<1>4. \A k \in 1..Len(wire') : k \in 1..Len(wire) \/ k = last
  BY <1>1, <1>2
<1>5. ASSUME NEW k \in 1..Len(wire'), wire'[k].type = "positionEnd", NEW i \in Instruments
      PROVE  YoungRow(i, call.since[i], k)'
  <2>1. YoungRow(i, call.since[i], k)
    <3>1. CASE k \in 1..Len(wire)
      BY <1>2, <1>5, <3>1 DEF SinceInv
    <3>2. CASE k = last
      BY <1>1, <1>2, <1>5, <3>2
    <3> QED
      BY <1>4, <3>1, <3>2
  <2>2. k \in 1..(Len(wire) + 1)
    BY <1>1, <1>2
  <2> DEFINE v == call.since[i]
  <2>3. PICK w : w = v
    OBVIOUS
  <2>4. YoungRow(i, w, k)
    BY <2>1, <2>3
  <2>5. YoungRow(i, w, k)'
    BY <2>2, <2>4, YoungSent
  <2> QED
    BY <2>3, <2>5 DEF YoungRow, HeldRow, ComingRow
<1>6. ASSUME NEW r \in serving', r.kind = "positions", NEW i \in 1..r.sent
      PROVE  YoungRow(i, call.since[i], Len(wire) + 1)'
  <2>1. PICK w : w = call.since[i]
    OBVIOUS
  <2>2. CASE YoungRow(i, w, last)
    <3>1. YoungRow(i, w, last)'
      BY <1>1, <1>2, <2>2, YoungSent
    <3> QED
      BY <1>2, <2>1, <3>1 DEF YoungRow, HeldRow, ComingRow
  <2>3. CASE m.type = "position" /\ m.instrument = i /\ m.version >= w
    <3>1. last \in 1..Len(wire') /\ last < Len(wire') + 1 /\ Reports(last, i)'
          /\ wire'[last].version >= w
      BY <1>1, <1>2, <2>3 DEF Reports
    <3> QED
      BY <2>1, <3>1 DEF YoungRow, ComingRow
  <2> QED
    BY <1>1, <1>6, <2>1, <2>2, <2>3
<1>7. \A i \in Instruments : call.since[i] =< versions'[i]
  BY <1>3
<1>8. positionEvent => globalError \/ \A i \in Instruments : HeldRow(i, call.since[i])
  BY DEF SinceInv
<1> QED
  BY <1>5, <1>6, <1>7, <1>8

LEMMA SinceTws == TypeInv /\ TypeInv' /\ SinceInv /\ Tws => SinceInv'
<1> SUFFICES ASSUME TypeInv, TypeInv', SinceInv, Tws PROVE SinceInv'
  OBVIOUS
<1>1. UNCHANGED <<positionRows, positionEvent, globalError, call>>
  BY DEF Tws, SendOrderId, SendGlobalError, SendRow, SendEnd, SendOpenOrder,
     SendError, PositionChanges, appVars
<1>2. \A i \in Instruments : versions[i] \in Nat
  BY DEF TypeInv, TwsTypes
<1> DEFINE Answering(r) ==
      call.kind = "positions" /\ ~call.strays /\ r.kind = "positions" =>
        \A i \in 1..r.sent : YoungRow(i, call.since[i], Len(wire) + 1)
<1>3. \A r \in serving : Answering(r)
  BY DEF SinceInv
<1> HIDE DEF Answering
<1>4. ASSUME NEW m, Send(m), m.type # "positionEnd", UNCHANGED versions,
             serving' \subseteq serving
      PROVE  SinceInv'
  BY <1>1, <1>2, <1>3, <1>4, SinceSent DEF Answering
<1>5. CASE SendOrderId \/ SendGlobalError
  <2>1. \E m : Send(m) /\ m.type # "positionEnd"
    BY <1>5 DEF SendOrderId, SendGlobalError
  <2>2. UNCHANGED <<versions, serving>>
    BY <1>5 DEF SendOrderId, SendGlobalError
  <2> QED
    BY <1>4, <2>1, <2>2
<1>6. CASE \E r \in serving : SendOpenOrder(r) \/ SendError(r)
  <2>1. PICK r \in serving : SendOpenOrder(r) \/ SendError(r)
    BY <1>6
  <2>2. UNCHANGED versions /\ serving' \subseteq serving
    BY <2>1 DEF SendOpenOrder, SendError
  <2>3. \E m : Send(m) /\ m.type # "positionEnd"
    <3>1. CASE SendOpenOrder(r)
      BY <3>1 DEF SendOpenOrder
    <3>2. CASE SendError(r)
      BY <3>2 DEF SendError
    <3> QED
      BY <2>1, <3>1, <3>2
  <2> QED
    BY <1>4, <2>2, <2>3
<1>7. CASE \E r \in serving : SendEnd(r)
  <2>1. PICK r \in serving : SendEnd(r)
    BY <1>7
  <2>2. UNCHANGED versions /\ serving' \subseteq serving /\ r.sent = Parts
    BY <2>1 DEF SendEnd
  <2>3. PICK m : Send(m) /\ m = (IF r.kind = "positions" THEN [type |-> "positionEnd"]
                                 ELSE [type |-> "end", id |-> r.id])
    BY <2>1 DEF SendEnd
  <2>4. CASE r.kind = "positions"
    <3>1. call.kind = "positions" /\ ~call.strays =>
            \A i \in Instruments : YoungRow(i, call.since[i], Len(wire) + 1)
      BY <1>3, <2>2, <2>4 DEF Answering, Instruments
    <3> QED
      BY <1>1, <1>2, <1>3, <2>2, <2>3, <3>1, SinceSent DEF Answering
  <2>5. CASE r.kind # "positions"
    BY <1>4, <2>2, <2>3, <2>5
  <2> QED
    BY <2>4, <2>5
<1>8. CASE \E r \in serving : SendRow(r)
  <2>1. PICK r \in serving : SendRow(r)
    BY <1>8
  <2>2. UNCHANGED versions /\ r.sent < Parts /\ r.sent \in 0..Parts
    BY <2>1 DEF SendRow, TypeInv, TwsTypes
  <2>3. PICK m : /\ Send(m)
                 /\ m = (IF r.kind = "positions"
                         THEN [type |-> "position", instrument |-> r.sent + 1,
                               version |-> versions[r.sent + 1]]
                         ELSE [type |-> "row", id |-> r.id,
                               row |-> [of |-> r.serial, part |-> r.sent + 1]])
    BY <2>1 DEF SendRow
  <2>4. PICK s : s = [r EXCEPT !.sent = @ + 1] /\ serving' = (serving \ {r}) \cup {s}
    BY <2>1 DEF SendRow, Progress
  <2>5. s.kind = r.kind /\ s.sent = r.sent + 1
    BY <2>4 DEF TypeInv, TwsTypes
  <2>6. ASSUME call.kind = "positions", ~call.strays, s.kind = "positions", NEW i \in 1..s.sent
        PROVE  \/ YoungRow(i, call.since[i], Len(wire) + 1)
               \/ m.type = "position" /\ m.instrument = i /\ m.version >= call.since[i]
    <3>1. CASE i \in 1..r.sent
      BY <1>3, <2>5, <2>6, <3>1 DEF Answering
    <3>2. CASE i = r.sent + 1
      <4>1. i \in Instruments /\ m.type = "position" /\ m.instrument = i /\ m.version = versions[i]
        BY <2>2, <2>3, <2>5, <2>6, <3>2, PartsAssumption DEF Instruments
      <4>2. call.since[i] =< versions[i] /\ call.since[i] \in Nat /\ versions[i] \in Nat
        BY <1>2, <2>6, <4>1, SinceTypes DEF SinceInv
      <4> QED
        BY <4>1, <4>2
    <3> QED
      BY <2>2, <2>5, <3>1, <3>2
  <2>7. m.type # "positionEnd"
    BY <2>3
  <2>8. ASSUME call.kind = "positions", ~call.strays, NEW q \in serving', q.kind = "positions",
               NEW i \in 1..q.sent
        PROVE  \/ YoungRow(i, call.since[i], Len(wire) + 1)
               \/ m.type = "position" /\ m.instrument = i /\ m.version >= call.since[i]
    <3>1. CASE q = s
      BY <2>6, <2>8, <3>1
    <3>2. CASE q \in serving
      BY <1>3, <2>8, <3>2 DEF Answering
    <3> QED
      BY <2>4, <3>1, <3>2
  <2>9. \A i \in Instruments : versions[i] =< versions'[i]
    BY <1>2, <2>2
  <2>10. Send(m)
    BY <2>3
  <2> QED
    BY <1>1, <2>7, <2>8, <2>9, <2>10, SinceSent
<1>9. CASE \E i \in Instruments : PositionChanges(i)
  <2>1. PICK i \in Instruments : PositionChanges(i)
    BY <1>9
  <2>2. /\ \A j \in Instruments : versions[j] =< versions'[j] /\ versions'[j] \in Nat
        /\ UNCHANGED serving
    BY <1>2, <2>1 DEF PositionChanges, TypeInv, TwsTypes
  <2>3. CASE subscribed
    <3>1. \E m : Send(m) /\ m.type # "positionEnd"
      BY <2>1, <2>3 DEF PositionChanges
    <3> QED
      BY <1>1, <1>3, <2>2, <3>1, SinceSent DEF Answering
  <2>4. CASE ~subscribed
    <3>1. UNCHANGED wire
      BY <2>1, <2>4 DEF PositionChanges
    <3>2. \A j \in Instruments : call.kind = "positions" => call.since[j] \in Nat
      BY SinceTypes
    <3>3. (call.kind = "positions" /\ ~call.strays) =>
            \A j \in Instruments : call.since[j] =< versions'[j]
      BY <1>2, <2>2, <3>2 DEF SinceInv
    <3> QED
      BY <1>1, <2>2, <3>1, <3>3 DEF SinceInv, YoungRow, HeldRow, ComingRow, Reports
  <2> QED
    BY <2>3, <2>4
<1> QED
  BY <1>5, <1>6, <1>7, <1>8, <1>9 DEF Tws

LEMMA SinceCallback == TypeInv /\ SinceInv /\ Callback => SinceInv'
<1> SUFFICES ASSUME TypeInv, SinceInv, Callback PROVE SinceInv'
  OBVIOUS
<1>0. PICK type : Read(type)
  BY DEF Callback, NextValidId, Row, End, Position, PositionEnd, OpenOrder, ErrorOfId,
     ErrorWithoutId
<1>1. /\ Len(wire) \in Nat \ {0} /\ Len(wire') = Len(wire) - 1 /\ Message = wire[1]
      /\ \A k \in 1..Len(wire') : k + 1 \in 1..Len(wire) /\ wire'[k] = wire[k + 1]
  BY <1>0, ReadShifts
<1>2. UNCHANGED <<call, serving, versions>>
  BY DEF Callback
<1> SUFFICES ASSUME call.kind = "positions", ~call.strays
             PROVE  /\ \A i \in Instruments : call.since[i] =< versions[i]
                    /\ positionEvent' =>
                         globalError' \/ \A i \in Instruments : HeldRow(i, call.since[i])'
                    /\ \A k \in 1..Len(wire') : wire'[k].type = "positionEnd" =>
                         \A i \in Instruments : YoungRow(i, call.since[i], k)'
                    /\ \A r \in serving : r.kind = "positions" =>
                         \A i \in 1..r.sent : YoungRow(i, call.since[i], Len(wire) + 1)'
  BY <1>2 DEF SinceInv
<1>3. \A i \in Instruments : call.since[i] \in Nat
  BY SinceTypes
<1>4. ASSUME NEW i \in Instruments, NEW n \in 1..(Len(wire) + 1), NEW l, l = n - 1,
             YoungRow(i, call.since[i], n)
      PROVE  YoungRow(i, call.since[i], l)'
  <2>1. PICK w \in Nat : w = call.since[i]
    BY <1>3
  <2>2. PICK j : j = n
    OBVIOUS
  <2>3. YoungRow(i, w, j - 1)'
    BY <1>4, <2>1, <2>2, YoungRead
  <2>4. l' = j - 1
    BY <1>4, <2>2
  <2> QED
    BY <1>2, <2>1, <2>3, <2>4 DEF YoungRow, HeldRow, ComingRow
<1>5. \A i \in Instruments : call.since[i] =< versions[i]
  BY DEF SinceInv
<1>6. ASSUME NEW k \in 1..Len(wire'), wire'[k].type = "positionEnd", NEW i \in Instruments
      PROVE  YoungRow(i, call.since[i], k)'
  <2>1. PICK n \in 1..Len(wire) : n = k + 1 /\ wire[n].type = "positionEnd"
    BY <1>1, <1>6
  <2>2. YoungRow(i, call.since[i], n)
    BY <2>1 DEF SinceInv
  <2>3. n \in 1..(Len(wire) + 1) /\ k = n - 1
    BY <1>1, <2>1
  <2> QED
    BY <1>4, <2>2, <2>3
<1>7. ASSUME NEW r \in serving, r.kind = "positions", NEW i \in 1..r.sent
      PROVE  YoungRow(i, call.since[i], Len(wire) + 1)'
  <2>1. YoungRow(i, call.since[i], Len(wire) + 1)
    BY <1>7 DEF SinceInv
  <2>2. i \in Instruments
    BY <1>7, PartsAssumption DEF TypeInv, TwsTypes, Instruments
  <2>3. PICK n \in 1..(Len(wire) + 1) : n = Len(wire) + 1
    BY <1>1
  <2>4. PICK l : l = n - 1
    OBVIOUS
  <2>5. YoungRow(i, call.since[i], l)'
    BY <1>4, <2>1, <2>2, <2>3, <2>4
  <2>6. l = Len(wire') + 1
    BY <1>1, <2>3, <2>4
  <2> QED
    BY <2>5, <2>6
<1>8. ASSUME positionEvent', ~globalError', NEW i \in Instruments
      PROVE  HeldRow(i, call.since[i])'
  <2>1. CASE PositionEnd
    <3>1. 1 \in 1..Len(wire) /\ wire[1].type = "positionEnd"
      BY <1>1, <2>1 DEF PositionEnd, Read, Message
    <3>2. YoungRow(i, call.since[i], 1)
      BY <3>1 DEF SinceInv
    <3>3. ~ComingRow(i, call.since[i], 1)
      BY DEF ComingRow
    <3>4. HeldRow(i, call.since[i])
      BY <3>2, <3>3 DEF YoungRow
    <3> QED
      BY <1>2, <2>1, <3>4 DEF PositionEnd, HeldRow
  <2>2. CASE ~PositionEnd
    <3>1. positionEvent' = positionEvent /\ globalError' = globalError
      BY <1>8, <2>2 DEF Callback, NextValidId, Row, End, Position, OpenOrder, ErrorOfId,
         ErrorWithoutId
    <3>2. HeldRow(i, call.since[i])
      BY <1>8, <3>1 DEF SinceInv
    <3>3. 1 \in 1..(Len(wire) + 1) /\ YoungRow(i, call.since[i], 1)
      BY <1>1, <3>2 DEF YoungRow
    <3>4. PICK l : l = 1 - 1
      OBVIOUS
    <3>5. YoungRow(i, call.since[i], l)'
      BY <1>4, <3>3, <3>4
    <3>6. ~ComingRow(i, call.since[i], l)'
      BY <3>4 DEF ComingRow
    <3> QED
      BY <3>5, <3>6 DEF YoungRow
  <2> QED
    BY <2>1, <2>2
<1>9. positionEvent' => globalError' \/ \A i \in Instruments : HeldRow(i, call.since[i])'
  BY <1>8
<1> QED
  BY <1>5, <1>6, <1>7, <1>9

LEMMA SinceStep == TypeInv /\ TypeInv' /\ SinceInv /\ [Next]_vars => SinceInv'
<1> SUFFICES ASSUME TypeInv, TypeInv', SinceInv, [Next]_vars PROVE SinceInv'
  OBVIOUS
<1>1. CASE RequestPositions
  <2>1. /\ UNCHANGED <<versions, wire>> /\ ~positionEvent' /\ Serve(call')
        /\ call'.since = versions /\ call'.strays = Strays
        /\ \A i \in Instruments : versions[i] \in Nat
    BY <1>1 DEF RequestPositions, NewEvent, TypeInv, TwsTypes
  <2> SUFFICES ASSUME ~Strays PROVE SinceInv'
    BY <2>1 DEF SinceInv
  <2>2. \A k \in 1..Len(wire) : wire[k].type # "positionEnd"
    BY LenProperties DEF Strays, TypeInv, TwsTypes
  <2>3. ASSUME NEW r \in serving', r.kind = "positions"
        PROVE  1..r.sent = {}
    <3>1. r \notin serving
      BY <2>3 DEF Strays
    <3>2. r.sent = 0
      BY <2>1, <2>3, <3>1 DEF Serve
    <3> QED
      BY <3>2
  <2>4. \A i \in Instruments : call'.since[i] =< versions'[i]
    BY <2>1
  <2> QED
    BY <2>1, <2>2, <2>3, <2>4 DEF SinceInv
<1>2. CASE Caller /\ ~RequestPositions
  <2>1. call'.kind # "positions"
    <3>1. CASE \/ ConnectReturns \/ ConnectTimesOut \/ RequestReturns \/ RequestTimesOut
               \/ PositionsReturn \/ PositionsTimeOut \/ PreviewReturns \/ PreviewTimesOut
               \/ PositionsNotRequested
      <4>1. call' = NoCall
        BY <3>1 DEF ConnectReturns, ConnectTimesOut, RequestReturns, RequestTimesOut,
           PositionsReturn, PositionsTimeOut, PreviewReturns, PreviewTimesOut,
           PositionsNotRequested, GiveUp, EndCall
      <4> QED
        BY <4>1 DEF NoCall
    <3>2. CASE Connect
      BY <3>2 DEF Connect, NewCall
    <3>3. CASE RequestRows \/ ResetRows \/ PreviewMargin
      BY <3>3 DEF RequestRows, ResetRows, PreviewMargin, NewCall
    <3>4. CASE \/ NoOrderIdYet \/ SubmitOrder
               \/ \E kind \in OrderKinds \cup {"request"} : SendRaises(kind)
      <4>1. call = NoCall /\ call' = call
        BY <3>4 DEF NoOrderIdYet, SubmitOrder, SendRaises, TakeOrderId, MayCall
      <4> QED
        BY <4>1 DEF NoCall
    <3> QED
      BY <1>2, <3>1, <3>2, <3>3, <3>4 DEF Caller
  <2> QED
    BY <2>1 DEF SinceInv
<1>3. CASE UNCHANGED vars
  BY <1>3 DEF vars, appVars, twsVars, SinceInv, YoungRow, HeldRow, ComingRow, Reports
<1> QED
  BY <1>1, <1>2, <1>3, SinceTws, SinceCallback DEF Next

LEMMA AgeInvariant == Spec => [](AgeInv /\ SinceInv)
<1>1. Init => AgeInv /\ SinceInv
  <2> SUFFICES ASSUME Init PROVE AgeInv /\ SinceInv
    OBVIOUS
  <2>1. 1..Len(positionRows) = {} /\ 1..Len(wire) = {}
    BY LenProperties DEF Init
  <2>2. call.kind # "positions"
    BY DEF Init, NoCall
  <2> QED
    BY <2>1, <2>2 DEF AgeInv, RowsGrow, WireGrows, WireFollowsRows, Known, SinceInv
<1>2. TypeInv /\ TypeInv' /\ AgeInv /\ SinceInv /\ [Next]_vars => (AgeInv /\ SinceInv)'
  BY AgeStep, SinceStep
<1> QED
  BY <1>1, <1>2, TypesInductive, PTL DEF Spec

\* The last row of an instrument is no older than any row of it.
LEMMA CurrentReturned ==
  ASSUME TypeInv, AgeInv, SinceInv, PositionsReturn, PendingError(-1) = NoCause,
         ~call.strays, NEW i \in Instruments
  PROVE  \E k \in LastRow(positionRows, i) : positionRows[k].version >= call.since[i]
<1>1. call.kind = "positions" /\ positionEvent /\ ~globalError
  BY NothingToRaise DEF PositionsReturn
<1>2. PICK k \in 1..Len(positionRows) :
        positionRows[k].instrument = i /\ positionRows[k].version >= call.since[i]
  BY <1>1 DEF SinceInv, HeldRow
<1> DEFINE S == {l \in 1..Len(positionRows) : positionRows[l].instrument = i}
           n == Len(positionRows)
<1>3. n \in Nat /\ S \in SUBSET (1..n) /\ k \in S /\ DOMAIN positionRows = 1..n
  BY <1>2, PositionTypes, LenProperties DEF TypeInv, AppTypes
<1>4. PICK last \in S : \A l \in S : l =< last
  <2> HIDE DEF S, n
  <2> QED
    BY <1>3, Greatest
<1>5. last \in LastRow(positionRows, i)
  BY <1>3, <1>4 DEF LastRow
<1>6. /\ positionRows[k].version \in Nat /\ positionRows[last].version \in Nat
      /\ call.since[i] \in Nat
  BY <1>1, <1>3, <1>4, PositionTypes, SinceTypes
<1>7. positionRows[k].version =< positionRows[last].version
  <2>1. CASE k = last
    BY <1>6, <2>1
  <2>2. CASE k < last
    BY <1>2, <1>4, <2>2 DEF AgeInv, RowsGrow
  <2> QED
    BY <1>3, <1>4, <2>1, <2>2
<1> QED
  BY <1>2, <1>5, <1>6, <1>7

LEMMA CurrentStep ==
  TypeInv /\ AgeInv /\ SinceInv /\ StalePositionsNeedStrayEnd /\ [Next]_vars
    => StalePositionsNeedStrayEnd'
<1> SUFFICES ASSUME TypeInv, AgeInv, SinceInv, StalePositionsNeedStrayEnd, [Next]_vars
             PROVE  StalePositionsNeedStrayEnd'
  OBVIOUS
<1>1. CASE PositionsReturn
  <2>1. /\ outcome'.kind = "positions" /\ outcome'.call = call
        /\ outcome'.ok = (PendingError(-1) = NoCause)
        /\ outcome'.rows = positionRows
    BY <1>1 DEF PositionsReturn, EndCall
  <2> SUFFICES ASSUME PendingError(-1) = NoCause, ~call.strays PROVE Current(outcome')
    BY <2>1 DEF StalePositionsNeedStrayEnd, Current
  <2>2. \A i \in Instruments :
          \E k \in LastRow(positionRows, i) : positionRows[k].version >= call.since[i]
    BY <1>1, CurrentReturned
  <2> QED
    BY <2>1, <2>2 DEF Current
<1>2. CASE \/ ConnectTimesOut \/ PositionsTimeOut \/ RequestTimesOut \/ PreviewTimesOut
           \/ PositionsNotRequested
           \/ \E kind \in OrderKinds \cup {"request"} : SendRaises(kind)
  <2>1. outcome'.ok = FALSE
    BY <1>2 DEF ConnectTimesOut, PositionsTimeOut, RequestTimesOut, PreviewTimesOut,
       GiveUp, EndCall, PositionsNotRequested, SendRaises
  <2> QED
    BY <2>1 DEF StalePositionsNeedStrayEnd
<1>3. CASE ConnectReturns \/ RequestReturns \/ PreviewReturns
  <2>1. outcome'.kind = call.kind /\ call.kind # "positions"
    BY <1>3 DEF ConnectReturns, RequestReturns, PreviewReturns, EndCall
  <2> QED
    BY <2>1 DEF StalePositionsNeedStrayEnd
<1>4. CASE NoOrderIdYet \/ SubmitOrder
  <2>1. outcome'.kind = "order"
    <3>1. CASE NoOrderIdYet
      BY <3>1 DEF NoOrderIdYet
    <3>2. CASE SubmitOrder
      BY <3>2 DEF SubmitOrder
    <3> QED
      BY <1>4, <3>1, <3>2
  <2> QED
    BY <2>1 DEF StalePositionsNeedStrayEnd
<1>5. CASE Connect \/ RequestRows \/ ResetRows \/ PreviewMargin
  <2>1. outcome' = NoOutcome
    BY <1>5 DEF Connect, RequestRows, ResetRows, PreviewMargin
  <2> QED
    BY <2>1 DEF StalePositionsNeedStrayEnd, NoOutcome
<1>6. CASE RequestPositions \/ Tws \/ Callback \/ UNCHANGED vars
  <2>1. outcome' = outcome
    BY <1>6 DEF RequestPositions, Tws, Callback, SendOrderId, SendGlobalError,
       SendRow, SendEnd, SendOpenOrder, SendError, PositionChanges, vars
  <2> QED
    BY <2>1 DEF StalePositionsNeedStrayEnd, Current
<1> QED
  BY <1>1, <1>2, <1>3, <1>4, <1>5, <1>6 DEF Next, Caller

\* Positions that are returned hold, of each instrument, a last row that is no
\* older than the request, unless the end of an earlier answer was on its way.
THEOREM PositionsAreCurrent == Spec => []StalePositionsNeedStrayEnd
<1>1. Init => StalePositionsNeedStrayEnd
  BY DEF Init, StalePositionsNeedStrayEnd, NoOutcome
<1> QED
  BY <1>1, TypesInductive, AgeInvariant, CurrentStep, PTL DEF Spec
=============================================================================
