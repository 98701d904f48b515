------------------------ MODULE PositionControlProofs ------------------------
(***************************************************************************)
(* Proofs about PositionControl, for every set of instruments, every start *)
(* and any number of trades, flatten commands and fills.                   *)
(***************************************************************************)
EXTENDS PositionControl, TLAPS

-----------------------------------------------------------------------------
(* The list of orders.                                                     *)

\* An order that arrives is the last of the list, and changes no other.
LEMMA Arrival ==
  ASSUME orders \in Seq(Order), NEW o \in Order, orders' = Append(orders, o)
  PROVE  /\ orders' \in Seq(Order)
         /\ DOMAIN orders' = DOMAIN orders \cup {Len(orders) + 1}
         /\ Len(orders) + 1 \notin DOMAIN orders
         /\ orders'[Len(orders) + 1] = o
         /\ \A k \in DOMAIN orders : orders'[k] = orders[k]
  OBVIOUS

\* A fill or an end changes what one order has left.
LEMMA Change ==
  ASSUME orders \in Seq(Order), NEW k \in DOMAIN orders, NEW n \in Int,
         orders' = [orders EXCEPT ![k].left = n]
  PROVE  /\ orders' \in Seq(Order)
         /\ DOMAIN orders' = DOMAIN orders
         /\ orders'[k].left = n
         /\ orders'[k].instrument = orders[k].instrument
         /\ orders'[k].owner = orders[k].owner
         /\ \A l \in DOMAIN orders : l # k => orders'[l] = orders[l]
<1>1. orders[k] \in Order
  OBVIOUS
<1>2. [orders[k] EXCEPT !.left = n] \in Order
  BY <1>1 DEF Order
<1>3. orders' = [orders EXCEPT ![k] = [orders[k] EXCEPT !.left = n]]
  OBVIOUS
<1>4. orders'[k] = [orders[k] EXCEPT !.left = n]
  BY <1>3
<1>5. /\ orders'[k].left = n
      /\ orders'[k].instrument = orders[k].instrument
      /\ orders'[k].owner = orders[k].owner
  BY <1>1, <1>4 DEF Order
<1>6. orders' \in Seq(Order)
  BY <1>2, <1>3
<1>7. /\ DOMAIN orders' = DOMAIN orders
      /\ \A l \in DOMAIN orders : l # k => orders'[l] = orders[l]
  BY <1>3
<1> QED
  BY <1>5, <1>6, <1>7

\* What a fill does to an order and to the position.
LEMMA FillStep ==
  ASSUME TypeOK, NEW k \in DOMAIN orders, Filled(k)
  PROVE  /\ orders[k] \in Order
         /\ orders[k].instrument \in Instruments
         /\ orders[k].left \in Int \ {0}
         /\ Direction(k) \in {-1, 1}
         /\ Direction(k) = 1 <=> orders[k].left > 0
         /\ orders' = [orders EXCEPT ![k].left = orders[k].left - Direction(k)]
         /\ orders[k].left - Direction(k) \in Int
         /\ broker' = [broker EXCEPT ![orders[k].instrument] = @ + Direction(k)]
<1>1. orders[k] \in Order
  BY DEF TypeOK
<1>2. orders[k].instrument \in Instruments /\ orders[k].left \in Int \ {0}
  BY <1>1 DEF Order, Filled, LiveOrders, Live
<1>3. /\ Direction(k) \in {-1, 1}
      /\ Direction(k) = 1 <=> orders[k].left > 0
      /\ orders[k].left - Direction(k) \in Int
  BY <1>2 DEF Direction
<1> QED
  BY <1>1, <1>2, <1>3 DEF Filled

-----------------------------------------------------------------------------
(* The types.                                                              *)

LEMMA TypeInit == Init => TypeOK
<1> SUFFICES ASSUME Init PROVE TypeOK
  OBVIOUS
<1>1. broker \in [Instruments -> Int]
  BY ControlAssumption DEF Init
<1>2. rows \subseteq Instruments /\ books \in [Instruments -> Int]
  BY <1>1 DEF Init
<1>3. session \in SessionStates /\ flatten \in FlattenStates
  BY DEF Init, SessionStates, FlattenStates
<1>4. unseen = [i \in Instruments |-> broker[i] - books[i]]
  BY DEF Init
<1>5. unseen \in [Instruments -> Int]
  BY <1>1, <1>2, <1>4
<1>6. orders \in Seq(Order)
  BY DEF Init
<1>7. /\ bought \in [Instruments -> Nat] /\ sold \in [Instruments -> Nat]
      /\ flattens \in Nat /\ moved \subseteq Instruments
      /\ start \in [Instruments -> Int]
      /\ undisturbed \in BOOLEAN /\ ended \subseteq Instruments
  BY <1>1 DEF Init
<1> QED
  BY <1>1, <1>2, <1>3, <1>5, <1>6, <1>7 DEF TypeOK

LEMMA SessionType ==
  ASSUME TypeOK, Connected \/ ConnectFailed \/ Evaluate \/ GrowStale \/ Restart
  PROVE  TypeOK'
<1>1. CASE Connected
  <2>1. PICK closed \in SUBSET {i \in Instruments : broker[i] = 0} :
          session' = [pc |-> "snapshot", connected |-> TRUE, stale |-> FALSE,
                      reported |-> {i \in Instruments : broker[i] # 0} \cup closed,
                      seen |-> broker]
    BY <1>1 DEF Connected
  <2>2. session' \in SessionStates
    BY <2>1 DEF SessionStates, TypeOK
  <2> QED
    BY <1>1, <2>2 DEF Connected, TypeOK, flattening, ledger, market
<1>2. CASE ConnectFailed
  <2>1. session' \in SessionStates
    BY <1>2 DEF ConnectFailed, SessionStates
  <2> QED
    BY <1>2, <2>1 DEF ConnectFailed, TypeOK, flattening, ledger, market
<1>3. CASE Evaluate
  <2>1. session' \in SessionStates
    BY <1>3 DEF Evaluate, SessionStates
  <2> QED
    BY <1>3, <2>1 DEF Evaluate, TypeOK, flattening, ledger, market
<1>4. CASE GrowStale
  <2>1. session \in [pc : {"snapshot"}, connected : BOOLEAN, stale : BOOLEAN,
                     reported : SUBSET Instruments, seen : [Instruments -> Int]]
    BY <1>4 DEF GrowStale, TypeOK, SessionStates, Idle
  <2>2. session' \in SessionStates
    BY <1>4, <2>1 DEF GrowStale, SessionStates
  <2> QED
    BY <1>4, <2>2 DEF GrowStale, TypeOK, flattening, ledger, market
<1>5. CASE Restart
  <2>1. session' \in SessionStates
    BY <1>5 DEF Restart, SessionStates
  <2> QED
    BY <1>5, <2>1 DEF Restart, TypeOK, flattening, ledger, market
<1> QED
  BY <1>1, <1>2, <1>3, <1>4, <1>5

LEMMA TradeType ==
  ASSUME TypeOK, NEW i \in Instruments, NEW quantity \in Quantities, Trade(i, quantity)
  PROVE  TypeOK'
<1>1. [instrument |-> i, left |-> quantity, owner |-> "trader"] \in Order
  BY DEF Order, Quantities
<1>2. orders' \in Seq(Order)
  BY <1>1, Arrival DEF Trade, TypeOK
<1> QED
  BY <1>2 DEF Trade, TypeOK, ledger

LEMMA NotedType ==
  ASSUME TypeOK, NEW i \in Instruments PROVE Noted(i) \subseteq Instruments
  BY DEF Noted, TypeOK

LEMMA BookType ==
  ASSUME TypeOK, NEW i \in Instruments, BookBought(i) \/ BookSold(i) PROVE TypeOK'
<1>1. moved' \subseteq Instruments
  BY NotedType DEF BookBought, BookSold
<1>2. CASE BookBought(i)
  <2>1. bought' \in [Instruments -> Nat] /\ books' \in [Instruments -> Int]
    BY <1>2 DEF BookBought, TypeOK
  <2> QED
    BY <1>1, <1>2, <2>1 DEF BookBought, TypeOK, flattening
<1>3. CASE BookSold(i)
  <2>1. sold' \in [Instruments -> Nat] /\ books' \in [Instruments -> Int]
    BY <1>3 DEF BookSold, TypeOK
  <2> QED
    BY <1>1, <1>3, <2>1 DEF BookSold, TypeOK, flattening
<1> QED
  BY <1>2, <1>3

LEMMA FlattenOrderType ==
  ASSUME TypeOK, NEW i \in Instruments PROVE FlattenOrder(i) \in Order
  BY DEF FlattenOrder, Order, TypeOK

LEMMA ReadType == ASSUME TypeOK, ReadPositions PROVE TypeOK'
<1>1. flatten' \in FlattenStates
  BY DEF ReadPositions, FlattenStates
<1>2. undisturbed' \in BOOLEAN
  BY Zenon DEF ReadPositions
<1> QED
  BY <1>1, <1>2 DEF ReadPositions, TypeOK, pipeline, ledger, market

LEMMA SubmittingType ==
  ASSUME TypeOK, flatten.pc = "submitting"
  PROVE  flatten \in [pc : {"submitting"}, todo : SUBSET Instruments,
                      failed : SUBSET Instruments, sent : SUBSET Instruments]
  BY DEF TypeOK, FlattenStates, Idle

LEMMA AnswerType ==
  ASSUME TypeOK, NEW i \in Instruments, FlattenAnswered(i) \/ FlattenBreaksOff(i)
  PROVE  TypeOK'
<1>1. FlattenOrder(i) \in Order
  BY FlattenOrderType
<1>2. flatten \in [pc : {"submitting"}, todo : SUBSET Instruments,
                   failed : SUBSET Instruments, sent : SUBSET Instruments]
  BY SubmittingType DEF FlattenAnswered, FlattenAccepted, FlattenRefused,
     FlattenReplyLost, FlattenBreaksOff
<1>3. ASSUME orders' = Append(orders, FlattenOrder(i)) PROVE orders' \in Seq(Order)
  BY <1>1, <1>3, Arrival DEF TypeOK
<1>4. orders \in Seq(Order)
  BY DEF TypeOK
<1>5. CASE FlattenAccepted(i)
  <2>1. flatten' \in FlattenStates
    BY <1>2, <1>5 DEF FlattenAccepted, FlattenStates
  <2> QED
    BY <1>3, <1>5, <2>1 DEF FlattenAccepted, TypeOK, pipeline, ledger
<1>6. CASE FlattenRefused(i)
  <2>1. flatten' \in FlattenStates
    BY <1>2, <1>6 DEF FlattenRefused, FlattenStates
  <2> QED
    BY <1>6, <2>1 DEF FlattenRefused, TypeOK, pipeline, ledger, market
<1>7. CASE FlattenReplyLost(i)
  <2>1. flatten' \in FlattenStates
    BY <1>2, <1>7 DEF FlattenReplyLost, FlattenStates
  <2> QED
    BY <1>3, <1>7, <2>1 DEF FlattenReplyLost, TypeOK, pipeline, ledger
<1>8. CASE FlattenBreaksOff(i)
  <2>1. flatten' \in FlattenStates
    BY <1>8 DEF FlattenBreaksOff, FlattenStates
  <2>2. orders' \in Seq(Order)
    BY <1>3, <1>4, <1>8 DEF FlattenBreaksOff
  <2> QED
    BY <1>8, <2>1, <2>2 DEF FlattenBreaksOff, TypeOK, pipeline, ledger
<1> QED
  BY <1>5, <1>6, <1>7, <1>8 DEF FlattenAnswered

LEMMA CompleteType == ASSUME TypeOK, FlattenCompletes PROVE TypeOK'
<1>1. flatten \in [pc : {"submitting"}, todo : SUBSET Instruments,
                   failed : SUBSET Instruments, sent : SUBSET Instruments]
  BY SubmittingType DEF FlattenCompletes
<1>2. flatten' \in FlattenStates
  BY <1>1 DEF FlattenCompletes, FlattenStates
<1> QED
  BY <1>2 DEF FlattenCompletes, TypeOK, pipeline, ledger, market

LEMMA FillType ==
  ASSUME TypeOK, NEW k \in DOMAIN orders, TradeFills(k) \/ FlattenFills(k)
  PROVE  TypeOK'
<1>1. Filled(k)
  BY DEF TradeFills, FlattenFills
<1>2. orders' \in Seq(Order)
  BY <1>1, FillStep, Change DEF TypeOK
<1> DEFINE i == orders[k].instrument
<1> DEFINE d == Direction(k)
<1>0. i \in Instruments /\ d \in {-1, 1}
  BY <1>1, FillStep
<1>3. broker' \in [Instruments -> Int]
  <2>1. broker' = [broker EXCEPT ![i] = @ + d]
    BY <1>1, FillStep
  <2> HIDE DEF i, d
  <2> QED
    BY <1>0, <2>1 DEF TypeOK
<1>4. moved' \subseteq Instruments
  BY <1>1, FillStep, NotedType DEF Filled
<1>5. bought' \in [Instruments -> Nat] /\ sold' \in [Instruments -> Nat]
  <2>1. bought' = bought \/ bought' = [bought EXCEPT ![i] = @ + 1]
    BY DEF TradeFills, FlattenFills
  <2>2. sold' = sold \/ sold' = [sold EXCEPT ![i] = @ + 1]
    BY DEF TradeFills, FlattenFills
  <2> HIDE DEF i
  <2>3. bought' \in [Instruments -> Nat]
    <3>1. [bought EXCEPT ![i] = @ + 1] \in [Instruments -> Nat]
      BY <1>0 DEF TypeOK
    <3> QED
      BY <2>1, <3>1 DEF TypeOK
  <2>4. sold' \in [Instruments -> Nat]
    <3>1. [sold EXCEPT ![i] = @ + 1] \in [Instruments -> Nat]
      BY <1>0 DEF TypeOK
    <3> QED
      BY <2>2, <3>1 DEF TypeOK
  <2> QED
    BY <2>3, <2>4
<1>6. unseen' \in [Instruments -> Int]
  <2>1. unseen' \in {unseen, [unseen EXCEPT ![i] = @ + d]}
    BY DEF TradeFills, FlattenFills
  <2> HIDE DEF i, d
  <2> QED
    BY <1>0, <2>1 DEF TypeOK
<1> QED
  BY <1>1, <1>2, <1>3, <1>4, <1>5, <1>6 DEF Filled, TypeOK, flattening, ledger

LEMMA EndType ==
  ASSUME TypeOK, NEW k \in DOMAIN orders, OrderEnds(k) PROVE TypeOK'
<1>1. orders[k].instrument \in Instruments
  <2>1. orders[k] \in Order
    BY DEF TypeOK
  <2> QED
    BY <2>1 DEF Order
<1>2. orders' \in Seq(Order)
  <2>1. orders' = [orders EXCEPT ![k].left = 0] /\ 0 \in Int
    BY DEF OrderEnds
  <2>2. orders \in Seq(Order)
    BY DEF TypeOK
  <2> QED
    BY <2>1, <2>2, Change
<1>3. ended' \subseteq Instruments
  BY <1>1 DEF OrderEnds, TypeOK
<1> QED
  BY <1>2, <1>3 DEF OrderEnds, TypeOK, pipeline, ledger

LEMMA TypeStep == TypeOK /\ [Next]_vars => TypeOK'
<1> SUFFICES ASSUME TypeOK, [Next]_vars PROVE TypeOK'
  OBVIOUS
<1>1. CASE Trading
  BY <1>1, SessionType, TradeType, BookType DEF Trading
<1>2. CASE Flattening
  BY <1>2, ReadType, CompleteType, AnswerType DEF Flattening
<1>3. CASE Market
  BY <1>3, FillType, EndType DEF Market
<1>4. CASE UNCHANGED vars
  BY <1>4 DEF vars, TypeOK, pipeline, flattening, ledger, market
<1> QED
  BY <1>1, <1>2, <1>3, <1>4 DEF Next

\* Every variable keeps its type, for every set of instruments and every start.
THEOREM TypeCorrect == Spec => []TypeOK
  BY TypeInit, TypeStep, PTL DEF Spec

-----------------------------------------------------------------------------
(* The flatten command stays on its course.                                *)

\* What is at the broker while nobody else's orders work: at most one order for
\* each instrument, against exactly the position that is left, and none for a
\* position that the command has still to close.
Course ==
  undisturbed =>
    /\ \A k \in LiveOrders : orders[k].left = -broker[orders[k].instrument]
    /\ \A k, l \in LiveOrders : orders[k].instrument = orders[l].instrument => k = l
    /\ flatten.pc = "submitting" =>
         \A i \in flatten.todo :
            /\ broker[i] = start[i]
            /\ \A k \in LiveOrders : orders[k].instrument # i

CourseInv == TypeOK /\ FlattenStaysOnCourse /\ Course

LEMMA CourseInit == Init => CourseInv
  BY TypeInit DEF Init, CourseInv, FlattenStaysOnCourse, Course

\* Steps that leave the broker and its orders alone and begin no command.
LEMMA CourseUndisturbed ==
  ASSUME CourseInv, UNCHANGED <<broker, orders, start, undisturbed>>,
         flatten'.pc = "submitting" =>
            flatten.pc = "submitting" /\ flatten'.todo \subseteq flatten.todo
  PROVE  FlattenStaysOnCourse' /\ Course'
<1>1. LiveOrders' = LiveOrders
  BY DEF LiveOrders, Live
<1>2. FlattenStaysOnCourse'
  BY DEF CourseInv, FlattenStaysOnCourse, Within
<1>3. Course'
  BY <1>1 DEF CourseInv, Course
<1> QED
  BY <1>2, <1>3

LEMMA CourseRead ==
  ASSUME CourseInv, ReadPositions PROVE FlattenStaysOnCourse' /\ Course'
<1>1. broker' = broker /\ orders' = orders /\ start' = broker
  BY DEF ReadPositions, market
<1>2. undisturbed' => LiveOrders' = {}
  BY <1>1, Zenon DEF ReadPositions, LiveOrders, Live
<1>3. FlattenStaysOnCourse'
  <2>1. \A i \in Instruments : Within(broker[i], broker[i])
    BY DEF CourseInv, TypeOK, Within
  <2> QED
    BY <1>1, <2>1 DEF FlattenStaysOnCourse, Within
<1>4. Course'
  <2> SUFFICES ASSUME undisturbed' PROVE Course'
    BY DEF Course
  <2>1. LiveOrders' = {}
    BY <1>2
  <2>2. \A i \in flatten'.todo : broker'[i] = start'[i]
    BY <1>1
  <2> QED
    BY <2>1, <2>2 DEF Course
<1> QED
  BY <1>3, <1>4

\* The order for the next position, when it reaches the broker.
LEMMA CourseSend ==
  ASSUME CourseInv, NEW i \in Instruments,
         flatten.pc = "submitting", i \in flatten.todo,
         orders' = Append(orders, FlattenOrder(i)),
         UNCHANGED <<broker, start, undisturbed>>,
         flatten'.pc = "submitting" => flatten'.todo = flatten.todo \ {i}
  PROVE  FlattenStaysOnCourse' /\ Course'
<1> DEFINE new == Len(orders) + 1
<1>1. TypeOK
  BY DEF CourseInv
<1>2. FlattenOrder(i) \in Order
  BY <1>1, FlattenOrderType
<1>3. /\ DOMAIN orders' = DOMAIN orders \cup {new}
      /\ new \notin DOMAIN orders
      /\ orders'[new] = FlattenOrder(i)
      /\ \A k \in DOMAIN orders : orders'[k] = orders[k]
  BY <1>1, <1>2, Arrival DEF TypeOK
<1>4. orders'[new].instrument = i /\ orders'[new].left = -start[i]
  BY <1>3 DEF FlattenOrder
<1> HIDE DEF new
<1>5. LiveOrders \subseteq LiveOrders' /\ LiveOrders' \subseteq LiveOrders \cup {new}
  BY <1>3 DEF LiveOrders, Live
<1>6. FlattenStaysOnCourse'
  BY DEF CourseInv, FlattenStaysOnCourse, Within
<1>7. Course'
  <2> SUFFICES ASSUME undisturbed' PROVE Course'
    BY DEF Course
  <2>1. undisturbed /\ Course
    BY DEF CourseInv
  <2>2. broker[i] = start[i] /\ \A k \in LiveOrders : orders[k].instrument # i
    BY <2>1 DEF Course
  <2>3. \A k \in LiveOrders : k \in DOMAIN orders /\ orders'[k] = orders[k]
    BY <1>3 DEF LiveOrders
  <2>4. \A k \in LiveOrders' : orders'[k].left = -broker'[orders'[k].instrument]
    BY <1>4, <1>5, <2>1, <2>2, <2>3 DEF Course
  <2>5. ASSUME NEW k \in LiveOrders', NEW l \in LiveOrders',
               orders'[k].instrument = orders'[l].instrument
        PROVE  k = l
    <3>1. \A m \in LiveOrders : orders'[m].instrument # i
      BY <2>2, <2>3
    <3>2. CASE k = new \/ l = new
      BY <1>4, <1>5, <2>5, <3>1, <3>2
    <3>3. CASE k # new /\ l # new
      <4>1. k \in LiveOrders /\ l \in LiveOrders
        BY <1>5, <3>3
      <4>2. orders[k].instrument = orders[l].instrument
        BY <2>3, <2>5, <4>1
      <4> QED
        BY <2>1, <4>1, <4>2 DEF Course
    <3> QED
      BY <3>2, <3>3
  <2>6. ASSUME flatten'.pc = "submitting", NEW j \in flatten'.todo
        PROVE  broker'[j] = start'[j] /\ \A k \in LiveOrders' : orders'[k].instrument # j
    <3>1. j \in flatten.todo /\ j # i
      BY <2>6
    <3>2. broker[j] = start[j] /\ \A k \in LiveOrders : orders[k].instrument # j
      BY <2>1, <3>1 DEF Course
    <3> QED
      BY <1>4, <1>5, <2>3, <3>1, <3>2
  <2> QED
    BY <2>4, <2>5, <2>6 DEF Course
<1> QED
  BY <1>6, <1>7

\* A fill takes the position and the order against it one contract nearer to
\* zero.
LEMMA CourseFill ==
  ASSUME CourseInv, NEW k \in DOMAIN orders, Filled(k)
  PROVE  FlattenStaysOnCourse' /\ Course'
<1> DEFINE i == orders[k].instrument
<1> DEFINE d == Direction(k)
<1> DEFINE n == orders[k].left
<1>1. TypeOK
  BY DEF CourseInv
<1>2. /\ i \in Instruments /\ n \in Int \ {0} /\ d \in {-1, 1} /\ (d = 1 <=> n > 0)
      /\ orders' = [orders EXCEPT ![k].left = n - d] /\ n - d \in Int
      /\ broker' = [broker EXCEPT ![i] = @ + d]
  BY <1>1, FillStep
<1>3. /\ DOMAIN orders' = DOMAIN orders
      /\ orders'[k].left = n - d /\ orders'[k].instrument = i
      /\ \A l \in DOMAIN orders : l # k => orders'[l] = orders[l]
  BY <1>1, <1>2, Change DEF TypeOK
<1>4. k \in LiveOrders
  BY DEF Filled
<1>5. UNCHANGED <<start, undisturbed, flatten>>
  BY DEF Filled, flattening
<1>i. orders[k].instrument = i
  OBVIOUS
<1>n. orders[k].left = n
  OBVIOUS
<1> HIDE DEF i, d, n
<1>6. broker \in [Instruments -> Int] /\ start \in [Instruments -> Int]
  BY <1>1 DEF TypeOK
<1>7. broker'[i] = broker[i] + d /\ \A j \in Instruments : j # i => broker'[j] = broker[j]
  BY <1>2, <1>6
<1>8. LiveOrders' \subseteq LiveOrders
  BY <1>3, <1>4 DEF LiveOrders, Live
<1> SUFFICES ASSUME undisturbed' PROVE FlattenStaysOnCourse' /\ Course'
  BY DEF FlattenStaysOnCourse, Course
<1>9. /\ \A l \in LiveOrders : orders[l].left = -broker[orders[l].instrument]
      /\ \A l \in LiveOrders : orders[l].instrument = i => l = k
      /\ \A l, m \in LiveOrders : orders[l].instrument = orders[m].instrument => l = m
      /\ \A j \in Instruments : Within(broker[j], start[j])
  BY <1>4, <1>5, <1>i DEF CourseInv, Course, FlattenStaysOnCourse
<1>10. n = -broker[i]
  BY <1>4, <1>9, <1>i, <1>n
<1>11. FlattenStaysOnCourse'
  <2>1. Within(broker'[i], start[i])
    BY <1>2, <1>6, <1>7, <1>9, <1>10 DEF Within
  <2>2. \A j \in Instruments : Within(broker'[j], start[j])
    BY <1>7, <1>9, <2>1
  <2> QED
    BY <1>5, <2>2 DEF FlattenStaysOnCourse, Within
<1>12. Course'
  <2>0. \A l \in LiveOrders : l \in DOMAIN orders /\ (l # k => orders'[l] = orders[l])
    BY <1>3 DEF LiveOrders
  <2>1. ASSUME NEW l \in LiveOrders'
        PROVE  orders'[l].left = -broker'[orders'[l].instrument]
    <3>1. CASE l = k
      BY <1>2, <1>3, <1>6, <1>7, <1>10, <3>1
    <3>2. CASE l # k
      <4>1. l \in LiveOrders /\ orders'[l] = orders[l] /\ orders[l].instrument # i
        BY <1>8, <1>9, <2>0, <3>2
      <4>2. orders[l].instrument \in Instruments
        <5>1. orders[l] \in Order
          BY <1>1, <2>0, <4>1 DEF TypeOK
        <5> QED
          BY <5>1 DEF Order
      <4> QED
        BY <1>7, <1>9, <4>1, <4>2
    <3> QED
      BY <3>1, <3>2
  <2>2. \A l \in LiveOrders' : l \in LiveOrders /\ orders'[l].instrument = orders[l].instrument
    BY <1>3, <1>8, <1>i, <2>0
  <2>3. \A l, m \in LiveOrders' : orders'[l].instrument = orders'[m].instrument => l = m
    BY <1>9, <2>2
  <2>4. ASSUME flatten'.pc = "submitting", NEW j \in flatten'.todo
        PROVE  broker'[j] = start'[j] /\ \A l \in LiveOrders' : orders'[l].instrument # j
    <3>1. /\ flatten.pc = "submitting" /\ j \in flatten.todo
      BY <1>5, <2>4
    <3>2. broker[j] = start[j] /\ \A l \in LiveOrders : orders[l].instrument # j
      BY <1>5, <3>1 DEF CourseInv, Course
    <3>3. j \in Instruments /\ j # i
      BY <1>1, <1>4, <1>i, <3>1, <3>2, SubmittingType
    <3> QED
      BY <1>5, <1>7, <2>2, <3>2, <3>3
  <2> QED
    BY <2>1, <2>3, <2>4 DEF Course
<1> QED
  BY <1>11, <1>12

LEMMA CourseEnd ==
  ASSUME CourseInv, NEW k \in DOMAIN orders, OrderEnds(k)
  PROVE  FlattenStaysOnCourse' /\ Course'
<1>1. orders \in Seq(Order) /\ orders' = [orders EXCEPT ![k].left = 0] /\ 0 \in Int
  BY DEF CourseInv, TypeOK, OrderEnds
<1>2. /\ DOMAIN orders' = DOMAIN orders /\ orders'[k].left = 0
      /\ \A l \in DOMAIN orders : l # k => orders'[l] = orders[l]
  BY <1>1, Change
<1>3. \A l \in LiveOrders' : l \in LiveOrders /\ orders'[l] = orders[l]
  BY <1>2 DEF LiveOrders, Live
<1>4. UNCHANGED <<broker, start, undisturbed, flatten>>
  BY DEF OrderEnds
<1>5. FlattenStaysOnCourse'
  BY <1>4 DEF CourseInv, FlattenStaysOnCourse, Within
<1>6. Course'
  <2> SUFFICES ASSUME undisturbed' PROVE Course'
    BY DEF Course
  <2>1. undisturbed /\ Course
    BY <1>4 DEF CourseInv
  <2> QED
    BY <1>3, <1>4, <2>1 DEF Course
<1> QED
  BY <1>5, <1>6

LEMMA CourseStep == CourseInv /\ [Next]_vars => CourseInv'
<1> SUFFICES ASSUME CourseInv, [Next]_vars PROVE CourseInv'
  OBVIOUS
<1>0. TypeOK'
  BY TypeStep DEF CourseInv
<1>1. CASE Connected \/ ConnectFailed \/ Evaluate \/ GrowStale \/ Restart
  <2>1. UNCHANGED <<broker, orders, start, undisturbed, flatten>>
    BY <1>1 DEF Connected, ConnectFailed, Evaluate, GrowStale, Restart, market, flattening
  <2> QED
    BY <1>0, <2>1, CourseUndisturbed DEF CourseInv
<1>2. ASSUME NEW i \in Instruments, NEW quantity \in Quantities, Trade(i, quantity)
      PROVE  CourseInv'
  <2>1. undisturbed' = FALSE
    BY <1>2 DEF Trade
  <2> QED
    BY <1>0, <2>1 DEF CourseInv, FlattenStaysOnCourse, Course
<1>3. ASSUME NEW i \in Instruments, BookBought(i) \/ BookSold(i) PROVE CourseInv'
  <2>1. UNCHANGED <<broker, orders, start, undisturbed, flatten>>
    BY <1>3 DEF BookBought, BookSold, flattening
  <2> QED
    BY <1>0, <2>1, CourseUndisturbed DEF CourseInv
<1>4. CASE ReadPositions
  BY <1>0, <1>4, CourseRead DEF CourseInv
<1>5. CASE FlattenCompletes
  <2>1. UNCHANGED <<broker, orders, start, undisturbed>>
    BY <1>5 DEF FlattenCompletes, market
  <2>2. flatten'.pc # "submitting"
    <3>1. flatten \in [pc : {"submitting"}, todo : SUBSET Instruments,
                       failed : SUBSET Instruments, sent : SUBSET Instruments]
      BY <1>5, SubmittingType DEF FlattenCompletes, CourseInv
    <3> QED
      BY <1>5, <3>1 DEF FlattenCompletes
  <2> QED
    BY <1>0, <2>1, <2>2, CourseUndisturbed DEF CourseInv
<1>6. ASSUME NEW i \in Instruments, FlattenAnswered(i) \/ FlattenBreaksOff(i)
      PROVE  CourseInv'
  <2>1. /\ flatten.pc = "submitting" /\ i \in flatten.todo
        /\ UNCHANGED <<broker, start, undisturbed>>
    BY <1>6 DEF FlattenAnswered, FlattenAccepted, FlattenRefused, FlattenReplyLost,
       FlattenBreaksOff, market
  <2>2. flatten \in [pc : {"submitting"}, todo : SUBSET Instruments,
                     failed : SUBSET Instruments, sent : SUBSET Instruments]
    BY <2>1, SubmittingType DEF CourseInv
  <2>3. flatten'.pc = "submitting" => flatten'.todo = flatten.todo \ {i}
    <3>1. CASE FlattenAccepted(i)
      BY <2>2, <3>1 DEF FlattenAccepted
    <3>2. CASE FlattenRefused(i)
      BY <2>2, <3>2 DEF FlattenRefused
    <3>3. CASE FlattenReplyLost(i)
      BY <2>2, <3>3 DEF FlattenReplyLost
    <3>4. CASE FlattenBreaksOff(i)
      BY <3>4 DEF FlattenBreaksOff, Idle
    <3> QED
      BY <1>6, <3>1, <3>2, <3>3, <3>4 DEF FlattenAnswered
  <2>4. orders' = orders \/ orders' = Append(orders, FlattenOrder(i))
    BY <1>6 DEF FlattenAnswered, FlattenAccepted, FlattenRefused, FlattenReplyLost,
       FlattenBreaksOff, market
  <2>5. CASE orders' = orders
    BY <1>0, <2>1, <2>3, <2>5, CourseUndisturbed DEF CourseInv
  <2>6. CASE orders' = Append(orders, FlattenOrder(i))
    BY <1>0, <2>1, <2>3, <2>6, CourseSend DEF CourseInv
  <2> QED
    BY <2>4, <2>5, <2>6
<1>7. ASSUME NEW k \in DOMAIN orders, TradeFills(k) \/ FlattenFills(k) \/ OrderEnds(k)
      PROVE  CourseInv'
  <2>1. Filled(k) \/ OrderEnds(k)
    BY <1>7 DEF TradeFills, FlattenFills
  <2> QED
    BY <1>0, <2>1, CourseFill, CourseEnd DEF CourseInv
<1>8. CASE UNCHANGED vars
  <2>1. UNCHANGED <<broker, orders, start, undisturbed, flatten>>
    BY <1>8 DEF vars, market, flattening
  <2> QED
    BY <1>0, <2>1, CourseUndisturbed DEF CourseInv
<1> QED
  BY <1>1, <1>2, <1>3, <1>4, <1>5, <1>6, <1>7, <1>8 DEF Next, Trading, Flattening, Market

\* While nobody else's orders work, a flatten command never opens, grows or
\* reverses a position, whatever fails in the middle of it.
THEOREM FlattenOnCourse == Spec => []FlattenStaysOnCourse
<1>1. CourseInv => FlattenStaysOnCourse
  BY DEF CourseInv
<1> QED
  BY <1>1, CourseInit, CourseStep, PTL DEF Spec

-----------------------------------------------------------------------------
(* The books and the broker.                                               *)

\* Every contract by which broker and books differ is a fill still to be booked
\* or one that no fill will bring to the books.
Accounted ==
  \A i \in Instruments : broker[i] - books[i] = unseen[i] + bought[i] - sold[i]

\* An instrument without a row has no position in the books.
NoRowNoPosition == \A i \in Instruments \ rows : books[i] = 0

\* A snapshot holds what the broker has of the instruments that did not move.
SnapshotHolds ==
  (session.pc = "snapshot" /\ session.connected) =>
     \A i \in Instruments \ moved :
        /\ session.seen[i] = broker[i]
        /\ i \notin session.reported => broker[i] = 0

AgreementInv ==
  TypeOK /\ Accounted /\ NoRowNoPosition /\ SnapshotHolds /\ ReadyInAgreement

LEMMA AgreementInit == Init => AgreementInv
<1> SUFFICES ASSUME Init PROVE AgreementInv
  OBVIOUS
<1>1. TypeOK
  BY TypeInit
<1>2. Accounted
  <2>1. /\ unseen = [i \in Instruments |-> broker[i] - books[i]]
        /\ bought = [i \in Instruments |-> 0]
        /\ sold = [i \in Instruments |-> 0]
    BY DEF Init
  <2>2. broker \in [Instruments -> Int] /\ books \in [Instruments -> Int]
    BY <1>1 DEF TypeOK
  <2> QED
    BY <2>1, <2>2 DEF Accounted
<1>3. NoRowNoPosition
  BY DEF Init, NoRowNoPosition
<1>4. SnapshotHolds /\ ReadyInAgreement
  BY DEF Init, Idle, SnapshotHolds, ReadyInAgreement
<1> QED
  BY <1>1, <1>2, <1>3, <1>4 DEF AgreementInv

LEMMA SnapshotType ==
  ASSUME TypeOK, session.pc = "snapshot"
  PROVE  session \in [pc : {"snapshot"}, connected : BOOLEAN, stale : BOOLEAN,
                      reported : SUBSET Instruments, seen : [Instruments -> Int]]
  BY DEF TypeOK, SessionStates, Idle

\* Steps that leave session, broker and books alone.
LEMMA AgreementUntouched ==
  ASSUME AgreementInv,
         UNCHANGED <<broker, books, rows, bought, sold, unseen, session, moved>>
  PROVE  Accounted' /\ NoRowNoPosition' /\ SnapshotHolds' /\ ReadyInAgreement'
  BY DEF AgreementInv, Accounted, NoRowNoPosition, SnapshotHolds, ReadyInAgreement

\* The steps of the session.
LEMMA AgreementSession ==
  ASSUME AgreementInv, Connected \/ ConnectFailed \/ Evaluate \/ GrowStale \/ Restart
  PROVE  Accounted' /\ NoRowNoPosition' /\ SnapshotHolds' /\ ReadyInAgreement'
<1>0. UNCHANGED <<broker, books, rows, bought, sold, unseen>>
  BY DEF Connected, ConnectFailed, Evaluate, GrowStale, Restart, ledger, market
<1>1. Accounted' /\ NoRowNoPosition'
  BY <1>0 DEF AgreementInv, Accounted, NoRowNoPosition
<1>2. CASE Connected
  <2>1. PICK closed \in SUBSET {i \in Instruments : broker[i] = 0} :
          session' = [pc |-> "snapshot", connected |-> TRUE, stale |-> FALSE,
                      reported |-> {i \in Instruments : broker[i] # 0} \cup closed,
                      seen |-> broker]
    BY <1>2 DEF Connected
  <2>2. SnapshotHolds' /\ ReadyInAgreement'
    BY <1>0, <2>1 DEF SnapshotHolds, ReadyInAgreement
  <2> QED
    BY <1>1, <2>2
<1>3. CASE ConnectFailed
  <2>1. SnapshotHolds' /\ ReadyInAgreement'
    BY <1>3 DEF ConnectFailed, SnapshotHolds, ReadyInAgreement
  <2> QED
    BY <1>1, <2>1
<1>4. CASE Evaluate
  <2>1. session.pc = "snapshot" /\ moved' = moved
        /\ session' \in {[pc |-> "ready"], Idle}
    BY <1>4 DEF Evaluate
  <2>2. SnapshotHolds'
    BY <2>1 DEF SnapshotHolds, Idle
  <2>3. ReadyInAgreement'
    <3> SUFFICES ASSUME session'.pc = "ready", NEW i \in Instruments, i \notin moved
                 PROVE  broker[i] = books[i]
      BY <1>0, <2>1 DEF ReadyInAgreement
    <3>1. session.connected /\ Mismatches(session.reported, session.seen) = {}
      BY <1>4 DEF Evaluate, Idle
    <3>2. /\ session.seen[i] = broker[i]
          /\ i \notin session.reported => broker[i] = 0
      BY <2>1, <3>1 DEF AgreementInv, SnapshotHolds
    <3>3. CASE i \in session.reported
      BY <3>1, <3>2, <3>3 DEF Mismatches
    <3>4. CASE i \notin session.reported
      BY <3>1, <3>2, <3>4 DEF Mismatches, AgreementInv, NoRowNoPosition
    <3> QED
      BY <3>3, <3>4
  <2> QED
    BY <1>1, <2>2, <2>3
<1>5. CASE GrowStale
  <2>1. session.pc = "snapshot" /\ session' = [session EXCEPT !.stale = TRUE]
        /\ moved' = moved
    BY <1>5 DEF GrowStale
  <2>2. /\ session'.pc = "snapshot" /\ session'.connected = session.connected
        /\ session'.seen = session.seen /\ session'.reported = session.reported
    BY <2>1, SnapshotType DEF AgreementInv
  <2>3. SnapshotHolds'
    BY <1>0, <2>1, <2>2 DEF AgreementInv, SnapshotHolds
  <2>4. ReadyInAgreement'
    BY <2>2 DEF ReadyInAgreement
  <2> QED
    BY <1>1, <2>3, <2>4
<1>6. CASE Restart
  <2>1. SnapshotHolds' /\ ReadyInAgreement'
    BY <1>6 DEF Restart, SnapshotHolds, ReadyInAgreement, Idle
  <2> QED
    BY <1>1, <2>1
<1> QED
  BY <1>2, <1>3, <1>4, <1>5, <1>6

\* A change of one instrument is noted by a session in progress.
LEMMA AgreementMoved ==
  ASSUME AgreementInv, NEW i \in Instruments, moved' = Noted(i),
         session' = session,
         \A j \in Instruments : j # i => /\ broker'[j] = broker[j]
                                         /\ books'[j] = books[j]
  PROVE  SnapshotHolds' /\ ReadyInAgreement'
<1>1. CASE session = Idle
  BY <1>1 DEF Idle, SnapshotHolds, ReadyInAgreement
<1>2. CASE session # Idle
  <2>1. moved' = moved \cup {i}
    BY <1>2 DEF Noted
  <2>2. SnapshotHolds'
    BY <2>1 DEF AgreementInv, SnapshotHolds
  <2>3. ReadyInAgreement'
    BY <2>1 DEF AgreementInv, ReadyInAgreement
  <2> QED
    BY <2>2, <2>3
<1> QED
  BY <1>1, <1>2

LEMMA AgreementBook ==
  ASSUME AgreementInv, NEW i \in Instruments, BookBought(i) \/ BookSold(i)
  PROVE  Accounted' /\ NoRowNoPosition' /\ SnapshotHolds' /\ ReadyInAgreement'
<1>0. TypeOK
  BY DEF AgreementInv
<1>1. /\ rows' = rows \cup {i} /\ moved' = Noted(i)
      /\ UNCHANGED <<session, broker, unseen>>
  BY DEF BookBought, BookSold
<1>2. \A j \in Instruments : j # i => /\ books'[j] = books[j]
                                      /\ bought'[j] = bought[j] /\ sold'[j] = sold[j]
  BY <1>0 DEF BookBought, BookSold, TypeOK
<1>3. \/ books'[i] = books[i] + 1 /\ bought'[i] = bought[i] - 1 /\ sold'[i] = sold[i]
      \/ books'[i] = books[i] - 1 /\ bought'[i] = bought[i] /\ sold'[i] = sold[i] - 1
  BY <1>0 DEF BookBought, BookSold, TypeOK
<1>4. Accounted'
  <2>1. ASSUME NEW j \in Instruments
        PROVE  broker[j] - books'[j] = unseen[j] + bought'[j] - sold'[j]
    <3>1. /\ broker[j] \in Int /\ books[j] \in Int /\ unseen[j] \in Int
          /\ bought[j] \in Nat /\ sold[j] \in Nat
          /\ broker[j] - books[j] = unseen[j] + bought[j] - sold[j]
      BY <1>0 DEF TypeOK, AgreementInv, Accounted
    <3> QED
      BY <1>2, <1>3, <3>1
  <2> QED
    BY <1>1, <2>1 DEF Accounted
<1>5. NoRowNoPosition'
  BY <1>1, <1>2 DEF AgreementInv, NoRowNoPosition
<1> QED
  BY <1>1, <1>2, <1>4, <1>5, AgreementMoved

LEMMA AgreementFill ==
  ASSUME AgreementInv, NEW k \in DOMAIN orders, TradeFills(k) \/ FlattenFills(k)
  PROVE  Accounted' /\ NoRowNoPosition' /\ SnapshotHolds' /\ ReadyInAgreement'
<1> DEFINE i == orders[k].instrument
<1> DEFINE d == Direction(k)
<1>0. TypeOK
  BY DEF AgreementInv
<1>1. Filled(k)
  BY DEF TradeFills, FlattenFills
<1>2. i \in Instruments /\ d \in {-1, 1} /\ broker' = [broker EXCEPT ![i] = @ + d]
  BY <1>0, <1>1, FillStep
<1>3. moved' = Noted(i) /\ UNCHANGED <<session, rows, books>>
  BY <1>1 DEF Filled, ledger
<1>4. \/ /\ d > 0 /\ bought' = [bought EXCEPT ![i] = @ + 1]
         /\ sold' = sold /\ unseen' = unseen
      \/ /\ ~(d > 0) /\ sold' = [sold EXCEPT ![i] = @ + 1]
         /\ bought' = bought /\ unseen' = unseen
      \/ /\ unseen' = [unseen EXCEPT ![i] = @ + d]
         /\ bought' = bought /\ sold' = sold
  BY DEF TradeFills, FlattenFills
<1> HIDE DEF i, d
<1>5. broker'[i] = broker[i] + d /\ \A j \in Instruments : j # i => broker'[j] = broker[j]
  BY <1>0, <1>2 DEF TypeOK
<1>6. Accounted'
  <2>1. ASSUME NEW j \in Instruments
        PROVE  broker'[j] - books[j] = unseen'[j] + bought'[j] - sold'[j]
    <3>1. /\ broker[j] \in Int /\ books[j] \in Int /\ unseen[j] \in Int
          /\ bought[j] \in Nat /\ sold[j] \in Nat
          /\ broker[j] - books[j] = unseen[j] + bought[j] - sold[j]
      BY <1>0 DEF TypeOK, AgreementInv, Accounted
    <3>2. CASE j # i
      <4>1. unseen'[j] = unseen[j] /\ bought'[j] = bought[j] /\ sold'[j] = sold[j]
        BY <1>0, <1>4, <3>2 DEF TypeOK
      <4> QED
        BY <1>5, <3>1, <3>2, <4>1
    <3>3. CASE j = i
      <4>1. \/ d = 1 /\ bought'[i] = bought[i] + 1 /\ sold'[i] = sold[i] /\ unseen'[i] = unseen[i]
            \/ d = -1 /\ sold'[i] = sold[i] + 1 /\ bought'[i] = bought[i] /\ unseen'[i] = unseen[i]
            \/ unseen'[i] = unseen[i] + d /\ bought'[i] = bought[i] /\ sold'[i] = sold[i]
        BY <1>0, <1>2, <1>4 DEF TypeOK
      <4> QED
        BY <1>2, <1>5, <3>1, <3>3, <4>1
    <3> QED
      BY <3>2, <3>3
  <2> QED
    BY <1>3, <2>1 DEF Accounted
<1>7. NoRowNoPosition'
  BY <1>3 DEF AgreementInv, NoRowNoPosition
<1>8. SnapshotHolds' /\ ReadyInAgreement'
  BY <1>2, <1>3, <1>5, AgreementMoved
<1> QED
  BY <1>6, <1>7, <1>8

LEMMA AgreementStep == AgreementInv /\ [Next]_vars => AgreementInv'
<1> SUFFICES ASSUME AgreementInv, [Next]_vars PROVE AgreementInv'
  OBVIOUS
<1>0. TypeOK'
  BY TypeStep DEF AgreementInv
<1>1. CASE Connected \/ ConnectFailed \/ Evaluate \/ GrowStale \/ Restart
  BY <1>0, <1>1, AgreementSession DEF AgreementInv
<1>2. ASSUME NEW i \in Instruments, BookBought(i) \/ BookSold(i) PROVE AgreementInv'
  BY <1>0, <1>2, AgreementBook DEF AgreementInv
<1>3. ASSUME NEW k \in DOMAIN orders, TradeFills(k) \/ FlattenFills(k) PROVE AgreementInv'
  BY <1>0, <1>3, AgreementFill DEF AgreementInv
<1>4. ASSUME UNCHANGED <<broker, books, rows, bought, sold, unseen, session, moved>>
      PROVE  AgreementInv'
  BY <1>0, <1>4, AgreementUntouched DEF AgreementInv
<1>5. ASSUME NEW i \in Instruments, NEW quantity \in Quantities, Trade(i, quantity)
      PROVE  AgreementInv'
  BY <1>4, <1>5 DEF Trade, ledger
<1>6. CASE ReadPositions \/ FlattenCompletes
  BY <1>4, <1>6 DEF ReadPositions, FlattenCompletes, pipeline, ledger, market
<1>7. ASSUME NEW i \in Instruments, FlattenAnswered(i) \/ FlattenBreaksOff(i)
      PROVE  AgreementInv'
  BY <1>4, <1>7 DEF FlattenAnswered, FlattenAccepted, FlattenRefused,
     FlattenReplyLost, FlattenBreaksOff, pipeline, ledger, market
<1>8. ASSUME NEW k \in DOMAIN orders, OrderEnds(k) PROVE AgreementInv'
  BY <1>4, <1>8 DEF OrderEnds, pipeline, ledger
<1>9. CASE UNCHANGED vars
  BY <1>4, <1>9 DEF vars, pipeline, ledger, market
<1> QED
  BY <1>1, <1>2, <1>3, <1>5, <1>6, <1>7, <1>8, <1>9
  DEF Next, Trading, Flattening, Market

\* Trading that was found ready found the books and the broker in agreement on
\* every instrument that has not been filled or booked since the snapshot.
THEOREM ReadyAgrees == Spec => []ReadyInAgreement
<1>1. AgreementInv => ReadyInAgreement
  BY DEF AgreementInv
<1> QED
  BY <1>1, AgreementInit, AgreementStep, PTL DEF Spec

\* Once a flatten order has filled, trading is not found ready on a later
\* snapshot of that instrument, unless fills still to be booked hide it.
THEOREM FlattenBlocks == Spec => []FlattenBlocksTrading
<1>1. AgreementInv => FlattenBlocksTrading
  <2> SUFFICES ASSUME AgreementInv, session.pc = "ready",
                      NEW i \in Instruments, i \notin moved
               PROVE  unseen[i] = sold[i] - bought[i]
    BY DEF FlattenBlocksTrading
  <2>1. broker[i] = books[i]
    BY DEF AgreementInv, ReadyInAgreement
  <2>2. broker[i] - books[i] = unseen[i] + bought[i] - sold[i]
    BY DEF AgreementInv, Accounted
  <2>3. /\ broker[i] \in Int /\ books[i] \in Int /\ unseen[i] \in Int
        /\ bought[i] \in Nat /\ sold[i] \in Nat
    BY DEF AgreementInv, TypeOK
  <2> QED
    BY <2>1, <2>2, <2>3
<1> QED
  BY <1>1, AgreementInit, AgreementStep, PTL DEF Spec

=============================================================================
