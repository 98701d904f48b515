--------------------------- MODULE EdgeBridgeProofs ---------------------------
(***************************************************************************)
(* Proofs about EdgeBridge, for any number of executors and executions,    *)
(* any proposals and replies, and client order IDs that may collide.       *)
(***************************************************************************)
EXTENDS EdgeBridge, TLAPS

-----------------------------------------------------------------------------
(* The steps of one executor.                                              *)

InProgress(x) == x.pc \in {"submitting", "recording", "entered", "rejected"}

LEMMA InProgressType ==
  ASSUME NEW x \in Executions, InProgress(x)
  PROVE  x \in [pc : {"submitting", "recording", "entered", "rejected"}, n : Nat,
                proposal : Proposals, at : Nat, seen : SUBSET (Ids \cup Nat),
                during : SUBSET Nat, reply : Replies]
  BY DEF Executions, InProgress, Idle

LEMMA AuthorizingType ==
  ASSUME NEW x \in Executions, x.pc = "authorizing"
  PROVE  x \in [pc : {"authorizing"}, n : Nat, proposal : Proposals, at : Nat,
                seen : SUBSET (Ids \cup Nat), during : SUBSET Nat]
  BY DEF Executions, Idle

\* The executions keep their numbers, proposals and replies as they go on.
LEMMA ContinueType ==
  ASSUME NEW x \in Executions, InProgress(x),
         NEW pc \in {"submitting", "recording", "entered", "rejected"}
  PROVE  /\ [x EXCEPT !.pc = pc] \in Executions
         /\ [x EXCEPT !.pc = pc].pc = pc
         /\ [x EXCEPT !.pc = pc].n = x.n
         /\ [x EXCEPT !.pc = pc].proposal = x.proposal
         /\ [x EXCEPT !.pc = pc].at = x.at
         /\ [x EXCEPT !.pc = pc].seen = x.seen
         /\ [x EXCEPT !.pc = pc].during = x.during
         /\ [x EXCEPT !.pc = pc].reply = x.reply
         /\ [x EXCEPT !.pc = pc] # Idle
<1>1. x \in [pc : {"submitting", "recording", "entered", "rejected"}, n : Nat,
             proposal : Proposals, at : Nat, seen : SUBSET (Ids \cup Nat),
             during : SUBSET Nat, reply : Replies]
  BY InProgressType
<1>2. [x EXCEPT !.pc = pc] \in
        [pc : {"submitting", "recording", "entered", "rejected"}, n : Nat,
         proposal : Proposals, at : Nat, seen : SUBSET (Ids \cup Nat),
         during : SUBSET Nat, reply : Replies]
  BY <1>1
<1>3. [x EXCEPT !.pc = pc].pc = pc
  BY <1>1
<1>4. [x EXCEPT !.pc = pc] # Idle
  BY <1>3 DEF Idle
<1> QED
  BY <1>1, <1>2, <1>3, <1>4 DEF Executions

\* The order an executor places.
NewOrder(e) ==
  [n |-> executor[e].n, proposal |-> executor[e].proposal, at |-> executor[e].at,
   during |-> executor[e].during, reply |-> executor[e].reply]

LEMMA PlaceFacts ==
  ASSUME TypeOK, NEW e \in Executors, Place(e)
  PROVE  /\ executor[e] \in Executions /\ InProgress(executor[e])
         /\ orders' = orders \cup {NewOrder(e)}
         /\ NewOrder(e) \in Orders
         /\ executor[e].pc = "submitting" /\ executor[e] # Idle
         /\ IdOfExecution(executor[e]) \notin executor[e].seen
<1>1. executor[e] \in Executions /\ InProgress(executor[e])
  BY DEF TypeOK, Place, InProgress
<1>2. executor[e] \in [pc : {"submitting", "recording", "entered", "rejected"}, n : Nat,
                       proposal : Proposals, at : Nat, seen : SUBSET (Ids \cup Nat),
                       during : SUBSET Nat, reply : Replies]
  BY <1>1, InProgressType
<1>4. NewOrder(e) \in Orders
  BY <1>2 DEF NewOrder, Orders
<1>5. executor[e].pc = "submitting" /\ executor[e] # Idle
  BY DEF Place, Idle
<1> QED
  BY <1>1, <1>4, <1>5 DEF Place, NewOrder

-----------------------------------------------------------------------------
(* What a step does, put once for all proofs: the executor ends, begins, is *)
(* answered, or goes on; the orders stay or get the one it places.         *)

Ends(e) == executor' = [executor EXCEPT ![e] = Idle]

LEMMA EndsType ==
  ASSUME TypeOK, NEW e \in Executors, Ends(e), started' = started
  PROVE  /\ executor' \in [Executors -> Executions]
         /\ executor'[e] = Idle
         /\ \A f \in Executors : f # e => executor'[f] = executor[f]
         /\ \A f \in Executors : executor'[f] # Idle => executor'[f].n \in 1 .. started'
         /\ \A f, g \in Executors :
              (executor'[f] # Idle /\ executor'[g] # Idle
                /\ executor'[f].n = executor'[g].n) => f = g
<1>1. /\ executor' \in [Executors -> Executions]
      /\ executor'[e] = Idle
      /\ \A f \in Executors : f # e => executor'[f] = executor[f]
  BY DEF TypeOK, Ends, Executions
<1> QED
  BY <1>1 DEF TypeOK

LEMMA ContinuesType ==
  ASSUME TypeOK, NEW e \in Executors, InProgress(executor[e]), started' = started,
         NEW pc \in {"submitting", "recording", "entered", "rejected"}, Continue(e, pc)
  PROVE  /\ executor' \in [Executors -> Executions]
         /\ executor'[e] # Idle /\ executor'[e].pc = pc /\ executor'[e].n = executor[e].n
         /\ executor'[e].proposal = executor[e].proposal
         /\ executor'[e].at = executor[e].at
         /\ executor'[e].seen = executor[e].seen
         /\ executor'[e].during = executor[e].during
         /\ executor'[e].reply = executor[e].reply
         /\ \A f \in Executors : f # e => executor'[f] = executor[f]
         /\ \A f \in Executors : executor'[f] # Idle => executor'[f].n \in 1 .. started'
         /\ \A f, g \in Executors :
              (executor'[f] # Idle /\ executor'[g] # Idle
                /\ executor'[f].n = executor'[g].n) => f = g
<1>0. executor[e] \in Executions
  BY DEF TypeOK
<1>1. executor' = [executor EXCEPT ![e] = [executor[e] EXCEPT !.pc = pc]]
  BY DEF Continue
<1>2. executor'[e] = [executor[e] EXCEPT !.pc = pc]
  BY <1>1 DEF TypeOK
<1>3. /\ executor' \in [Executors -> Executions]
      /\ \A f \in Executors : f # e => executor'[f] = executor[f]
  BY <1>0, <1>1, ContinueType DEF TypeOK
<1>4. /\ executor'[e] # Idle /\ executor'[e].pc = pc /\ executor'[e].n = executor[e].n
      /\ executor'[e].proposal = executor[e].proposal
      /\ executor'[e].at = executor[e].at
      /\ executor'[e].seen = executor[e].seen
      /\ executor'[e].during = executor[e].during
      /\ executor'[e].reply = executor[e].reply
  <2> DEFINE x == executor[e]
  <2>1. x \in Executions /\ InProgress(x)
    BY <1>0
  <2> HIDE DEF x
  <2>2. /\ [x EXCEPT !.pc = pc] # Idle /\ [x EXCEPT !.pc = pc].pc = pc
        /\ [x EXCEPT !.pc = pc].n = x.n
        /\ [x EXCEPT !.pc = pc].proposal = x.proposal
        /\ [x EXCEPT !.pc = pc].at = x.at
        /\ [x EXCEPT !.pc = pc].seen = x.seen
        /\ [x EXCEPT !.pc = pc].during = x.during
        /\ [x EXCEPT !.pc = pc].reply = x.reply
    BY <2>1, ContinueType
  <2> QED
    BY <1>2, <2>2 DEF x
<1>5. executor[e] # Idle
  BY DEF InProgress, Idle
<1>6. \A f \in Executors : executor'[f] # Idle => executor'[f].n \in 1 .. started'
  BY <1>3, <1>4, <1>5 DEF TypeOK
<1>7. \A f, g \in Executors :
        (executor'[f] # Idle /\ executor'[g] # Idle
           /\ executor'[f].n = executor'[g].n) => f = g
  BY <1>3, <1>4, <1>5 DEF TypeOK
<1> QED
  BY <1>3, <1>4, <1>6, <1>7

LEMMA BeginsType ==
  ASSUME TypeOK, NEW e \in Executors, NEW proposal \in Proposals, Execute(e, proposal)
  PROVE  /\ executor' \in [Executors -> Executions]
         /\ executor'[e].pc = "authorizing" /\ executor'[e].n = started'
         /\ executor'[e] # Idle /\ executor'[e].seen = used
         /\ executor'[e].during = {executor[f].n : f \in {f \in Executors : executor[f] # Idle}}
         /\ started' = started + 1
         /\ \A f \in Executors : f # e => executor'[f] = executor[f]
         /\ \A f \in Executors : executor'[f] # Idle => executor'[f].n \in 1 .. started'
         /\ \A f, g \in Executors :
              (executor'[f] # Idle /\ executor'[g] # Idle
                /\ executor'[f].n = executor'[g].n) => f = g
<1> DEFINE d == {executor[f].n : f \in {f \in Executors : executor[f] # Idle}}
           x == [pc |-> "authorizing", n |-> started + 1, proposal |-> proposal, at |-> clock,
                 seen |-> used, during |-> d]
<1>1. executor' = [executor EXCEPT ![e] = x] /\ started' = started + 1 /\ started \in Nat
  BY DEF Execute, Begin, TypeOK
<1>2. x \in Executions /\ x.pc = "authorizing" /\ x.n = started + 1
      /\ x.seen = used /\ x.during = d
  <2>1. d \subseteq Nat
    BY DEF TypeOK
  <2>2. used \in SUBSET (Ids \cup Nat) /\ started + 1 \in Nat /\ clock \in Nat
    BY DEF TypeOK
  <2> HIDE DEF d
  <2> QED
    BY <2>1, <2>2 DEF Executions
<1>3. x # Idle
  BY <1>2 DEF Idle
<1> HIDE DEF x
<1>4. /\ executor' \in [Executors -> Executions]
      /\ executor'[e] = x
      /\ \A f \in Executors : f # e => executor'[f] = executor[f]
  BY <1>1, <1>2 DEF TypeOK
<1>5. \A f \in Executors : executor[f] # Idle => executor[f].n \in 1 .. started
  BY DEF TypeOK
<1>6. \A f \in Executors : executor'[f] # Idle => executor'[f].n \in 1 .. started'
  BY <1>1, <1>2, <1>4, <1>5
<1>7. ASSUME NEW f \in Executors, NEW g \in Executors,
             executor'[f] # Idle, executor'[g] # Idle, executor'[f].n = executor'[g].n
      PROVE  f = g
  <2>1. CASE f = e /\ g # e
    BY <1>1, <1>2, <1>4, <1>5, <1>7, <2>1
  <2>2. CASE g = e /\ f # e
    BY <1>1, <1>2, <1>4, <1>5, <1>7, <2>2
  <2>3. CASE f # e /\ g # e
    BY <1>4, <1>7, <2>3 DEF TypeOK
  <2> QED
    BY <2>1, <2>2, <2>3
<1> QED
  BY <1>1, <1>2, <1>3, <1>4, <1>6, <1>7

\* An answer either ends the execution or takes it on with the reply.
LEMMA AnswerFacts ==
  ASSUME TypeOK, NEW e \in Executors, NEW reply \in Replies, Answer(e, reply)
  PROVE  \/ Ends(e)
         \/ /\ executor' \in [Executors -> Executions]
            /\ executor'[e] # Idle /\ executor'[e].pc = "submitting"
            /\ executor'[e].n = executor[e].n
            /\ executor'[e].proposal = executor[e].proposal
            /\ executor'[e].at = executor[e].at
            /\ executor'[e].seen = executor[e].seen
            /\ executor'[e].during = executor[e].during
            /\ executor'[e].reply = reply
            /\ Accepts(reply, executor[e].proposal, executor[e].at)
            /\ \A f \in Executors : f # e => executor'[f] = executor[f]
            /\ \A f \in Executors : executor'[f] # Idle => executor'[f].n \in 1 .. started'
            /\ \A f, g \in Executors :
                 (executor'[f] # Idle /\ executor'[g] # Idle
                   /\ executor'[f].n = executor'[g].n) => f = g
<1>0. executor[e] \in [pc : {"authorizing"}, n : Nat, proposal : Proposals, at : Nat,
                       seen : SUBSET (Ids \cup Nat), during : SUBSET Nat]
  BY AuthorizingType DEF Answer, TypeOK
<1> DEFINE x == [pc |-> "submitting", n |-> executor[e].n,
                 proposal |-> executor[e].proposal, at |-> executor[e].at,
                 seen |-> executor[e].seen, during |-> executor[e].during, reply |-> reply]
<1>1. CASE ~Accepts(reply, executor[e].proposal, executor[e].at)
  BY <1>1 DEF Answer, Ends
<1>2. CASE Accepts(reply, executor[e].proposal, executor[e].at)
  <2>1. executor' = [executor EXCEPT ![e] = x]
    BY <1>2 DEF Answer
  <2>2. /\ x \in Executions /\ x.pc = "submitting" /\ x.n = executor[e].n
        /\ x.proposal = executor[e].proposal /\ x.at = executor[e].at
        /\ x.seen = executor[e].seen /\ x.during = executor[e].during /\ x.reply = reply
    BY <1>0 DEF Executions
  <2>3. x # Idle /\ executor[e] # Idle
    BY <1>0, <2>2 DEF Idle
  <2> HIDE DEF x
  <2>4. /\ executor' \in [Executors -> Executions]
        /\ executor'[e] = x
        /\ \A f \in Executors : f # e => executor'[f] = executor[f]
    BY <2>1, <2>2 DEF TypeOK
  <2>5. started' = started
    BY DEF Answer
  <2>6. \A f \in Executors : executor'[f] # Idle => executor'[f].n \in 1 .. started'
    BY <2>2, <2>3, <2>4, <2>5 DEF TypeOK
  <2>7. \A f, g \in Executors :
          (executor'[f] # Idle /\ executor'[g] # Idle
             /\ executor'[f].n = executor'[g].n) => f = g
    BY <2>2, <2>3, <2>4 DEF TypeOK
  <2> QED
    BY <1>2, <2>2, <2>3, <2>4, <2>6, <2>7
<1> QED
  BY <1>1, <1>2

-----------------------------------------------------------------------------
(* The types.                                                              *)

LEMMA FeedbackType ==
  ASSUME TypeOK, NEW e \in Executors, executor[e].pc \in {"entered", "rejected"}
  PROVE  /\ FeedbackOf(executor[e]) \in Feedback /\ executor[e] # Idle
         /\ executor[e].n \in 1 .. started
         /\ executor[e].pc = "entered" => FeedbackOf(executor[e]) = Entry(executor[e].n)
         /\ executor[e].pc = "rejected" => FeedbackOf(executor[e]) = Rejection(executor[e].n)
<1>1. executor[e] # Idle
  BY DEF Idle
<1>2. executor[e].n \in 1 .. started
  BY <1>1 DEF TypeOK
<1>3. executor[e].n \in Nat
  BY <1>2 DEF TypeOK
<1> QED
  BY <1>1, <1>2, <1>3 DEF FeedbackOf, Feedback, Entry, Rejection

LEMMA IdType ==
  ASSUME TypeOK, NEW e \in Executors, InProgress(executor[e])
  PROVE  IdOfExecution(executor[e]) \in Ids \cup Nat
<1>1. /\ executor[e].n \in Nat /\ executor[e].proposal \in Proposals
      /\ executor[e].reply \in Replies
  BY InProgressType DEF TypeOK
<1> QED
  BY <1>1, EdgeAssumption DEF IdOfExecution, ClientOrderId

LEMMA TypeInit == Init => TypeOK
  BY DEF Init, TypeOK, Executions

LEMMA TypeOfStep ==
  ASSUME TypeOK, NEW e \in Executors, Step(e)
  PROVE  TypeOK'
<1>1. ASSUME NEW proposal \in Proposals, Execute(e, proposal) PROVE TypeOK'
  <2>1. /\ UNCHANGED <<clock, used, orders, told, unsent, faulted>>
        /\ started' = started + 1
    BY <1>1 DEF Execute
  <2>2. started' \in Nat
    BY <2>1 DEF TypeOK
  <2> QED
    BY <1>1, <2>1, <2>2, BeginsType DEF TypeOK
<1>2. ASSUME NEW reply \in Replies, Answer(e, reply) PROVE TypeOK'
  <2>1. UNCHANGED <<clock, started, used, orders, told, unsent, faulted>>
    BY <1>2 DEF Answer
  <2>2. CASE Ends(e)
    BY <2>1, <2>2, EndsType DEF TypeOK
  <2>3. CASE ~Ends(e)
    BY <1>2, <2>1, <2>3, AnswerFacts DEF TypeOK
  <2> QED
    BY <2>2, <2>3
<1>3. CASE Unauthorized(e) \/ RecordRefused(e)
  <2>1. Ends(e) /\ UNCHANGED <<clock, started, used, orders, told, unsent, faulted>>
    BY <1>3 DEF Unauthorized, RecordRefused, Ends
  <2> QED
    BY <2>1, EndsType DEF TypeOK
<1>4. CASE Blocked(e)
  <2>1. InProgress(executor[e]) /\ Continue(e, "rejected")
    BY <1>4 DEF Blocked, InProgress
  <2>2. UNCHANGED <<clock, started, used, orders, told, unsent, faulted>>
    BY <1>4 DEF Blocked
  <2> QED
    BY <2>1, <2>2, ContinuesType DEF TypeOK
<1>5. CASE Accepted(e)
  <2>1. InProgress(executor[e]) /\ Continue(e, "recording") /\ Place(e)
    BY <1>5, PlaceFacts DEF Accepted
  <2>2. UNCHANGED <<clock, started, used, told, unsent, faulted>>
    BY <1>5 DEF Accepted
  <2>3. orders' \subseteq Orders
    BY <2>1, PlaceFacts DEF TypeOK
  <2> QED
    BY <2>1, <2>2, <2>3, ContinuesType DEF TypeOK
<1>6. CASE ReplyLost(e)
  <2>1. InProgress(executor[e]) /\ Continue(e, "rejected") /\ Place(e)
    BY <1>6, PlaceFacts DEF ReplyLost
  <2>2. UNCHANGED <<clock, started, used, told, unsent>>
    BY <1>6 DEF ReplyLost
  <2>3. orders' \subseteq Orders
    BY <2>1, PlaceFacts DEF TypeOK
  <2>4. faulted' \subseteq Nat
    <3>1. executor[e].n \in Nat
      BY <2>1, InProgressType DEF TypeOK
    <3> QED
      BY <1>6, <3>1 DEF ReplyLost, TypeOK
  <2> QED
    BY <2>1, <2>2, <2>3, <2>4, ContinuesType DEF TypeOK
<1>7. CASE Record(e)
  <2>1. InProgress(executor[e]) /\ Continue(e, "entered")
    BY <1>7 DEF Record, InProgress
  <2>2. UNCHANGED <<clock, started, orders, told, unsent, faulted>>
    BY <1>7 DEF Record
  <2>3. used' \subseteq Ids \cup Nat
    BY <1>7, <2>1, IdType DEF Record, TypeOK
  <2> QED
    BY <2>1, <2>2, <2>3, ContinuesType DEF TypeOK
<1>8. CASE Tell(e) \/ TellFails(e)
  <2>1. Ends(e) /\ UNCHANGED <<clock, started, used, orders, faulted>>
    BY <1>8 DEF Tell, TellFails, Ends
  <2>2. told' \subseteq Feedback /\ unsent' \subseteq Feedback
    BY <1>8, FeedbackType DEF Tell, TellFails, TypeOK
  <2> QED
    BY <2>1, <2>2, EndsType DEF TypeOK
<1>9. CASE BreaksOff(e)
  <2>1. Ends(e) /\ UNCHANGED <<clock, started, used, told, unsent>>
    BY <1>9 DEF BreaksOff, Ends
  <2>2. orders' \subseteq Orders
    BY <1>9, PlaceFacts DEF BreaksOff, TypeOK
  <2>3. faulted' \subseteq Nat
    <3>1. executor[e].n \in 1 .. started /\ started \in Nat
      BY <1>9 DEF BreaksOff, TypeOK
    <3>2. executor[e].n \in Nat
      BY <3>1
    <3> QED
      BY <1>9, <3>2 DEF BreaksOff, TypeOK
  <2> QED
    BY <2>1, <2>2, <2>3, EndsType DEF TypeOK
<1> QED
  BY <1>1, <1>2, <1>3, <1>4, <1>5, <1>6, <1>7, <1>8, <1>9 DEF Step

LEMMA TypeStep == TypeOK /\ [Next]_vars => TypeOK'
<1> SUFFICES ASSUME TypeOK, [Next]_vars PROVE TypeOK'
  OBVIOUS
<1>1. CASE Tick
  BY <1>1 DEF Tick, TypeOK
<1>2. ASSUME NEW e \in Executors, Step(e) PROVE TypeOK'
  BY <1>2, TypeOfStep
<1>3. ASSUME NEW feedback \in unsent, Resend(feedback) PROVE TypeOK'
  BY <1>3 DEF Resend, TypeOK
<1>4. CASE UNCHANGED vars
  BY <1>4 DEF vars, TypeOK
<1> QED
  BY <1>1, <1>2, <1>3, <1>4 DEF Next

\* Variables keep their types and executions their numbers.
THEOREM TypeCorrect == Spec => []TypeOK
  BY TypeInit, TypeStep, PTL DEF Spec

-----------------------------------------------------------------------------
(* Orders are authorized.                                                  *)

Authorized(x) == Accepts(x.reply, x.proposal, x.at)

AuthorityInv ==
  /\ TypeOK
  /\ \A e \in Executors : executor[e].pc = "submitting" => Authorized(executor[e])
  /\ \A o \in orders : Authorized(o)

LEMMA AuthorityInit == Init => AuthorityInv
  BY TypeInit DEF Init, AuthorityInv, Idle

\* An executor that is not submitting after the step takes no part.
LEMMA AuthorityKept ==
  ASSUME AuthorityInv, TypeOK', NEW e \in Executors,
         executor'[e].pc = "submitting" => Authorized(executor'[e]),
         \A f \in Executors : f # e => executor'[f] = executor[f],
         \A o \in orders' : Authorized(o)
  PROVE  AuthorityInv'
  BY DEF AuthorityInv, Authorized, Accepts, Direction, Side, ExceedsTarget

LEMMA AuthorityPlace ==
  ASSUME AuthorityInv, NEW e \in Executors, Place(e)
  PROVE  \A o \in orders' : Authorized(o)
<1>1. Authorized(NewOrder(e))
  BY DEF AuthorityInv, Place, Authorized, NewOrder
<1> QED
  BY <1>1, PlaceFacts DEF AuthorityInv

LEMMA AuthorityStep == AuthorityInv /\ [Next]_vars => AuthorityInv'
<1> SUFFICES ASSUME AuthorityInv, [Next]_vars PROVE AuthorityInv'
  OBVIOUS
<1>0. TypeOK /\ TypeOK' /\ \A o \in orders : Authorized(o)
  BY TypeStep DEF AuthorityInv
<1>1. CASE UNCHANGED <<executor, orders>>
  BY <1>0, <1>1 DEF AuthorityInv, Authorized, Accepts, Direction, Side, ExceedsTarget
<1>2. ASSUME NEW e \in Executors, Ends(e), \A o \in orders' : Authorized(o)
      PROVE  AuthorityInv'
  <2>1. executor'[e].pc # "submitting" /\ \A f \in Executors : f # e => executor'[f] = executor[f]
    BY <1>0, <1>2 DEF Ends, TypeOK, Idle
  <2> QED
    BY <1>0, <1>2, <2>1, AuthorityKept
<1>3. ASSUME NEW e \in Executors, NEW pc \in {"recording", "entered", "rejected"},
             InProgress(executor[e]), Continue(e, pc), started' = started,
             \A o \in orders' : Authorized(o)
      PROVE  AuthorityInv'
  <2>1. executor'[e].pc # "submitting" /\ \A f \in Executors : f # e => executor'[f] = executor[f]
    BY <1>0, <1>3, ContinuesType
  <2> QED
    BY <1>0, <1>3, <2>1, AuthorityKept
<1>4. ASSUME NEW e \in Executors, NEW proposal \in Proposals, Execute(e, proposal)
      PROVE  AuthorityInv'
  <2>1. orders' = orders
    BY <1>4 DEF Execute
  <2>2. executor'[e].pc # "submitting" /\ \A f \in Executors : f # e => executor'[f] = executor[f]
    BY <1>0, <1>4, BeginsType
  <2> QED
    BY <1>0, <2>1, <2>2, AuthorityKept
<1>5. ASSUME NEW e \in Executors, NEW reply \in Replies, Answer(e, reply)
      PROVE  AuthorityInv'
  <2>1. orders' = orders
    BY <1>5 DEF Answer
  <2>2. CASE Ends(e)
    BY <1>0, <1>2, <2>1, <2>2
  <2>3. CASE ~Ends(e)
    <3>1. /\ Accepts(executor'[e].reply, executor'[e].proposal, executor'[e].at)
          /\ \A f \in Executors : f # e => executor'[f] = executor[f]
      BY <1>0, <1>5, <2>3, AnswerFacts
    <3> QED
      BY <1>0, <2>1, <3>1, AuthorityKept DEF Authorized
  <2> QED
    BY <2>2, <2>3
<1>6. ASSUME NEW e \in Executors, Step(e) PROVE AuthorityInv'
  <2>1. CASE Unauthorized(e) \/ RecordRefused(e) \/ Tell(e) \/ TellFails(e)
    <3>1. Ends(e) /\ orders' = orders
      BY <2>1 DEF Unauthorized, RecordRefused, Tell, TellFails, Ends
    <3> QED
      BY <1>0, <1>2, <3>1
  <2>2. CASE Blocked(e) \/ Record(e)
    <3>1. /\ InProgress(executor[e]) /\ orders' = orders /\ started' = started
          /\ Continue(e, "rejected") \/ Continue(e, "entered")
      BY <2>2 DEF Blocked, Record, InProgress
    <3> QED
      BY <1>0, <1>3, <3>1
  <2>3. CASE Accepted(e) \/ ReplyLost(e)
    <3>1. /\ Place(e) /\ started' = started
          /\ Continue(e, "rejected") \/ Continue(e, "recording")
      BY <2>3 DEF Accepted, ReplyLost
    <3> QED
      BY <1>0, <1>3, <3>1, AuthorityPlace, PlaceFacts
  <2>4. CASE BreaksOff(e)
    <3>1. Ends(e) /\ (Place(e) \/ orders' = orders)
      BY <2>4 DEF BreaksOff, Ends
    <3> QED
      BY <1>0, <1>2, <3>1, AuthorityPlace
  <2> QED
    BY <1>4, <1>5, <1>6, <2>1, <2>2, <2>3, <2>4 DEF Step
<1> QED
  BY <1>1, <1>6 DEF Next, Tick, Resend, vars

\* Every order at the broker is one Edge authorized, for any replies of Edge.
THEOREM OrdersAuthorized == Spec => []OrdersAreAuthorized
<1>1. AuthorityInv => OrdersAreAuthorized
  <2> SUFFICES ASSUME AuthorityInv, NEW o \in orders PROVE
        /\ o.reply.authorized /\ o.reply.bot = "sentinel-iron"
        /\ o.reply.symbol = o.proposal.instrument
        /\ o.reply.state \in EntryEligible
        /\ (Direction(o.reply) = "long") = (Side(o.proposal) = "buy")
        /\ ~ExceedsTarget(o.reply, o.proposal)
        /\ o.reply.expires # None => o.reply.expires > o.at
    BY DEF OrdersAreAuthorized
  <2>1. Accepts(o.reply, o.proposal, o.at)
    BY DEF AuthorityInv, Authorized
  <2>2. Direction(o.reply) = (IF Side(o.proposal) = "buy" THEN "long" ELSE "short")
    BY <2>1 DEF Accepts
  <2>3. (Direction(o.reply) = "long") = (Side(o.proposal) = "buy")
    BY <2>2
  <2> QED
    BY <2>1, <2>3 DEF Accepts
<1> QED
  BY <1>1, AuthorityInit, AuthorityStep, PTL DEF Spec

-----------------------------------------------------------------------------
(* Repeated orders.                                                        *)

Runs(x) == x # Idle

Numbers == \A o \in orders : o.n \in 1 .. started

\* Executions and orders know the executions that were in progress before them.
Overlaps ==
  \A f \in Executors : Runs(executor[f]) =>
     /\ \A e \in Executors : (Runs(executor[e]) /\ executor[f].n < executor[e].n) =>
          executor[f].n \in executor[e].during
     /\ \A p \in orders : executor[f].n < p.n => executor[f].n \in p.during

\* An execution's context holds the IDs of the orders before it, but for those
\* of executions with a fault or in progress when it began.
ContextComplete ==
  \A e \in Executors : Runs(executor[e]) =>
     \A o \in orders : o.n < executor[e].n =>
        \/ o.n \in faulted \/ o.n \in executor[e].during
        \/ IdOfExecution(o) \in executor[e].seen

\* An order whose execution met no fault has its ID recorded, or the executor
\* that placed it is about to record it.
Traced(o) ==
  \/ o.n \in faulted
  \/ IdOfExecution(o) \in used
  \/ \E e \in Executors : /\ executor[e].pc = "recording" /\ executor[e].n = o.n
                          /\ executor[e].proposal = o.proposal
                          /\ executor[e].reply = o.reply

RepeatInv ==
  /\ TypeOK /\ Numbers /\ Overlaps /\ ContextComplete
  /\ \A o \in orders : Traced(o)
  /\ RepeatedOrderNeedsFault

LEMMA RepeatInit == Init => RepeatInv
  BY TypeInit DEF Init, RepeatInv, Numbers, Overlaps, ContextComplete, Runs,
     RepeatedOrderNeedsFault

\* Steps that place nothing and begin nothing.
LEMMA RepeatKept ==
  ASSUME RepeatInv, TypeOK', orders' = orders, started' = started,
         faulted \subseteq faulted', \A o \in orders : Traced(o)',
         \A e \in Executors : Runs(executor'[e]) =>
           /\ Runs(executor[e]) /\ executor'[e].n = executor[e].n
           /\ executor'[e].seen = executor[e].seen
           /\ executor'[e].during = executor[e].during
  PROVE  RepeatInv'
<1>1. Numbers' /\ Overlaps'
  BY DEF RepeatInv, Numbers, Overlaps
<1>2. \A o \in orders : IdOfExecution(o)' = IdOfExecution(o)
  BY DEF IdOfExecution, ClientOrderId
<1>3. ContextComplete'
  BY <1>2 DEF RepeatInv, ContextComplete
<1>4. RepeatedOrderNeedsFault'
  BY <1>2 DEF RepeatInv, RepeatedOrderNeedsFault
<1> QED
  BY <1>1, <1>3, <1>4 DEF RepeatInv

LEMMA RepeatBegun ==
  ASSUME RepeatInv, TypeOK', NEW e \in Executors, NEW proposal \in Proposals,
         Execute(e, proposal), \A o \in orders : Traced(o)'
  PROVE  RepeatInv'
<1>0. /\ TypeOK /\ started \in Nat /\ UNCHANGED <<orders, used, faulted>>
      /\ \A f \in Executors : Runs(executor[f]) => executor[f].n \in 1 .. started
  BY DEF RepeatInv, TypeOK, Execute, Runs
<1>1. /\ executor'[e].n = started + 1 /\ executor'[e].seen = used
      /\ executor'[e].during = {executor[f].n : f \in {f \in Executors : executor[f] # Idle}}
      /\ \A f \in Executors : f # e => executor'[f] = executor[f]
      /\ started' = started + 1
  BY <1>0, BeginsType
<1>2. Numbers'
  BY <1>0, <1>1 DEF RepeatInv, Numbers
<1>3. ASSUME NEW f \in Executors, Runs(executor'[f])
      PROVE  /\ \A g \in Executors : (Runs(executor'[g]) /\ executor'[f].n < executor'[g].n) =>
                  executor'[f].n \in executor'[g].during
             /\ \A p \in orders' : executor'[f].n < p.n => executor'[f].n \in p.during
  <2>1. CASE f = e
    <3>1. \A g \in Executors : Runs(executor'[g]) => ~(executor'[f].n < executor'[g].n)
      BY <1>0, <1>1, <2>1
    <3>2. \A p \in orders' : ~(executor'[f].n < p.n)
      BY <1>0, <1>1, <2>1 DEF RepeatInv, Numbers
    <3> QED
      BY <3>1, <3>2
  <2>2. CASE f # e
    <3>1. executor'[f] = executor[f] /\ Runs(executor[f])
      BY <1>1, <1>3, <2>2
    <3>2. executor'[f].n \in executor'[e].during
      BY <1>1, <3>1 DEF Runs
    <3> QED
      BY <1>0, <1>1, <3>1, <3>2 DEF RepeatInv, Overlaps
  <2> QED
    BY <2>1, <2>2
<1>4. Overlaps'
  BY <1>3 DEF Overlaps
<1>5. \A o \in orders : IdOfExecution(o)' = IdOfExecution(o)
  BY DEF IdOfExecution, ClientOrderId
<1>6. ASSUME NEW o \in orders
      PROVE  \/ o.n \in faulted \/ o.n \in executor'[e].during
             \/ IdOfExecution(o) \in executor'[e].seen
  <2>1. ASSUME NEW f \in Executors, executor[f].pc = "recording", executor[f].n = o.n
        PROVE  o.n \in executor'[e].during
    BY <1>1, <2>1 DEF Idle
  <2> QED
    BY <1>1, <2>1 DEF RepeatInv, Traced
<1>7. ContextComplete'
  BY <1>0, <1>1, <1>5, <1>6 DEF RepeatInv, ContextComplete
<1>8. RepeatedOrderNeedsFault'
  BY <1>0, <1>5 DEF RepeatInv, RepeatedOrderNeedsFault
<1> QED
  BY <1>0, <1>2, <1>4, <1>7, <1>8 DEF RepeatInv

\* The order that is placed: an earlier one of its ID met a fault or was in
\* progress when this execution began.
LEMMA RepeatPlaced ==
  ASSUME RepeatInv, TypeOK', NEW e \in Executors, Place(e), started' = started,
         NEW q, q = NewOrder(e), Traced(q)',
         faulted \subseteq faulted', \A o \in orders : Traced(o)',
         \A f \in Executors : Runs(executor'[f]) =>
           /\ Runs(executor[f]) /\ executor'[f].n = executor[f].n
           /\ executor'[f].seen = executor[f].seen
           /\ executor'[f].during = executor[f].during
  PROVE  RepeatInv'
<1>0. TypeOK
  BY DEF RepeatInv
<1>1. /\ orders' = orders \cup {q} /\ Runs(executor[e])
      /\ IdOfExecution(executor[e]) \notin executor[e].seen
  BY <1>0, PlaceFacts DEF Runs
<1>2. /\ q.n = executor[e].n /\ q.during = executor[e].during
      /\ IdOfExecution(q) = IdOfExecution(executor[e])
  BY DEF NewOrder, IdOfExecution
<1>3. Numbers'
  <2>1. q.n \in 1 .. started
    BY <1>0, <1>1, <1>2 DEF TypeOK, Runs
  <2> QED
    BY <1>1, <2>1 DEF RepeatInv, Numbers
<1>4. ASSUME NEW f \in Executors, Runs(executor[f])
      PROVE  /\ executor[f].n < q.n => executor[f].n \in q.during
             /\ q.n < executor[f].n => q.n \in executor[f].during
  BY <1>1, <1>2, <1>4 DEF RepeatInv, Overlaps
<1>5. Overlaps'
  BY <1>1, <1>4 DEF RepeatInv, Overlaps
<1>6. \A o : IdOfExecution(o)' = IdOfExecution(o)
  BY DEF IdOfExecution, ClientOrderId
<1>7. ContextComplete'
  BY <1>1, <1>4, <1>6 DEF RepeatInv, ContextComplete
<1>8. ASSUME NEW o \in orders', NEW p \in orders', o.n < p.n,
             IdOfExecution(o) = IdOfExecution(p)
      PROVE  o.n \in faulted' \/ o.n \in p.during
  <2>1. CASE o \in orders /\ p \in orders
    BY <1>8, <2>1 DEF RepeatInv, RepeatedOrderNeedsFault
  <2>2. CASE o \in orders /\ p = q
    BY <1>1, <1>2, <1>8, <2>2 DEF RepeatInv, ContextComplete
  <2>3. CASE o = q /\ p \in orders
    BY <1>1, <1>2, <1>8, <2>3 DEF RepeatInv, Overlaps
  <2>4. CASE o = q /\ p = q
    <3>1. q.n \in Nat
      BY <1>0, <1>1, <1>2 DEF TypeOK, Runs
    <3> QED
      BY <1>8, <2>4, <3>1
  <2> QED
    BY <1>1, <2>1, <2>2, <2>3, <2>4
<1>9. RepeatedOrderNeedsFault'
  BY <1>6, <1>8 DEF RepeatedOrderNeedsFault
<1>10. \A o \in orders' : Traced(o)'
  BY <1>1
<1> QED
  BY <1>3, <1>5, <1>7, <1>9, <1>10 DEF RepeatInv

\* An executor that is not recording changes the trace of no order.
LEMMA TracedKept ==
  ASSUME NEW o, Traced(o), NEW e \in Executors, executor[e].pc # "recording",
         \A f \in Executors : f # e => executor'[f] = executor[f],
         faulted \subseteq faulted', used \subseteq used'
  PROVE  Traced(o)'
<1>1. IdOfExecution(o)' = IdOfExecution(o)
  BY DEF IdOfExecution, ClientOrderId
<1>2. ASSUME NEW f \in Executors, executor[f].pc = "recording", executor[f].n = o.n,
             executor[f].proposal = o.proposal, executor[f].reply = o.reply
      PROVE  Traced(o)'
  <2>1. executor'[f] = executor[f]
    BY <1>2
  <2> QED
    BY <1>2, <2>1 DEF Traced
<1> QED
  BY <1>1, <1>2 DEF Traced

\* An executor that is recording may go on when its ID is used or its execution
\* met a fault.
LEMMA TracedReleased ==
  ASSUME NEW o, Traced(o), NEW e \in Executors,
         IdOfExecution(executor[e]) \in used' \/ executor[e].n \in faulted',
         \A f \in Executors : f # e => executor'[f] = executor[f],
         faulted \subseteq faulted', used \subseteq used'
  PROVE  Traced(o)'
<1>1. IdOfExecution(o)' = IdOfExecution(o)
  BY DEF IdOfExecution, ClientOrderId
<1>2. ASSUME NEW f \in Executors, executor[f].pc = "recording", executor[f].n = o.n,
             executor[f].proposal = o.proposal, executor[f].reply = o.reply
      PROVE  Traced(o)'
  <2>1. CASE f = e
    <3>1. IdOfExecution(o) = IdOfExecution(executor[e])
      BY <1>2, <2>1 DEF IdOfExecution
    <3> QED
      BY <1>1, <1>2, <2>1, <3>1 DEF Traced
  <2>2. CASE f # e
    BY <1>2, <2>2 DEF Traced
  <2> QED
    BY <2>1, <2>2
<1> QED
  BY <1>1, <1>2 DEF Traced

LEMMA RepeatOfStep ==
  ASSUME RepeatInv, TypeOK', NEW e \in Executors, Step(e)
  PROVE  RepeatInv'
<1>0. TypeOK /\ \A o \in orders : Traced(o)
  BY DEF RepeatInv
<1>1. ASSUME Ends(e), started' = started, orders' = orders, faulted \subseteq faulted',
             \A o \in orders : Traced(o)'
      PROVE  RepeatInv'
  <2>1. executor'[e] = Idle /\ \A f \in Executors : f # e => executor'[f] = executor[f]
    BY <1>0, <1>1, EndsType
  <2> QED
    BY <1>1, <2>1, RepeatKept DEF Runs
<1>2. ASSUME NEW proposal \in Proposals, Execute(e, proposal) PROVE RepeatInv'
  <2>1. executor[e].pc # "recording" /\ UNCHANGED <<orders, faulted, used>>
    BY <1>2 DEF Execute, Idle
  <2>2. \A o \in orders : Traced(o)'
    BY <1>0, <1>2, <2>1, BeginsType, TracedKept
  <2> QED
    BY <1>2, <2>2, RepeatBegun
<1>3. ASSUME NEW reply \in Replies, Answer(e, reply) PROVE RepeatInv'
  <2>1. /\ executor[e].pc # "recording" /\ executor[e] # Idle
        /\ UNCHANGED <<started, orders, faulted, used>>
    BY <1>3 DEF Answer, Idle
  <2>2. \A f \in Executors : f # e => executor'[f] = executor[f]
    BY <1>0, <1>3, AnswerFacts, EndsType DEF Answer
  <2>3. \A o \in orders : Traced(o)'
    BY <1>0, <2>1, <2>2, TracedKept
  <2>4. CASE Ends(e)
    BY <1>1, <2>1, <2>3, <2>4
  <2>5. CASE ~Ends(e)
    <3>1. /\ executor'[e].n = executor[e].n /\ executor'[e].seen = executor[e].seen
          /\ executor'[e].during = executor[e].during
      BY <1>0, <1>3, <2>5, AnswerFacts
    <3> QED
      BY <2>1, <2>2, <2>3, <3>1, RepeatKept DEF Runs
  <2> QED
    BY <2>4, <2>5
<1>4. CASE Unauthorized(e) \/ Tell(e) \/ TellFails(e)
  <2>1. /\ executor[e].pc # "recording" /\ Ends(e)
        /\ UNCHANGED <<started, orders, faulted, used>>
    BY <1>4 DEF Unauthorized, Tell, TellFails, Ends
  <2>2. \A o \in orders : Traced(o)'
    BY <1>0, <2>1, EndsType, TracedKept
  <2> QED
    BY <1>1, <2>1, <2>2
<1>5. CASE RecordRefused(e)
  <2>1. /\ Ends(e) /\ IdOfExecution(executor[e]) \in used
        /\ UNCHANGED <<started, orders, faulted, used>>
    BY <1>5 DEF RecordRefused, Ends
  <2>2. \A o \in orders : Traced(o)'
    BY <1>0, <2>1, EndsType, TracedReleased
  <2> QED
    BY <1>1, <2>1, <2>2
<1>6. CASE Blocked(e) \/ Record(e)
  <2>1. /\ InProgress(executor[e])
        /\ Continue(e, "rejected") \/ Continue(e, "entered")
        /\ UNCHANGED <<started, orders, faulted>> /\ used \subseteq used'
        /\ executor[e].pc # "recording" \/ IdOfExecution(executor[e]) \in used'
    BY <1>6 DEF Blocked, Record, InProgress
  <2>2. /\ executor'[e].n = executor[e].n /\ executor'[e].seen = executor[e].seen
        /\ executor'[e].during = executor[e].during
        /\ \A f \in Executors : f # e => executor'[f] = executor[f]
        /\ executor[e] # Idle
    BY <1>0, <2>1, ContinuesType DEF InProgress, Idle
  <2>3. \A o \in orders : Traced(o)'
    BY <1>0, <2>1, <2>2, TracedKept, TracedReleased
  <2> QED
    BY <2>1, <2>2, <2>3, RepeatKept DEF Runs
<1>7. CASE Accepted(e) \/ ReplyLost(e)
  <2>1. /\ Place(e) /\ executor[e].pc # "recording"
        /\ UNCHANGED <<started, used>> /\ faulted \subseteq faulted'
        /\ \/ Continue(e, "recording")
           \/ Continue(e, "rejected") /\ executor[e].n \in faulted'
    BY <1>7 DEF Accepted, ReplyLost, Place
  <2>2. /\ executor'[e].n = executor[e].n /\ executor'[e].seen = executor[e].seen
        /\ executor'[e].during = executor[e].during
        /\ executor'[e].proposal = executor[e].proposal
        /\ executor'[e].reply = executor[e].reply
        /\ executor'[e].pc = "recording" \/ executor[e].n \in faulted'
        /\ \A f \in Executors : f # e => executor'[f] = executor[f]
        /\ executor[e] # Idle
    BY <1>0, <2>1, PlaceFacts, ContinuesType
  <2>3. \A o \in orders : Traced(o)'
    BY <1>0, <2>1, <2>2, TracedKept
  <2>4. PICK q : q = NewOrder(e)
    OBVIOUS
  <2>5. Traced(q)'
    <3>1. q.n = executor[e].n /\ q.proposal = executor[e].proposal /\ q.reply = executor[e].reply
      BY <2>4 DEF NewOrder
    <3> QED
      BY <2>2, <3>1 DEF Traced
  <2> QED
    BY <2>1, <2>2, <2>3, <2>4, <2>5, RepeatPlaced DEF Runs
<1>8. CASE BreaksOff(e)
  <2>1. /\ Ends(e) /\ UNCHANGED <<started, used>>
        /\ faulted' = faulted \cup {executor[e].n}
        /\ Place(e) \/ orders' = orders
    BY <1>8 DEF BreaksOff, Ends
  <2>2. executor'[e] = Idle /\ \A f \in Executors : f # e => executor'[f] = executor[f]
    BY <1>0, <2>1, EndsType
  <2>3. \A o \in orders : Traced(o)'
    BY <1>0, <2>1, <2>2, TracedReleased
  <2>4. CASE orders' = orders
    BY <1>1, <2>1, <2>3, <2>4
  <2>5. CASE Place(e)
    <3>1. PICK q : q = NewOrder(e)
      OBVIOUS
    <3>2. Traced(q)'
      BY <2>1, <3>1 DEF Traced, NewOrder
    <3> QED
      BY <2>1, <2>2, <2>3, <2>5, <3>1, <3>2, RepeatPlaced DEF Runs
  <2> QED
    BY <2>1, <2>4, <2>5
<1> QED
  BY <1>2, <1>3, <1>4, <1>5, <1>6, <1>7, <1>8 DEF Step

LEMMA RepeatStep == RepeatInv /\ [Next]_vars => RepeatInv'
<1> SUFFICES ASSUME RepeatInv, [Next]_vars PROVE RepeatInv'
  OBVIOUS
<1>0. TypeOK'
  BY TypeStep DEF RepeatInv
<1>1. CASE UNCHANGED <<executor, orders, used, faulted, started>>
  <2>1. \A o \in orders : Traced(o)'
    BY <1>1 DEF RepeatInv, Traced, IdOfExecution, ClientOrderId
  <2> QED
    BY <1>0, <1>1, <2>1, RepeatKept
<1>2. ASSUME NEW e \in Executors, Step(e) PROVE RepeatInv'
  BY <1>0, <1>2, RepeatOfStep
<1> QED
  BY <1>1, <1>2 DEF Next, Tick, Resend, vars

\* A client order ID reaches the broker twice only after a fault, or when the
\* second execution began while the first was in progress.
THEOREM RepeatedOrders == Spec => []RepeatedOrderNeedsFault
<1>1. RepeatInv => RepeatedOrderNeedsFault
  BY DEF RepeatInv
<1> QED
  BY <1>1, RepeatInit, RepeatStep, PTL DEF Spec

-----------------------------------------------------------------------------
(* What Edge knows.                                                        *)

Heard == told \cup unsent

\* An execution in progress has sent nothing yet and has an order exactly when
\* it is past placing it; one that is over has reported what became of it.
Known(n) ==
  /\ \A e \in Executors : (executor[e] # Idle /\ executor[e].n = n) =>
       /\ Entry(n) \notin Heard /\ Rejection(n) \notin Heard
       /\ executor[e].pc \in {"authorizing", "submitting"} => ~Placed(n)
       /\ executor[e].pc \in {"recording", "entered"} => Placed(n)
       /\ executor[e].pc = "rejected" => (Placed(n) => n \in faulted)
  /\ (~Running(n) /\ n \notin faulted /\ ~Repeated(n)) =>
       IF Placed(n) THEN Entry(n) \in Heard /\ Rejection(n) \notin Heard
       ELSE Entry(n) \notin Heard

Started == /\ \A o \in orders : o.n \in 1 .. started
           /\ \A feedback \in Heard : feedback.n \in 1 .. started

KnownCore == TypeOK /\ Started /\ \A n \in 1 .. started : Known(n)

\* An executor that is recording has its order at the broker, and a used ID an
\* order that is no longer being recorded.
Held ==
  \A e \in Executors : executor[e].pc = "recording" =>
    \E o \in orders : o.n = executor[e].n /\ IdOfExecution(o) = IdOfExecution(executor[e])

Backed ==
  \A id \in used : \E o \in orders :
    /\ IdOfExecution(o) = id
    /\ \A e \in Executors : executor[e].pc = "recording" => executor[e].n # o.n

KnownInv == KnownCore /\ Held /\ Backed

LEMMA KnownInit == Init => KnownInv
<1>1. Init => Held /\ Backed
  BY DEF Init, Held, Backed, Idle
<1> QED
  BY <1>1, TypeInit DEF Init, KnownInv, KnownCore, Started, Heard

LEMMA RepeatedStays ==
  ASSUME NEW n, Repeated(n), \A o \in orders : o \in orders'
  PROVE  Repeated(n)'
<1>1. \A o : IdOfExecution(o)' = IdOfExecution(o)
  BY DEF IdOfExecution, ClientOrderId
<1> QED
  BY <1>1 DEF Repeated

\* A step of one executor leaves what is known of the other executions.
LEMMA KnownOther ==
  ASSUME NEW n, Known(n), NEW e \in Executors,
         \A f \in Executors : f # e => executor'[f] = executor[f],
         executor[e] # Idle => executor[e].n # n,
         executor'[e] # Idle => executor'[e].n # n,
         faulted \subseteq faulted',
         \A o \in orders : o \in orders', \A o \in orders' : o \in orders \/ o.n # n,
         \A feedback \in Heard : feedback \in Heard',
         \A feedback \in Heard' : feedback \in Heard \/ feedback.n # n
  PROVE  Known(n)'
<1>1. Placed(n)' <=> Placed(n)
  BY DEF Placed
<1>2. Running(n)' <=> Running(n)
  BY DEF Running
<1>3. /\ Entry(n) \in Heard' <=> Entry(n) \in Heard
      /\ Rejection(n) \in Heard' <=> Rejection(n) \in Heard
  BY DEF Entry, Rejection
<1>4. Entry(n)' = Entry(n) /\ Rejection(n)' = Rejection(n)
  BY DEF Entry, Rejection
<1>6. Repeated(n) => Repeated(n)'
  BY RepeatedStays
<1>5. ASSUME NEW f \in Executors, executor'[f] # Idle, executor'[f].n = n
      PROVE  executor'[f] = executor[f]
  BY <1>5
<1> QED
  BY <1>1, <1>2, <1>3, <1>4, <1>5, <1>6 DEF Known

\* The step of an executor, put for the number k of its execution.
LEMMA KnownOfStep ==
  ASSUME KnownCore, TypeOK', NEW e \in Executors, executor[e] # Idle, started' = started,
         \A f \in Executors : f # e => executor'[f] = executor[f],
         executor'[e] # Idle => executor'[e].n = executor[e].n,
         faulted \subseteq faulted',
         orders \subseteq orders', \A o \in orders' : o \in orders \/ o.n = executor[e].n,
         Heard \subseteq Heard',
         \A feedback \in Heard' : feedback \in Heard \/ feedback.n = executor[e].n,
         NEW k, k = executor[e].n, Known(k)'
  PROVE  KnownCore'
<1>1. k \in 1 .. started
  BY DEF KnownCore, TypeOK
<1>2. Started'
  BY <1>1 DEF KnownCore, Started
<1>3. ASSUME NEW n \in 1 .. started PROVE Known(n)'
  <2>1. CASE n = k
    BY <2>1
  <2>2. CASE n # k
    BY <2>2, KnownOther DEF KnownCore
  <2> QED
    BY <2>1, <2>2
<1> QED
  BY <1>2, <1>3 DEF KnownCore

\* An executor has its execution for itself.
LEMMA RunsAlone ==
  ASSUME TypeOK, NEW e \in Executors, executor[e] # Idle,
         NEW f \in Executors, executor[f] # Idle, executor[f].n = executor[e].n
  PROVE  f = e
  BY DEF TypeOK

LEMMA KnownBegin ==
  ASSUME KnownCore, TypeOK', NEW e \in Executors, NEW proposal \in Proposals,
         Execute(e, proposal)
  PROVE  KnownCore'
<1>0. TypeOK /\ started \in Nat /\ executor[e] = Idle
  BY DEF KnownCore, TypeOK, Execute
<1>1. /\ UNCHANGED <<orders, told, unsent, faulted>>
      /\ started' = started + 1
      /\ executor'[e] # Idle /\ executor'[e].pc = "authorizing"
      /\ executor'[e].n = started + 1
      /\ \A f \in Executors : f # e => executor'[f] = executor[f]
  BY <1>0, BeginsType DEF Execute
<1>2. Heard' = Heard
  BY <1>1 DEF Heard
<1>3. Started'
  BY <1>0, <1>1, <1>2 DEF KnownCore, Started
<1>4. ASSUME NEW n \in 1 .. started PROVE Known(n)'
  BY <1>0, <1>1, <1>2, <1>4, KnownOther DEF KnownCore
<1>5. ASSUME NEW n, n = started + 1 PROVE Known(n)'
  <2>1. Running(n)'
    BY <1>1, <1>5 DEF Running
  <2>2. ~Placed(n)'
    BY <1>0, <1>1, <1>5 DEF KnownCore, Started, Placed
  <2>3. Entry(n)' \notin Heard' /\ Rejection(n)' \notin Heard'
    BY <1>0, <1>2, <1>5 DEF KnownCore, Started, Entry, Rejection
  <2>4. \A f \in Executors : (executor'[f] # Idle /\ executor'[f].n = n) => f = e
    BY <1>1, <1>5 DEF TypeOK
  <2> QED
    BY <1>1, <2>1, <2>2, <2>3, <2>4 DEF Known
<1>6. \A n \in 1 .. started' : n \in 1 .. started \/ n = started + 1
  BY <1>0, <1>1
<1> QED
  BY <1>3, <1>4, <1>5, <1>6 DEF KnownCore

\* What is known of an execution in progress, and of one that ends here.
LEMMA KnownOfOwn ==
  ASSUME KnownCore, NEW e \in Executors, executor[e] # Idle, NEW k, k = executor[e].n
  PROVE  /\ k \in 1 .. started
         /\ Entry(k) \notin Heard /\ Rejection(k) \notin Heard
         /\ executor[e].pc \in {"authorizing", "submitting"} => ~Placed(k)
         /\ executor[e].pc \in {"recording", "entered"} => Placed(k)
         /\ executor[e].pc = "rejected" => (Placed(k) => k \in faulted)
<1>1. k \in 1 .. started
  BY DEF KnownCore, TypeOK
<1> QED
  BY <1>1 DEF KnownCore, Known

LEMMA KnownEnds ==
  ASSUME KnownCore, TypeOK', NEW e \in Executors, executor[e] # Idle, Ends(e),
         started' = started, faulted \subseteq faulted',
         orders \subseteq orders', \A o \in orders' : o \in orders \/ o.n = executor[e].n,
         Heard \subseteq Heard',
         \A feedback \in Heard' : feedback \in Heard \/ feedback.n = executor[e].n,
         NEW k, k = executor[e].n,
         (k \notin faulted' /\ ~Repeated(k)') =>
           IF Placed(k)' THEN Entry(k) \in Heard' /\ Rejection(k) \notin Heard'
           ELSE Entry(k) \notin Heard'
  PROVE  KnownCore'
<1>0. TypeOK
  BY DEF KnownCore
<1>1. executor'[e] = Idle /\ \A f \in Executors : f # e => executor'[f] = executor[f]
  BY <1>0, EndsType
<1>2. \A f \in Executors : ~(executor'[f] # Idle /\ executor'[f].n = k)
  BY <1>0, <1>1, RunsAlone
<1>3. Known(k)'
  BY <1>2 DEF Known, Entry, Rejection
<1> QED
  BY <1>1, <1>3, KnownOfStep

LEMMA KnownContinues ==
  ASSUME KnownCore, TypeOK', NEW e \in Executors, executor[e] # Idle, executor'[e] # Idle,
         executor'[e].n = executor[e].n,
         \A f \in Executors : f # e => executor'[f] = executor[f],
         started' = started, faulted \subseteq faulted', Heard' = Heard,
         orders \subseteq orders', \A o \in orders' : o \in orders \/ o.n = executor[e].n,
         NEW k, k = executor[e].n,
         executor'[e].pc \in {"authorizing", "submitting"} => ~Placed(k)',
         executor'[e].pc \in {"recording", "entered"} => Placed(k)',
         executor'[e].pc = "rejected" => (Placed(k)' => k \in faulted')
  PROVE  KnownCore'
<1>1. Entry(k) \notin Heard /\ Rejection(k) \notin Heard
  BY KnownOfOwn
<1>2. \A f \in Executors : (executor'[f] # Idle /\ executor'[f].n = k) => f = e
  BY DEF TypeOK
<1>3. Running(k)'
  BY DEF Running
<1>4. Known(k)'
  BY <1>1, <1>2, <1>3 DEF Known, Entry, Rejection
<1> QED
  BY <1>4, KnownOfStep

LEMMA KnownPlaced ==
  ASSUME KnownCore, NEW e \in Executors, Place(e), NEW k, k = executor[e].n
  PROVE  /\ executor[e] # Idle /\ InProgress(executor[e]) /\ Placed(k)'
         /\ orders \subseteq orders' /\ \A o \in orders' : o \in orders \/ o.n = k
<1>1. TypeOK
  BY DEF KnownCore
<1>2. NewOrder(e).n = k
  BY DEF NewOrder
<1> QED
  BY <1>1, <1>2, PlaceFacts DEF Placed

\* An order that finds its ID used is not the only one of its ID.
LEMMA RefusedIsRepeated ==
  ASSUME KnownInv, NEW e \in Executors, executor[e].pc = "recording",
         IdOfExecution(executor[e]) \in used
  PROVE  Repeated(executor[e].n)
<1>1. PICK o \in orders : o.n = executor[e].n /\ IdOfExecution(o) = IdOfExecution(executor[e])
  BY DEF KnownInv, Held
<1>2. PICK p \in orders : IdOfExecution(p) = IdOfExecution(executor[e]) /\ p.n # executor[e].n
  BY DEF KnownInv, Backed
<1> QED
  BY <1>1, <1>2 DEF Repeated

LEMMA KnownStepOf ==
  ASSUME KnownInv, TypeOK', NEW e \in Executors, Step(e)
  PROVE  KnownCore'
<1>0. TypeOK /\ KnownCore
  BY DEF KnownInv, KnownCore
<1>1. PICK k : k = executor[e].n
  OBVIOUS
<1>2. ASSUME NEW proposal \in Proposals, Execute(e, proposal) PROVE KnownCore'
  BY <1>0, <1>2, KnownBegin
<1>9. CASE RecordRefused(e)
  <2>1. /\ executor[e] # Idle /\ Ends(e) /\ IdOfExecution(executor[e]) \in used
        /\ executor[e].pc = "recording"
        /\ UNCHANGED <<started, orders, faulted>> /\ Heard' = Heard
    BY <1>9 DEF RecordRefused, Idle, Heard, Ends
  <2>2. Repeated(k)'
    BY <1>0, <1>1, <2>1, RefusedIsRepeated, RepeatedStays
  <2> QED
    BY <1>0, <1>1, <2>1, <2>2, KnownEnds
<1>3. ASSUME NEW reply \in Replies, Answer(e, reply) PROVE KnownCore'
  <2>1. /\ executor[e] # Idle /\ executor[e].pc = "authorizing"
        /\ UNCHANGED <<started, orders, faulted>> /\ Heard' = Heard
    BY <1>3 DEF Answer, Idle, Heard
  <2>2. ~Placed(k)' /\ Entry(k) \notin Heard
    BY <1>0, <1>1, <2>1, KnownOfOwn DEF Placed
  <2>3. CASE Ends(e)
    BY <1>0, <1>1, <2>1, <2>2, <2>3, KnownEnds
  <2>4. CASE ~Ends(e)
    <3>1. /\ executor'[e] # Idle /\ executor'[e].pc = "submitting"
          /\ executor'[e].n = executor[e].n
          /\ \A f \in Executors : f # e => executor'[f] = executor[f]
      BY <1>0, <1>3, <2>4, AnswerFacts
    <3> QED
      BY <1>0, <1>1, <2>1, <2>2, <3>1, KnownContinues
  <2> QED
    BY <2>3, <2>4
<1>4. CASE Unauthorized(e)
  <2>1. /\ executor[e] # Idle /\ executor[e].pc = "authorizing" /\ Ends(e)
        /\ UNCHANGED <<started, orders, faulted>> /\ Heard' = Heard
    BY <1>4 DEF Unauthorized, Idle, Heard, Ends
  <2>2. ~Placed(k)' /\ Entry(k) \notin Heard
    BY <1>0, <1>1, <2>1, KnownOfOwn DEF Placed
  <2> QED
    BY <1>0, <1>1, <2>1, <2>2, KnownEnds
<1>5. CASE Blocked(e) \/ Record(e)
  <2>1. /\ executor[e] # Idle /\ InProgress(executor[e])
        /\ UNCHANGED <<started, orders, faulted>> /\ Heard' = Heard
        /\ \/ executor[e].pc = "submitting" /\ Continue(e, "rejected")
           \/ executor[e].pc = "recording" /\ Continue(e, "entered")
    BY <1>5 DEF Blocked, Record, Idle, Heard, InProgress
  <2>2. /\ executor'[e] # Idle /\ executor'[e].n = executor[e].n
        /\ \A f \in Executors : f # e => executor'[f] = executor[f]
        /\ \/ executor[e].pc = "submitting" /\ executor'[e].pc = "rejected"
           \/ executor[e].pc = "recording" /\ executor'[e].pc = "entered"
    BY <1>0, <2>1, ContinuesType
  <2>3. Placed(k)' <=> Placed(k)
    BY <2>1 DEF Placed
  <2> QED
    BY <1>0, <1>1, <2>1, <2>2, <2>3, KnownOfOwn, KnownContinues
<1>6. CASE Accepted(e) \/ ReplyLost(e)
  <2>1. /\ Place(e) /\ started' = started /\ faulted \subseteq faulted' /\ Heard' = Heard
        /\ \/ Continue(e, "recording")
           \/ Continue(e, "rejected") /\ executor[e].n \in faulted'
    BY <1>6 DEF Accepted, ReplyLost, Heard
  <2>2. /\ executor[e] # Idle /\ InProgress(executor[e]) /\ Placed(k)'
        /\ orders \subseteq orders' /\ \A o \in orders' : o \in orders \/ o.n = executor[e].n
    BY <1>0, <1>1, <2>1, KnownPlaced
  <2>3. /\ executor'[e] # Idle /\ executor'[e].n = executor[e].n
        /\ \A f \in Executors : f # e => executor'[f] = executor[f]
        /\ \/ executor'[e].pc = "recording"
           \/ executor'[e].pc = "rejected" /\ executor[e].n \in faulted'
    BY <1>0, <2>1, <2>2, ContinuesType
  <2> QED
    BY <1>0, <1>1, <2>1, <2>2, <2>3, KnownContinues
<1>7. CASE Tell(e) \/ TellFails(e)
  <2>1. /\ executor[e].pc \in {"entered", "rejected"} /\ Ends(e)
        /\ Heard' = Heard \cup {FeedbackOf(executor[e])}
        /\ UNCHANGED <<started, orders, faulted>>
    BY <1>7 DEF Tell, TellFails, Ends, Heard
  <2>2. /\ executor[e] # Idle
        /\ executor[e].pc = "entered" => FeedbackOf(executor[e]) = Entry(k)
        /\ executor[e].pc = "rejected" => FeedbackOf(executor[e]) = Rejection(k)
    BY <1>0, <1>1, <2>1, FeedbackType
  <2>3. Placed(k)' <=> Placed(k)
    BY <2>1 DEF Placed
  <2>4. Entry(k) # Rejection(k) /\ Entry(k).n = k /\ Rejection(k).n = k
    BY DEF Entry, Rejection
  <2>5. k \notin faulted' =>
          IF Placed(k)' THEN Entry(k) \in Heard' /\ Rejection(k) \notin Heard'
          ELSE Entry(k) \notin Heard'
    BY <1>0, <1>1, <2>1, <2>2, <2>3, <2>4, KnownOfOwn
  <2>6. /\ Heard \subseteq Heard'
        /\ \A feedback \in Heard' : feedback \in Heard \/ feedback.n = executor[e].n
    BY <1>0, <1>1, <2>1, <2>2, <2>4
  <2> QED
    BY <1>0, <1>1, <2>1, <2>2, <2>5, <2>6, KnownEnds
<1>8. CASE BreaksOff(e)
  <2>1. /\ executor[e] # Idle /\ Ends(e) /\ started' = started /\ Heard' = Heard
        /\ faulted \subseteq faulted' /\ k \in faulted'
        /\ Place(e) \/ orders' = orders
    BY <1>1, <1>8 DEF BreaksOff, Ends, Heard
  <2>2. orders \subseteq orders' /\ \A o \in orders' : o \in orders \/ o.n = executor[e].n
    BY <1>0, <1>1, <2>1, KnownPlaced
  <2> QED
    BY <1>0, <1>1, <2>1, <2>2, KnownEnds
<1> QED
  BY <1>2, <1>3, <1>4, <1>5, <1>6, <1>7, <1>8, <1>9 DEF Step

LEMMA BackedKept ==
  ASSUME KnownInv, \A o \in orders : o \in orders', used' = used,
         \A f \in Executors : executor'[f].pc = "recording" =>
            \/ executor'[f] = executor[f]
            \/ /\ ~Placed(executor'[f].n)
               /\ \E o \in orders' : /\ o.n = executor'[f].n
                                     /\ IdOfExecution(o) = IdOfExecution(executor'[f])
  PROVE  Held' /\ Backed'
<1>1. \A o : IdOfExecution(o)' = IdOfExecution(o)
  BY DEF IdOfExecution, ClientOrderId
<1>2. \A f : IdOfExecution(executor[f])' = IdOfExecution(executor'[f])
  BY DEF IdOfExecution, ClientOrderId
<1>3. Held'
  BY <1>1, <1>2 DEF KnownInv, Held
<1>4. Backed'
  BY <1>1 DEF KnownInv, Backed, Placed
<1> QED
  BY <1>3, <1>4

LEMMA BackedOfStep ==
  ASSUME KnownInv, NEW e \in Executors, Step(e)
  PROVE  Held' /\ Backed'
<1>0. TypeOK /\ KnownCore
  BY DEF KnownInv, KnownCore
<1>1. ASSUME executor'[e].pc # "recording", used' = used, \A o \in orders : o \in orders',
             \A f \in Executors : f # e => executor'[f] = executor[f]
      PROVE  Held' /\ Backed'
  BY <1>1, BackedKept
<1>2. ASSUME NEW proposal \in Proposals, Execute(e, proposal) PROVE Held' /\ Backed'
  <2>1. UNCHANGED <<used, orders>>
    BY <1>2 DEF Execute
  <2>2. executor'[e].pc # "recording" /\ \A f \in Executors : f # e => executor'[f] = executor[f]
    BY <1>0, <1>2, BeginsType
  <2> QED
    BY <1>1, <2>1, <2>2
<1>3. ASSUME NEW reply \in Replies, Answer(e, reply) PROVE Held' /\ Backed'
  <2>1. UNCHANGED <<used, orders, started>>
    BY <1>3 DEF Answer
  <2>2. executor'[e].pc # "recording" /\ \A f \in Executors : f # e => executor'[f] = executor[f]
    BY <1>0, <1>3, <2>1, AnswerFacts, EndsType DEF Idle
  <2> QED
    BY <1>1, <2>1, <2>2
<1>4. CASE Unauthorized(e) \/ RecordRefused(e) \/ Tell(e) \/ TellFails(e) \/ BreaksOff(e)
  <2>1. /\ Ends(e) /\ UNCHANGED <<used, started>>
        /\ orders' = orders \/ Place(e)
    BY <1>4 DEF Unauthorized, RecordRefused, Tell, TellFails, BreaksOff, Ends
  <2>2. \A o \in orders : o \in orders'
    BY <1>0, <2>1, PlaceFacts
  <2>3. executor'[e].pc # "recording" /\ \A f \in Executors : f # e => executor'[f] = executor[f]
    BY <1>0, <2>1, EndsType DEF Idle
  <2> QED
    BY <1>1, <2>1, <2>2, <2>3
<1>5. CASE Blocked(e) \/ ReplyLost(e)
  <2>1. /\ InProgress(executor[e]) /\ Continue(e, "rejected") /\ UNCHANGED <<used, started>>
        /\ orders' = orders \/ Place(e)
    BY <1>5 DEF Blocked, ReplyLost, InProgress, Place
  <2>2. \A o \in orders : o \in orders'
    BY <1>0, <2>1, PlaceFacts
  <2>3. executor'[e].pc # "recording" /\ \A f \in Executors : f # e => executor'[f] = executor[f]
    BY <1>0, <2>1, ContinuesType
  <2> QED
    BY <1>1, <2>1, <2>2, <2>3
<1>6. CASE Accepted(e)
  <2>1. Place(e) /\ Continue(e, "recording") /\ UNCHANGED <<used, started>>
    BY <1>6 DEF Accepted
  <2>2. /\ orders' = orders \cup {NewOrder(e)} /\ InProgress(executor[e])
        /\ executor[e].pc = "submitting" /\ executor[e] # Idle
    BY <1>0, <2>1, PlaceFacts
  <2>3. /\ executor'[e].n = executor[e].n
        /\ executor'[e].proposal = executor[e].proposal
        /\ executor'[e].reply = executor[e].reply
        /\ \A f \in Executors : f # e => executor'[f] = executor[f]
    BY <1>0, <2>1, <2>2, ContinuesType
  <2>4. ~Placed(executor'[e].n)
    BY <1>0, <2>2, <2>3, KnownOfOwn
  <2>5. PICK q : q = NewOrder(e)
    OBVIOUS
  <2>6. q.n = executor'[e].n /\ q.proposal = executor'[e].proposal /\ q.reply = executor'[e].reply
    BY <2>3, <2>5 DEF NewOrder
  <2>7. IdOfExecution(q) = IdOfExecution(executor'[e])
    BY <2>6 DEF IdOfExecution
  <2> QED
    BY <2>1, <2>2, <2>3, <2>4, <2>5, <2>6, <2>7, BackedKept
<1>7. CASE Record(e)
  <2>1. /\ executor[e].pc = "recording" /\ InProgress(executor[e]) /\ Continue(e, "entered")
        /\ used' = used \cup {IdOfExecution(executor[e])} /\ UNCHANGED <<orders, started>>
    BY <1>7 DEF Record, InProgress
  <2>2. executor'[e].pc = "entered" /\ \A f \in Executors : f # e => executor'[f] = executor[f]
    BY <1>0, <2>1, ContinuesType
  <2>3. \A o : IdOfExecution(o)' = IdOfExecution(o)
    BY DEF IdOfExecution, ClientOrderId
  <2>4. \A f : IdOfExecution(executor[f])' = IdOfExecution(executor'[f])
    BY DEF IdOfExecution, ClientOrderId
  <2>5. Held'
    BY <2>1, <2>2, <2>3, <2>4 DEF KnownInv, Held
  <2>6. PICK o \in orders : o.n = executor[e].n /\ IdOfExecution(o) = IdOfExecution(executor[e])
    BY <2>1 DEF KnownInv, Held
  <2>7. \A f \in Executors : executor'[f].pc = "recording" => executor'[f].n # o.n
    <3>1. \A f \in Executors : (f # e /\ executor[f].pc = "recording") => executor[f].n # executor[e].n
      <4>1. executor[e] # Idle
        BY <2>1 DEF Idle
      <4>2. \A f \in Executors : executor[f].pc = "recording" => executor[f] # Idle
        BY DEF Idle
      <4> QED
        BY <1>0, <4>1, <4>2, RunsAlone
    <3> QED
      BY <2>2, <2>6, <3>1
  <2>8. \A id \in used : \E p \in orders : /\ IdOfExecution(p) = id
          /\ \A f \in Executors : executor'[f].pc = "recording" => executor'[f].n # p.n
    BY <2>2 DEF KnownInv, Backed
  <2>9. Backed'
    BY <2>1, <2>3, <2>6, <2>7, <2>8 DEF Backed
  <2> QED
    BY <2>5, <2>9
<1> QED
  BY <1>2, <1>3, <1>4, <1>5, <1>6, <1>7 DEF Step

LEMMA KnownStep == KnownInv /\ [Next]_vars => KnownInv'
<1> SUFFICES ASSUME KnownInv, [Next]_vars PROVE KnownInv'
  OBVIOUS
<1>0. TypeOK'
  BY TypeStep DEF KnownInv, KnownCore
<1>1. CASE UNCHANGED <<executor, orders, started, faulted, used>> /\ Heard' = Heard
  <2>1. KnownCore'
    BY <1>0, <1>1 DEF KnownInv, KnownCore, Started, Known, Running, Repeated, Placed,
       Entry, Rejection, IdOfExecution, ClientOrderId
  <2>2. Held' /\ Backed'
    BY <1>1 DEF KnownInv, Held, Backed, IdOfExecution, ClientOrderId
  <2> QED
    BY <2>1, <2>2 DEF KnownInv
<1>2. ASSUME NEW e \in Executors, Step(e) PROVE KnownInv'
  BY <1>0, <1>2, KnownStepOf, BackedOfStep DEF KnownInv
<1>3. ASSUME NEW feedback \in unsent, Resend(feedback) PROVE KnownInv'
  <2>1. UNCHANGED <<executor, orders, started, faulted, used>> /\ Heard' = Heard
    BY <1>3 DEF Resend, Heard
  <2> QED
    BY <1>1, <2>1
<1> QED
  BY <1>1, <1>2, <1>3 DEF Next, Tick, vars, Heard

\* Once an execution is over without a fault and with an ID of its own, Edge has
\* heard of its order, or can still be sent it, and of no order that is not one.
THEOREM EdgeKnows == Spec => []EdgeKnowsTheOrders
<1>1. KnownInv => EdgeKnowsTheOrders
  BY DEF KnownInv, KnownCore, Known, EdgeKnowsTheOrders, Heard
<1> QED
  BY <1>1, KnownInit, KnownStep, PTL DEF Spec

=============================================================================
