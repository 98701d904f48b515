SPECIFICATION Spec
CONSTANTS
  e1 = e1
  e2 = e2
  gold = gold
  pos1 = pos1
  pos2 = pos2
  prop1 = prop1
  id1 = id1
  id2 = id2
  None = None
  Executors = {e1, e2}
  Proposals <- MCProposals
  Replies <- MCReplies
  Ids = {id1, id2}
  IdOf <- MCIdOf
  MaxExecutions = 3
  MaxClock = 1
INVARIANTS
  OrdersAreAuthorized
  RepeatedOrderNeedsFault
  
CHECK_DEADLOCK FALSE
