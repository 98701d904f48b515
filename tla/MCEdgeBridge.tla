----------------------------- MODULE MCEdgeBridge -----------------------------
(* A small instance of EdgeBridge: two proposals for one instrument, one of   *)
(* them without an ID, and the replies of two positions that share a client   *)
(* order ID, a card without a position, and replies that must be refused.     *)
EXTENDS EdgeBridge

CONSTANTS e1, e2, gold, pos1, pos2, prop1, id1, id2

MCIdOf == [k \in {pos1, pos2, prop1} |-> IF k = prop1 THEN id2 ELSE id1]

Proposal(id, side, quantity, notional) ==
  [id |-> id, instrument |-> gold, side |-> side, quantity |-> quantity,
   kind |-> "market", limit |-> 0, notional |-> notional]

MCProposals ==
  {Proposal(prop1, "long", 1, 102), Proposal(None, "short", 1, 0)}

Card == [contract |-> TRUE, authorized |-> TRUE, bot |-> "sentinel-iron",
         symbol |-> gold, state |-> "armed", expires |-> 1, direction |-> None,
         target |-> 100, position |-> pos1, stop_owner |-> None]

\* Replies to a proposal to buy.
MCReplies ==
  {Card,
   [Card EXCEPT !.position = pos2, !.stop_owner = pos2],
   [Card EXCEPT !.position = None, !.expires = None],
   [Card EXCEPT !.position = None, !.direction = "short"],
   [Card EXCEPT !.target = 99],
   [Card EXCEPT !.authorized = FALSE]}
=============================================================================
