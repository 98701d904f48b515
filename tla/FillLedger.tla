----------------------------- MODULE FillLedger -----------------------------
(***************************************************************************)
(* What the position ledger promises (PositionLedgerService with a         *)
(* processed-fill store): every execution the broker reports is added to   *)
(* the positions at most once, and nothing else is.                        *)
(***************************************************************************)
EXTENDS Naturals

CONSTANT Executions   \* everything the broker may execute

VARIABLES
  executed,           \* the executions reported so far
  book                \* how often each of them was added to the positions

bookVars == <<executed, book>>

Init ==
  /\ executed = {}
  /\ book = [x \in Executions |-> 0]

Execute(x) ==
  /\ executed' = executed \cup {x}
  /\ UNCHANGED book

Add(x) ==
  /\ x \in executed
  /\ book[x] = 0
  /\ book' = [book EXCEPT ![x] = 1]
  /\ UNCHANGED executed

Next == \E x \in Executions : Execute(x) \/ Add(x)

Spec == Init /\ [][Next]_bookVars
=============================================================================
