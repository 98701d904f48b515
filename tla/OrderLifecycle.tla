--------------------------- MODULE OrderLifecycle ---------------------------
(***************************************************************************)
(* The order lifecycle value of domain/order_lifecycle.py: which           *)
(* transition is legal from which status, and what it returns.  A method   *)
(* that raises ValueError is a transition whose Can... guard is false.     *)
(* The reject reason is text nobody branches on and is left out.           *)
(***************************************************************************)
EXTENDS Integers

\* "unknown" is not a status of the code: it stands for an order id whose
\* lifecycle was never persisted (a store load that returns None).
Statuses ==
  {"pending_submit", "working", "partially_filled", "filled",
   "pending_cancel", "canceled", "rejected"}

TerminalStatuses == {"filled", "canceled", "rejected"}

Unknown == [status |-> "unknown", filled |-> 0]

PendingSubmit == [status |-> "pending_submit", filled |-> 0]

CanMarkWorking(lc) == lc.status = "pending_submit"

MarkWorking(lc) == [lc EXCEPT !.status = "working"]

\* record_fill raises on a terminal status, on any status other than working
\* or partially filled, and on a fill that exceeds the order's quantity.
CanRecordFill(lc, quantity, orderQuantity) ==
  /\ lc.status \notin TerminalStatuses
  /\ lc.status \in {"working", "partially_filled"}
  /\ lc.filled + quantity =< orderQuantity

\* Mutant: filled is decided by the last fill alone.
JudgeLastFill(lc, quantity, orderQuantity) ==
  [status |-> IF quantity = orderQuantity THEN "filled" ELSE "partially_filled",
   filled |-> lc.filled + quantity]

RecordFill(lc, quantity, orderQuantity) ==
  [status |-> IF lc.filled + quantity = orderQuantity
              THEN "filled" ELSE "partially_filled",
   filled |-> lc.filled + quantity]

CanMarkPendingCancel(lc) == lc.status \in {"working", "partially_filled"}

MarkPendingCancel(lc) == [lc EXCEPT !.status = "pending_cancel"]

\* Mutant: a cancellation is only taken by an order without a pending cancel.
CancelsWorkingOnly(lc) == lc.status \in {"working", "partially_filled"}

CanMarkCanceled(lc) == lc.status = "pending_cancel"

MarkCanceled(lc) == [lc EXCEPT !.status = "canceled"]

CanMarkRejected(lc) == lc.status \in {"pending_submit", "working"}

MarkRejected(lc) == [lc EXCEPT !.status = "rejected"]
=============================================================================
