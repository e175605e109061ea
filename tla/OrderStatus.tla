---------------------------- MODULE OrderStatus ----------------------------
(***************************************************************************)
(* The life of a broker order, as app/models/order.py names it.  Pure      *)
(* operators, used by every statement about an order.                      *)
(***************************************************************************)

\* OrderStatus, the literal type of TradeOrder.status.
Statuses ==
  {"pending", "new", "accepted", "partially_filled", "pending_cancel",
   "pending_replace", "filled", "canceled", "expired", "rejected",
   "replaced", "done_for_day"}

\* _TERMINAL: nothing further happens under this order id.
Terminal ==
  {"filled", "canceled", "expired", "rejected", "replaced", "done_for_day"}

IsTerminal(s) == s \in Terminal

\* pending_cancel is cancelable on purpose: it records that we asked.
IsCancelable(s) == ~IsTerminal(s)
=============================================================================
