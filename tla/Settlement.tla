----------------------------- MODULE Settlement -----------------------------
(***************************************************************************)
(* What reconciliation promises: the market ends an order once, by filling *)
(* it or by closing it, and afterwards the order is settled once, the way  *)
(* the market ended it.  Nothing about sessions, polls, messages or        *)
(* crashes.                                                                *)
(***************************************************************************)
CONSTANT Orders

VARIABLES
  market,  \* how the market has ended each order, "working" before that
  book     \* how each order is settled: "open", "booked" or "closed"

Init ==
  /\ market = [o \in Orders |-> "working"]
  /\ book = [o \in Orders |-> "open"]

MarketEnds(o, how) ==
  /\ market[o] = "working"
  /\ market' = [market EXCEPT ![o] = how]
  /\ UNCHANGED book

\* One commit may settle several orders.
Settle(S) ==
  /\ \A o \in S : market[o] # "working" /\ book[o] = "open"
  /\ book' = [o \in Orders |-> IF o \notin S THEN book[o]
                               ELSE IF market[o] = "filled" THEN "booked"
                               ELSE "closed"]
  /\ UNCHANGED market

Next ==
  \/ \E o \in Orders, how \in {"filled", "closed"} : MarketEnds(o, how)
  \/ \E S \in SUBSET Orders : Settle(S)

Spec == Init /\ [][Next]_<<market, book>>
=============================================================================
