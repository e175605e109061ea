------------------------------- MODULE MCPush -------------------------------
(* Three parts that share a run: how frames travel (Delivery), what the page  *)
(* does with its sockets (WebClient), and the sweep that raises alerts        *)
(* (AlertSweep).  They share no state: a behaviour is one of the three.       *)
EXTENDS Delivery, WebClient, AlertSweep, TLC

CONSTANTS w1, w2, s1, s2, u1, u2

VARIABLE part
pushVars == <<part, deliveryVars, webVars, alertVars>>

MCNewRows ==
  LET Row(u, condition, threshold, watched) ==
        [user |-> u, condition |-> condition, threshold |-> threshold,
         is_active |-> watched, last_triggered_at |-> 0] IN
  {Row(u1, "PRICE_ABOVE", 1, TRUE), Row(u2, "PRICE_BELOW", 2, TRUE),
   Row(u1, "RSI_BELOW", 2, TRUE), Row(u2, "AI_SIGNAL_STRONG_BUY", Nothing, TRUE),
   Row(u2, "PRICE_ABOVE", Nothing, TRUE), Row(u1, "PRICE_ABOVE", 1, FALSE)}

Alike == {p @@ q : p \in Permutations({w1, w2}), q \in Permutations({s1, s2})}

Init ==
  /\ part \in {"delivery", "client", "alerts"}
  /\ DeliveryInit /\ WebInit /\ AlertInit
  /\ part # "client" => page = "auth"

Next ==
  /\ part' = part
  /\ \/ part = "delivery" /\ DeliveryNext /\ UNCHANGED <<webVars, alertVars>>
     \/ part = "client" /\ WebNext /\ UNCHANGED <<deliveryVars, alertVars>>
     \/ part = "alerts" /\ AlertNext /\ UNCHANGED <<deliveryVars, webVars>>

Spec == Init /\ [][Next]_pushVars

\* Bound: what follows a late onclose is not explored, as no property of the
\* client speaks of it.
NotLate == ~late

\* Every variable of the three parts keeps its type.
TypeOK == DeliveryTypeOK /\ WebTypeOK /\ AlertTypeOK
=============================================================================
