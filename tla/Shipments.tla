----------------------------- MODULE Shipments -----------------------------
(***************************************************************************)
(* What a transfer between warehouses promises: goods are sent once, arrive *)
(* at most once and in any number of deliveries, and a shipment is over     *)
(* only when nothing of it is left on the road.                            *)
(***************************************************************************)
EXTENDS Integers

CONSTANTS Shipped, Goods
VARIABLES phase, road

Nothing == [g \in Goods |-> 0]
Phases == {"planned", "sent", "over"}

Init == phase = [s \in Shipped |-> "planned"] /\ road = [s \in Shipped |-> Nothing]

Only(s) ==
  /\ road' \in [Shipped -> [Goods -> Nat]] /\ phase' \in [Shipped -> Phases]
  /\ \A r \in Shipped \ {s} : road'[r] = road[r] /\ phase'[r] = phase[r]

Send(s) == Only(s) /\ phase[s] = "planned" /\ phase'[s] = "sent"

Deliver(s) ==
  /\ Only(s) /\ phase[s] = "sent"
  /\ \A g \in Goods : road'[s][g] <= road[s][g]
  /\ phase'[s] = IF road'[s] = Nothing THEN "over" ELSE "sent"

\* Before it is sent, or with what is on the road taken back.
CallOff(s) ==
  Only(s) /\ phase[s] \in {"planned", "sent"} /\ phase'[s] = "over" /\ road'[s] = Nothing

Next == \E s \in Shipped : Send(s) \/ Deliver(s) \/ CallOff(s)

Spec == Init /\ [][Next]_<<phase, road>>
=============================================================================
