------------------------------ MODULE Purchase ------------------------------
(***************************************************************************)
(* What the plan-change flow promises, seen from the gateway: it takes     *)
(* charges for plans, and the plan a store has paid for (paid_plan_id)     *)
(* only ever becomes one that was charged before.                          *)
(***************************************************************************)
CONSTANTS Plans, NoPlan

VARIABLES
  charged,    \* plans the gateway took a charge for
  bought      \* paid_plan_id

Init == charged \subseteq Plans /\ bought \in charged \union {NoPlan}

Charge(p) == charged' = charged \union {p} /\ UNCHANGED bought
Grant(p) == p \in charged /\ bought' = p /\ UNCHANGED charged
\* A saved card is charged and the plan granted in one call.
Buy(p) == charged' = charged \union {p} /\ bought' = p
Next == \E p \in Plans : Charge(p) \/ Grant(p) \/ Buy(p)

Spec == Init /\ [][Next]_<<charged, bought>>

\* The granted plan was charged for.
BoughtIsCharged == bought # NoPlan => bought \in charged
=============================================================================
