------------------------- MODULE SubscriptionStates -------------------------
(***************************************************************************)
(* The state machine of a store's SaaS subscription: the TRANSITIONS table *)
(* of subscription-state.service.ts and the operators the service derives  *)
(* from it.  Every other subscription module changes "state" through       *)
(* Transition, as the services do through transitionInTx.                  *)
(***************************************************************************)

\* Motives of store_subscriptions.lock_reason; NoLock is SQL NULL.
NoLock == "none"
Motives == {"past_due", "plan_retired", "chargeback", "admin_manual"}
Locks == Motives \union {NoLock}

\* TRANSITIONS: from each state, the states it may move to.
Transitions == [
  draft           |-> {"pending_payment", "trial", "active", "no_plan"},
  pending_payment |-> {"active", "blocked", "cancelled", "expired", "no_plan",
                       "grace_soft", "grace_hard", "suspended", "trial", "draft"},
  trial           |-> {"active", "pending_payment", "blocked", "cancelled", "expired"},
  active          |-> {"grace_soft", "cancelled", "expired", "no_plan", "pending_payment"},
  grace_soft      |-> {"active", "grace_hard", "cancelled", "no_plan", "pending_payment"},
  grace_hard      |-> {"active", "suspended", "cancelled", "expired", "pending_payment"},
  suspended       |-> {"active", "blocked", "cancelled", "pending_payment"},
  blocked         |-> {"active", "cancelled"},
  cancelled       |-> {"pending_payment", "no_plan"},
  expired         |-> {"pending_payment", "no_plan"},
  no_plan         |-> {"pending_payment", "active", "cancelled"}]

States == DOMAIN Transitions

Legal(from, to) == to \in Transitions[from]

\* A transition that does not throw: a legal one, or the no-op onto itself.
Accepted(from, to) == from = to \/ Legal(from, to)

\* The states in which a store operates (the exit guard of ensureOperational).
Operational == {"active", "trial"}

\* resolveOperationalRoute returned a route, possibly the empty one.
HasRoute(from) ==
  \/ from \in Operational
  \/ Legal(from, "active")
  \/ Legal(from, "pending_payment") /\ Legal("pending_payment", "active")

\* lock_reason after a transition that really changes the state; given is
\* opts.lockReason, NoLock when the caller passes none.
LockAfter(to, given, lock) ==
  CASE to \in {"suspended", "blocked"}      -> IF given = NoLock THEN "admin_manual" ELSE given
    [] to \in {"grace_soft", "grace_hard"}  -> IF given = NoLock THEN lock ELSE given
    [] to \in Operational                   -> NoLock
    [] OTHER                                -> lock

=============================================================================
