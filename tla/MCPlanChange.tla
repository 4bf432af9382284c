---------------------------- MODULE MCPlanChange ----------------------------
(* Small instances of PlanChange: two plans, b an upgrade of a, or three, *)
(* so that a store parked on its way to one can change its mind to        *)
(* another; and the environments of the runs.                             *)
EXTENDS PlanChange

CONSTANTS a, b, c

MCPlans == {a, b}
MCUpgrades == {<<a, b>>}
MCPlans3 == {a, b, c}
MCUpgrades3 == {<<a, b>>, <<c, b>>}

EnvJobs == {"tabs", "engine", "renewal", "pending"}
EnvRaces == {"overlap", "crash"}
=============================================================================
