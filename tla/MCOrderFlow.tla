---------------------------- MODULE MCOrderFlow ----------------------------
(* Small instances of OrderFlow. *)
EXTENDS OrderFlow, TLC

CONSTANTS o1, o2

MCUnits == (o1 :> 1) @@ (o2 :> 1)
MCOneUnit == (o1 :> 1)
EnvCalm == {"kitchen", "drafts", "crash", "oversell"}
EnvRaces == {"overlap", "kitchen"}
EnvLive == {"expiry", "crash"}
EnvCrash == {"crash"}
=============================================================================
