----------------------------- MODULE MCDunning -----------------------------
(* Small instance of Dunning: one-day rungs, a two-day cycle, two invoices *)
(* alive at a time, and the sets of environment events of the runs.        *)
EXTENDS Dunning

EnvBilling == {"widget", "manual", "cards", "crash", "plan", "chargeback"}
EnvRaces == {"overlap", "retry", "manual", "cancel", "pending"}

EnvQuiet == {}
EnvTimeout == {"timeout", "retry"}
=============================================================================
