------------------------------- MODULE MCAudit -------------------------------
(***************************************************************************)
(* A small instance of Audit: one run, and those who look at it.           *)
(***************************************************************************)
EXTENDS Audit, TLC

MCRegion ==
    [world100 |-> "GLOBAL", us40 |-> "US", us60 |-> "US", eu10 |-> "EU"]

MCTraffic == [world100 |-> 100, us40 |-> 40, us60 |-> 60, eu10 |-> 10]
=============================================================================
