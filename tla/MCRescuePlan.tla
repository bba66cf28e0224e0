---------------------------- MODULE MCRescuePlan ----------------------------
(* Model checking RescuePlan: a target and two followers. *)
EXTENDS RescuePlan, TLC
CONSTANTS t, f1, f2
MCFollowers == <<f1, f2>>
=============================================================================
