------------------------------ MODULE MCRescue ------------------------------
(* Model checking Rescue: two servers in two views one after the other, and *)
(* plans for a target and two followers.                                    *)
EXTENDS Rescue

CONSTANTS f1, f2

MCFollowers == <<f1, f2>>
=============================================================================
