----------------------------- MODULE MCSecScan -----------------------------
(* Model checking SecScan on two nodes and two stages. *)
EXTENDS SecScan
=============================================================================
