--------------------------- MODULE MCLateAnswers ----------------------------
(* Model checking LateAnswers: two clusters of two and one servers, the      *)
(* second without certificates checked, two nodes whose incidents can trade  *)
(* numbers, two log viewers.                                                *)
EXTENDS LateAnswers, TLC

CONSTANTS A, B, a1, a2, b1

MCHostsOf == (A :> {a1, a2}) @@ (B :> {b1})
MCServerOf == (A :> a1) @@ (B :> b1)
=============================================================================
