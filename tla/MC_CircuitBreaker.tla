------------------------- MODULE MC_CircuitBreaker -------------------------
(***************************************************************************)
(* Callers of the breaker as model values.                                 *)
(***************************************************************************)
EXTENDS CircuitBreaker

CONSTANTS g1, g2, s1, r1
=============================================================================
