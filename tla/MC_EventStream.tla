--------------------------- MODULE MC_EventStream ---------------------------
(***************************************************************************)
(* Two workers, one of them exposed to kills, signals and Redis outages.   *)
(***************************************************************************)
EXTENDS EventStream

CONSTANTS w1, w2, p1, p2
=============================================================================
