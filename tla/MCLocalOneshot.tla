--------------------------- MODULE MCLocalOneshot ---------------------------
(***************************************************************************)
(* One channel whose halves are awaited by either of two tasks: it serves  *)
(* one value and has no counters, so nothing is bounded.                   *)
(***************************************************************************)
EXTENDS LocalOneshot
=============================================================================
