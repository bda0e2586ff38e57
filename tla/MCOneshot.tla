----------------------------- MODULE MCOneshot ------------------------------
(***************************************************************************)
(* One channel whose Receiver is awaited by either of two tasks: a channel *)
(* serves one value and has no counters, so nothing is bounded.            *)
(***************************************************************************)
EXTENDS Oneshot
=============================================================================
