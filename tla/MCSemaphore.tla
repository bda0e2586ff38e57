---------------------------- MODULE MCSemaphore -----------------------------
(***************************************************************************)
(* Futures asking for one or two permits, two threads that add them, and a *)
(* counter that wraps at three.                                            *)
(***************************************************************************)
EXTENDS Semaphore
=============================================================================
