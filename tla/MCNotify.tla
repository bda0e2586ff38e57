------------------------------ MODULE MCNotify ------------------------------
(***************************************************************************)
(* Three Notified futures that two tasks poll, and two threads in          *)
(* notify_all at once.  Three futures are the smallest number for which a  *)
(* list has a front, a middle and a back when one is removed.              *)
(***************************************************************************)
EXTENDS NotifyList
=============================================================================
