--------------------------- MODULE MCLocalNotify ----------------------------
(***************************************************************************)
(* Three futures that two tasks poll: enough for a walk that stands at a   *)
(* node which has left the list while another one waits behind it.         *)
(***************************************************************************)
EXTENDS LocalNotify
=============================================================================
