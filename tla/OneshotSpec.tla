---------------------------- MODULE OneshotSpec -----------------------------
(***************************************************************************)
(* What a oneshot channel promises, without its bits, cells and wakers:    *)
(* one value, sent before the Receiver closed, is received or dropped,     *)
(* once; a half that awaits the other learns what the other did.           *)
(*                                                                         *)
(* LocalOneshot implements this.  Oneshot does not: its runs show where a  *)
(* task may sleep although the value is there.                             *)
(***************************************************************************)

VARIABLES
  value,       \* what became of the value
  result,      \* what send returned
  sender,      \* "open" or "gone"
  receiver,    \* "open", "closed" (it can still receive) or "gone"
  awaiting     \* the halves whose task waits for the other half

vars == <<value, result, sender, receiver, awaiting>>

Init ==
  /\ value = "none" /\ result = "none"
  /\ sender = "open" /\ receiver = "open"
  /\ awaiting = {}

Leave == sender = "open" /\ sender' = "gone" /\ awaiting' = awaiting \ {"sender"}

Send ==
  /\ receiver = "open"
  /\ Leave
  /\ value' = "sent" /\ result' = "ok"
  /\ UNCHANGED receiver

\* A channel that its Receiver closed gives the value back.
Refuse ==
  /\ receiver # "open"
  /\ Leave
  /\ result' = "err"
  /\ UNCHANGED <<value, receiver>>

DropSender == Leave /\ UNCHANGED <<value, result, receiver>>

\* The wait for the other half, and its end.
Wait(half) == awaiting' = awaiting \union {half} /\ UNCHANGED <<value, result, sender, receiver>>

End(half) == awaiting' = awaiting \ {half} /\ UNCHANGED <<result, sender, receiver>>

Await == receiver # "gone" /\ sender = "open" /\ Wait("receiver")

Receive == receiver # "gone" /\ value = "sent" /\ value' = "received" /\ End("receiver")

\* Closed is said only when nothing more can come.
SeeClosed ==
  /\ receiver # "gone" /\ sender = "gone" /\ value # "sent"
  /\ End("receiver") /\ UNCHANGED value

AwaitClose == sender = "open" /\ receiver = "open" /\ Wait("sender")

SeeReceiverClosed ==
  sender = "open" /\ receiver # "open" /\ End("sender") /\ UNCHANGED value

Close ==
  /\ receiver # "gone" /\ receiver' = "closed"
  /\ UNCHANGED <<value, result, sender, awaiting>>

DropReceiver ==
  /\ receiver # "gone" /\ receiver' = "gone"
  /\ awaiting' = awaiting \ {"receiver"}
  /\ UNCHANGED <<value, result, sender>>

\* A value that nobody took is dropped with the channel.
Discard ==
  /\ sender = "gone" /\ receiver = "gone" /\ value = "sent"
  /\ value' = "dropped"
  /\ UNCHANGED <<result, sender, receiver, awaiting>>

Next ==
  \/ Send \/ Refuse \/ DropSender \/ AwaitClose \/ SeeReceiverClosed
  \/ Await \/ Receive \/ SeeClosed \/ Close \/ DropReceiver
  \/ Discard

Safety == Init /\ [][Next]_vars

\* A wait ends when what it is for has happened, and a value does not stay behind.
Spec ==
  /\ Safety
  /\ WF_vars("receiver" \in awaiting /\ (Receive \/ SeeClosed))
  /\ WF_vars("sender" \in awaiting /\ SeeReceiverClosed)
  /\ WF_vars(Discard)
=============================================================================
