----------------------------- MODULE NotifySpec -----------------------------
(***************************************************************************)
(* What a Notify promises, without its wait list, its lock or its wakers.  *)
(*                                                                         *)
(* A task that waits is at some point notified and then finishes.  A call  *)
(* of notify_one turns at most one waiting task into a notified one, or    *)
(* leaves one token for a later task when nobody waits.  A call may also   *)
(* merge with an earlier one whose task has not run yet: the code does     *)
(* that (notify.rs:84-90), the documentation of notify_one does not say    *)
(* so, and Notify!NotifyOneNotifiesAWaiter is the strict reading.          *)
(***************************************************************************)
EXTENDS Naturals

CONSTANTS
  Futures,    \* the Notified futures, by the memory they occupy
  Threads     \* the threads that call notify_all

VARIABLES
  token,    \* TRUE iff a notification is stored for a future task
  phase,    \* how far each future is
  ones,     \* number of notify_one calls so far
  calling   \* the threads in notify_all

vars == <<token, phase, ones, calling>>

Phase == {"None", "Init", "Waiting", "Notified", "Done", "Leaked"}

In(p) == {f \in Futures : phase[f] = p}

Init ==
  /\ token = FALSE
  /\ phase = [f \in Futures |-> "None"]
  /\ ones = 0
  /\ calling = {}

Move(f, from, to) == phase[f] = from /\ phase' = [phase EXCEPT ![f] = to]

Create(f) == Move(f, "None", "Init") /\ UNCHANGED <<token, ones, calling>>

\* A future that finds the token takes it; one that does not starts to wait.
TakeToken(f) == token /\ token' = FALSE /\ Move(f, "Init", "Done") /\ UNCHANGED <<ones, calling>>

Wait(f) == ~token /\ Move(f, "Init", "Waiting") /\ UNCHANGED <<token, ones, calling>>

Finish(f) == Move(f, "Notified", "Done") /\ UNCHANGED <<token, ones, calling>>

\* Dropping a future loses the notification it may have received.
Cancel(f) ==
  /\ phase[f] \notin {"None", "Leaked"}
  /\ phase' = [phase EXCEPT ![f] = "None"]
  /\ UNCHANGED <<token, ones, calling>>

\* A future that is leaked while it waits takes part no more, but a notify_one may
\* be spent on it.
Leak(f) ==
  /\ Move(f, "Waiting", "Leaked") \/ Move(f, "Notified", "Leaked")
  /\ UNCHANGED <<token, ones, calling>>

NotifyOne ==
  /\ ones' = ones + 1
  /\ UNCHANGED calling
  /\ \/ (\E f \in Futures : Move(f, "Waiting", "Notified")) /\ UNCHANGED token
     \/ In("Notified") \union In("Leaked") # {} /\ UNCHANGED <<phase, token>>
     \/ /\ In("Notified") \union In("Waiting") \union In("Leaked") = {}
        /\ token' = TRUE
        /\ UNCHANGED phase

\* A call of notify_all begins.  With it a stored token may be forgotten: the code
\* does that (notify.rs:64).  It happens only when nobody waits, and notify.rs:62 says
\* that the call then does nothing: Notify!NotifyAllAloneDoesNothing is that reading.
BeginAll(t) ==
  /\ t \notin calling
  /\ calling' = calling \union {t}
  /\ token' \in {token, FALSE}
  /\ UNCHANGED <<phase, ones>>

\* It ends when everybody who waits is notified; for later tasks it leaves nothing.
EndAll(t) ==
  /\ t \in calling
  /\ calling' = calling \ {t}
  /\ phase' = [f \in Futures |-> IF phase[f] = "Waiting" THEN "Notified" ELSE phase[f]]
  /\ UNCHANGED <<token, ones>>

Next ==
  \/ NotifyOne
  \/ \E t \in Threads : BeginAll(t) \/ EndAll(t)
  \/ \E f \in Futures : Create(f) \/ TakeToken(f) \/ Wait(f) \/ Finish(f) \/ Cancel(f) \/ Leak(f)

Safety == Init /\ [][Next]_vars

\* A notified task finishes unless its future is dropped or leaked, and a call of
\* notify_all comes to its end.
Spec ==
  /\ Safety
  /\ \A f \in Futures : WF_vars(Finish(f))
  /\ \A t \in Threads : WF_vars(EndAll(t))
=============================================================================
