----------------------------- MODULE SynchWait -----------------------------
(***************************************************************************)
(* prj14/include/synch_wait.h: the one-slot notification used between the  *)
(* network thread, the timer thread and the application threads.           *)
(*                                                                         *)
(* A struct synch_wait is a record.  Its mutex makes wake_up one step and  *)
(* splits sleep_on into the part before pthread_cond_wait and the part     *)
(* after it; the thread's own program counter says which part is next.     *)
(* `dead` is left out: wait_exit, the only code that sets it, is never     *)
(* called.                                                                 *)
(***************************************************************************)

Wait == [notified : BOOLEAN, sleep : BOOLEAN]

wait_init == [notified |-> FALSE, sleep |-> FALSE]

\* wake_up: the notification is a flag, so it is remembered, and several of
\* them are one.  The signal is sent exactly when the flag rises.
wake_up(w) == [w EXCEPT !.notified = TRUE]

\* sleep_on up to pthread_cond_wait.  With a notification pending the call
\* consumes it and returns; otherwise the caller is registered and blocks.
Returns(w) == w.notified
sleep_on(w) == IF Returns(w) THEN wait_init ELSE [w EXCEPT !.sleep = TRUE]

\* sleep_on after pthread_cond_wait: on a signal, or spuriously, since the
\* code tests the flag with `if` and not with `while`.
resume(w) == [w EXCEPT !.notified = FALSE, !.sleep = FALSE]
=============================================================================
