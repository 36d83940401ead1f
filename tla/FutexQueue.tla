----------------------------- MODULE FutexQueue -----------------------------
(***************************************************************************)
(* What the scheduler-level locks of deemon assume of one futex address:   *)
(* a set of threads that sleep there, from which WakeOne takes one and     *)
(* WakeAll takes everyone.  Which sleeper WakeOne picks is up to the       *)
(* kernel, so every choice is allowed.                                     *)
(***************************************************************************)

\* DeeFutex_WakeOne: the possible sets of sleepers afterwards.
WakeOne(sleepers) ==
    IF sleepers = {} THEN {{}} ELSE {sleepers \ {t} : t \in sleepers}

\* DeeFutex_WakeAll, and os_futex_wakeall as called by an interrupted waiter.
WakeAll(sleepers) == {}

=============================================================================
