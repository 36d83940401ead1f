------------------------------- MODULE Event --------------------------------
(***************************************************************************)
(* Dee_event_t, an event that threads set, clear and wait for              *)
(* (include/deemon/util/lock.h, src/deemon/runtime/lock.c): one word that  *)
(* is 0 while the event is set, 1 while it is not, and 2 while it is not   *)
(* and there may be waiting threads.                                       *)
(*                                                                         *)
(* Every atomic access to shared memory is an action of its own.           *)
(***************************************************************************)
EXTENDS Naturals, FutexQueue

CONSTANTS Threads,  \* the threads sharing the event
          Ops,      \* the waiting functions they may call
          Targets   \* the threads that others may interrupt

\* The functions by their suffix; "timed_inf" has the timeout (uint64_t)-1.
ASSUME OpsAssumption == Ops \subseteq {"waitfor", "noint", "timed", "timed_inf"}

VARIABLES ev_state, \* the word
          sleepers, \* threads asleep on the futex at ev_state
          pc,       \* where each thread is in the code
          op,       \* the function each thread is in
          err,      \* result of a thread's last futex wait: 0, 1 timeout, 2 exception
          intr,     \* threads with a pending interrupt
          seen,     \* history: was the event set at some time in the thread's call?
          isset,    \* history: was the event set, and not cleared since?
          told      \* history: did the thread's last call return 0?

vars == <<ev_state, sleepers, pc, op, err, intr, isset, seen, told>>

PCs == {"idle", "get", "mark", "wait", "asleep", "check",
        "wakeall"}  \* has set the event: about to call DeeFutex_WakeAll

Init == /\ ev_state \in {0, 1}
        /\ sleepers = {}
        /\ pc = [t \in Threads |-> "idle"]
        /\ op \in [Threads -> Ops]
        /\ err = [t \in Threads |-> 0]
        /\ intr = {}
        /\ isset = (ev_state = 0)
        /\ seen = {}
        /\ told = {}

Goto(t, label) == pc' = [pc EXCEPT ![t] = label] /\ UNCHANGED told

\* A call returns 0.
Succeed(t) == pc' = [pc EXCEPT ![t] = "idle"] /\ told' = told \cup {t}

-----------------------------------------------------------------------------
(* Dee_event_waitfor, Dee_event_waitfor_noint, Dee_event_waitfor_timed *)

Call(t) ==
    /\ pc[t] = "idle"
    /\ \E o \in Ops : op' = [op EXCEPT ![t] = o]
    /\ pc' = [pc EXCEPT ![t] = "get"]
    /\ seen' = IF isset THEN seen \cup {t} ELSE seen \ {t}
    /\ told' = told \ {t}
    /\ UNCHANGED <<ev_state, sleepers, err, intr, isset>>

\* Nothing to wait for if the event is set.  An infinite timeout hands over to
\* Dee_event_waitfor, which looks again.
Get(t) ==
    /\ pc[t] = "get"
    /\ IF ev_state = 0 THEN Succeed(t) /\ UNCHANGED op
       ELSE /\ Goto(t, IF op[t] = "timed_inf" THEN "get" ELSE "mark")
            /\ op' = [op EXCEPT ![t] = IF @ = "timed_inf" THEN "waitfor" ELSE @]
    /\ UNCHANGED <<ev_state, sleepers, err, intr, isset, seen>>

\* The word announces a waiting thread.
MarkAs(t, word) ==
    /\ pc[t] = "mark"
    /\ ev_state' = word
    /\ Goto(t, "wait")
    /\ UNCHANGED <<sleepers, op, err, intr, isset, seen>>

\* Mutant: a store in place of the compare-exchange.
Mark_Store(t) == MarkAs(t, 2)

\* atomic_cmpxch(&self->ev_state, 1, 2)
Mark(t) == MarkAs(t, IF ev_state = 1 THEN 2 ELSE ev_state)

\* DeeFutex_WaitInt*(&self->ev_state, 2) without an interrupt.
FutexWait(t) ==
    /\ pc[t] = "wait"
    /\ t \notin intr
    /\ IF ev_state = 2 THEN sleepers' = sleepers \cup {t} /\ Goto(t, "asleep")
                       ELSE UNCHANGED sleepers /\ Goto(t, "check")
    /\ UNCHANGED <<ev_state, op, err, intr, isset, seen>>

\* DeeFutex_WaitInt* with an interrupt pending: wake everyone, handle it, and
\* leave with an exception or start over.
FutexInterrupted(t) ==
    /\ pc[t] = "wait"
    /\ t \in intr
    /\ intr' = intr \ {t}
    /\ sleepers' = WakeAll(sleepers)
    /\ \/ op[t] # "noint" /\ err' = [err EXCEPT ![t] = 2] /\ Goto(t, "check")
       \/ UNCHANGED <<pc, err, told>>
    /\ UNCHANGED <<ev_state, op, isset, seen>>

Woken(t) ==
    /\ pc[t] = "asleep"
    /\ t \notin sleepers
    /\ Goto(t, "check")
    /\ UNCHANGED <<ev_state, sleepers, op, err, intr, isset, seen>>

TimedOut(t) ==
    /\ pc[t] = "asleep"
    /\ t \in sleepers
    /\ op[t] = "timed"
    /\ sleepers' = sleepers \ {t}
    /\ err' = [err EXCEPT ![t] = 1]
    /\ Goto(t, "check")
    /\ UNCHANGED <<ev_state, op, intr, isset, seen>>

\* Back from the wait: an error ends the call, the event if it is set, and for
\* a timed wait the time.  A timed wait announces itself again, others do not.
CheckFor(t, set) ==
    /\ pc[t] = "check"
    /\ err' = [err EXCEPT ![t] = 0]
    /\ IF err[t] = 0 /\ set THEN Succeed(t)
       ELSE \E label \in CASE err[t] # 0 -> {"idle"}
                           [] op[t] = "timed" -> {"mark", "idle"}
                           [] OTHER -> {"wait"} : Goto(t, label)
    /\ UNCHANGED <<ev_state, sleepers, op, intr, isset, seen>>

\* Mutant: whoever is woken takes the event for set.
Check_Trusts(t) == CheckFor(t, TRUE)

Check(t) == CheckFor(t, ev_state = 0)

-----------------------------------------------------------------------------
(* Dee_event_set, Dee_event_clear *)

SetFrom(t, waited) ==
    /\ pc[t] = "idle"
    /\ ev_state' = 0
    /\ Goto(t, IF ev_state >= waited THEN "wakeall" ELSE "idle")
    /\ isset' = TRUE
    /\ seen' = Threads
    /\ UNCHANGED <<sleepers, op, err, intr>>

\* Mutant: the word 2 is taken for an event that nobody waits for.
Set_OffByOne(t) == SetFrom(t, 3)

\* Dee_event_set_ex: exchange the word, wake everyone if it was 2.
Set(t) == SetFrom(t, 2)

DoWakeAll(t) ==
    /\ pc[t] = "wakeall"
    /\ sleepers' = WakeAll(sleepers)
    /\ Goto(t, "idle")
    /\ UNCHANGED <<ev_state, op, err, intr, isset, seen>>

\* Dee_event_clear_ex: a compare-exchange of 0 by 1.
Clear(t) ==
    /\ pc[t] = "idle"
    /\ ev_state = 0
    /\ ev_state' = 1
    /\ isset' = FALSE
    /\ UNCHANGED <<sleepers, pc, op, err, intr, seen, told>>

-----------------------------------------------------------------------------
(* Interrupts, sent by other threads *)

Interrupt(t) ==
    /\ pc[t] \in {"wait", "asleep"}
    /\ t \in Targets \ intr
    /\ intr' = intr \cup {t}
    /\ UNCHANGED <<ev_state, sleepers, pc, op, err, isset, seen, told>>

WakeGlobal(t) ==
    /\ t \in intr
    /\ t \in sleepers
    /\ sleepers' = WakeAll(sleepers)
    /\ UNCHANGED <<ev_state, pc, op, err, intr, isset, seen, told>>

-----------------------------------------------------------------------------

Step(t) == \/ Get(t) \/ Mark(t) \/ FutexWait(t) \/ FutexInterrupted(t)
           \/ Woken(t) \/ TimedOut(t) \/ Check(t) \/ DoWakeAll(t)

Next == \E t \in Threads : \/ Call(t) \/ Step(t) \/ Set(t) \/ Clear(t)
                           \/ Interrupt(t) \/ WakeGlobal(t)

Spec == Init /\ [][Next]_vars

\* A thread inside a call keeps running, and an interrupter goes on until its
\* target has left the futex.  Nobody is obliged to set the event.
Fairness == \A t \in Threads : WF_vars(Step(t)) /\ WF_vars(WakeGlobal(t))

FairSpec == Spec /\ Fairness

-----------------------------------------------------------------------------
(* Properties *)

\* Every variable has its type; the word has no value but the three.
TypeOK == /\ ev_state \in {0, 1, 2}
          /\ sleepers \subseteq Threads
          /\ pc \in [Threads -> PCs]
          /\ op \in [Threads -> {"waitfor", "noint", "timed", "timed_inf"}]
          /\ err \in [Threads -> {0, 1, 2}]
          /\ intr \subseteq Threads
          /\ isset \in BOOLEAN
          /\ seen \subseteq Threads
          /\ told \subseteq Threads

\* The word is 0 exactly from a set to the next clear, whatever the waiting
\* threads announce in it.
WordExact == ev_state = 0 <=> isset

\* No lost wake-up, although the word 1 forgets the waiting threads of an
\* earlier round: threads sleep only while the word says so, or until the
\* thread that has set the event gets to wake them.
NoLostWakeup == sleepers # {} => \/ ev_state = 2
                                 \/ \E t \in Threads : pc[t] = "wakeall"

\* A wait succeeds only if the event was set at some time during the call:
\* not for a wake-up that was meant for somebody else.
SuccessMeansSet == told \subseteq seen

\* If the event is set for good, every wait ends, unless its thread is
\* interrupted over and over.
WaitersReturn ==
    \A t \in Threads : <>[](isset /\ t \notin intr) => []<>(pc[t] = "idle")

=============================================================================
