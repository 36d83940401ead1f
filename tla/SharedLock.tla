----------------------------- MODULE SharedLock -----------------------------
(***************************************************************************)
(* Dee_shared_lock_t, the scheduler-level mutex of the deemon runtime      *)
(* (include/deemon/util/lock.h, src/deemon/runtime/lock.c): a lock word    *)
(* that threads exchange, a waitword counting the threads that are about   *)
(* to sleep or sleep on it, and a futex.                                   *)
(*                                                                         *)
(* Every atomic access to shared memory is an action of its own.  The      *)
(* release store is a plain store on x86: with TSO = TRUE it may stay in   *)
(* the releasing CPU's store buffer past the load of the waitword, and     *)
(* past the thread's later calls up to its next locked instruction or      *)
(* system call.  Until then the thread's own loads read the buffered 0.    *)
(***************************************************************************)
EXTENDS Naturals, FiniteSets, FutexQueue

CONSTANTS Threads,  \* the threads sharing the lock
          Ops,      \* the operations they may call
          TSO       \* does the release store go through a store buffer?

\* Operations that take the lock, and those that only wait until it was free.
AcquireOps == {"tryacquire", "acquire", "acquire_noint",
               "acquire_timed", "acquire_timed_inf"}
WaitforOps == {"waitfor", "waitfor_noint", "waitfor_timed", "waitfor_timed_inf"}

ASSUME ThreadsAssumption == IsFiniteSet(Threads)
ASSUME OpsAssumption == Ops \subseteq AcquireOps \cup WaitforOps
ASSUME TSOAssumption == TSO \in BOOLEAN

VARIABLES s_lock,    \* the lock word: 0 available, 1 held
          s_waiting, \* the waitword
          sleepers,  \* threads asleep on the futex at s_lock
          pc,        \* where each thread is in the code
          op,        \* the operation each thread last called
          err,       \* result of a thread's last futex wait: 0, 1 timeout, 2 exception (-1)
          intr,      \* threads with a pending interrupt (Dee_THREAD_STATE_INTERRUPTED)
          storebuf   \* threads whose release store is still buffered

vars == <<s_lock, s_waiting, sleepers, pc, op, err, intr, storebuf>>

PCs == {"idle",    \* not inside any operation, does not hold the lock
        "try",     \* about to look at the lock word for the first time
        "retry",   \* about to look at it again after a wait
        "start",   \* found it held: about to increment the waitword
        "wait",    \* about to enter the kernel's futex wait
        "asleep",  \* in the kernel (woken once it is no longer in sleepers)
        "end",     \* back from the wait: about to decrement the waitword
        "held",    \* holds the lock
        "reltest", \* stored 0 into the lock word: about to load the waitword
        "relwake"} \* saw waiters: about to call DeeFutex_WakeOne

Timed         == {"acquire_timed", "waitfor_timed"}
Interruptible == {"acquire", "acquire_timed", "waitfor", "waitfor_timed"}

Init == /\ s_lock = 0
        /\ s_waiting = 0
        /\ sleepers = {}
        /\ pc = [t \in Threads |-> "idle"]
        /\ op \in [Threads -> Ops]
        /\ err = [t \in Threads |-> 0]
        /\ intr = {}
        /\ storebuf = {}

Goto(t, label) == pc' = [pc EXCEPT ![t] = label]

-----------------------------------------------------------------------------
(* Acquiring and waiting *)

Call(t) ==
    /\ pc[t] = "idle"
    /\ \E o \in Ops : op' = [op EXCEPT ![t] = o]
    /\ Goto(t, "try")
    /\ UNCHANGED <<s_lock, s_waiting, sleepers, err, intr, storebuf>>

\* The operation a thread goes on with after it found the lock held: an
\* infinite timeout turns a timed call into the untimed one.
Delegate(o) == CASE o = "acquire_timed_inf" -> "acquire"
                 [] o = "waitfor_timed_inf" -> "waitfor"
                 [] OTHER -> o

\* Where a thread goes that found the lock held: a failed try returns; a
\* delegated call starts over; a timed loop may find its deadline passed
\* (only after a first wait); everyone else goes to sleep.
AfterHeld(t) ==
    CASE op[t] = "tryacquire" -> {"idle"}
      [] op[t] # Delegate(op[t]) -> {"try"}
      [] op[t] \in Timed /\ pc[t] = "retry" -> {"start", "idle"}
      [] OTHER -> {"start"}

\* atomic_xch(&s_lock, 1): takes the lock iff it was free.  A locked
\* instruction, which the CPU begins with an empty store buffer.
Xch(t) ==
    /\ pc[t] \in {"try", "retry"}
    /\ op[t] \in AcquireOps
    /\ t \notin storebuf
    /\ s_lock' = 1
    /\ IF s_lock = 0 THEN /\ Goto(t, "held")
                          /\ UNCHANGED op
                     ELSE /\ \E label \in AfterHeld(t) : Goto(t, label)
                          /\ op' = [op EXCEPT ![t] = Delegate(op[t])]
    /\ UNCHANGED <<s_waiting, sleepers, err, intr, storebuf>>

\* What a plain load of the lock word reads: the 0 of the thread's own release
\* as long as that is buffered, else what is in memory.
Loaded(t) == IF t \in storebuf THEN 0 ELSE s_lock

\* atomic_read(&s_lock) of the waitfor functions: returns once it reads 0.
Load(t) ==
    /\ pc[t] \in {"try", "retry"}
    /\ op[t] \in WaitforOps
    /\ IF Loaded(t) = 0
         THEN /\ Goto(t, "idle")
              /\ UNCHANGED op
         ELSE /\ \E label \in AfterHeld(t) : Goto(t, label)
              /\ op' = [op EXCEPT ![t] = Delegate(op[t])]
    /\ UNCHANGED <<s_lock, s_waiting, sleepers, err, intr, storebuf>>

\* _Dee_shared_lock_waiting_start
WaitingStart(t) ==
    /\ pc[t] = "start"
    /\ s_waiting' = s_waiting + 1
    /\ Goto(t, "wait")
    /\ UNCHANGED <<s_lock, sleepers, op, err, intr, storebuf>>

\* DeeFutex_WaitInt* finding no interrupt: the kernel compares the word with
\* the expected value and puts the thread to sleep in one step, or refuses
\* (EAGAIN, result 0).
FutexWait(t) ==
    /\ pc[t] = "wait"
    /\ t \notin intr
    /\ IF s_lock = 1 THEN /\ sleepers' = sleepers \cup {t}
                          /\ Goto(t, "asleep")
                     ELSE /\ Goto(t, "end")
                          /\ UNCHANGED sleepers
    /\ UNCHANGED <<s_lock, s_waiting, op, err, intr, storebuf>>

\* DeeFutex_WaitInt* finding an interrupt: wake everyone at the address, then
\* let the thread handle it.  Only an interruptible wait may end in an
\* exception; otherwise the wait starts over.
FutexInterrupted(t) ==
    /\ pc[t] = "wait"
    /\ t \in intr
    /\ intr' = intr \ {t}
    /\ sleepers' = WakeAll(sleepers)
    /\ \/ /\ op[t] \in Interruptible
          /\ err' = [err EXCEPT ![t] = 2]
          /\ Goto(t, "end")
       \/ UNCHANGED <<pc, err>>
    /\ UNCHANGED <<s_lock, s_waiting, op, storebuf>>

\* A thread that was taken out of the sleepers returns 0 from the kernel.
Woken(t) ==
    /\ pc[t] = "asleep"
    /\ t \notin sleepers
    /\ Goto(t, "end")
    /\ UNCHANGED <<s_lock, s_waiting, sleepers, op, err, intr, storebuf>>

\* ETIMEDOUT: only a thread nobody woke times out.
TimedOut(t) ==
    /\ pc[t] = "asleep"
    /\ t \in sleepers
    /\ op[t] \in Timed
    /\ sleepers' = sleepers \ {t}
    /\ err' = [err EXCEPT ![t] = 1]
    /\ Goto(t, "end")
    /\ UNCHANGED <<s_lock, s_waiting, op, intr, storebuf>>

\* A thread back from its wait takes n off the waitword and goes to label.
EndWait(t, n, label) ==
    /\ pc[t] = "end"
    /\ s_waiting' = s_waiting - n
    /\ Goto(t, label)
    /\ err' = [err EXCEPT ![t] = 0]
    /\ UNCHANGED <<s_lock, sleepers, op, intr, storebuf>>

\* `if (error != 0) return error`, else around the loop.
AfterWait(t) == IF err[t] = 0 THEN "retry" ELSE "idle"

\* Mutants: the woken thread believes the lock was handed to it; the error path
\* returns before it decrements the waitword; a woken waitfor returns without
\* looking at the lock word again.
WaitingEnd_Handoff(t) == EndWait(t, 1, IF err[t] = 0 THEN "held" ELSE "idle")
WaitingEnd_LeakOnError(t) == EndWait(t, IF err[t] = 0 THEN 1 ELSE 0, AfterWait(t))
WaitingEnd_NoRecheck(t) ==
    EndWait(t, 1, IF op[t] \in WaitforOps THEN "idle" ELSE AfterWait(t))

\* _Dee_shared_lock_waiting_end
WaitingEnd(t) == EndWait(t, 1, AfterWait(t))

-----------------------------------------------------------------------------
(* Releasing *)

\* Dee_atomic_lock_release: a store with release ordering.
ReleaseStore(t) ==
    /\ pc[t] = "held"
    /\ IF TSO THEN /\ storebuf' = storebuf \cup {t}
                   /\ UNCHANGED s_lock
              ELSE /\ s_lock' = 0
                   /\ UNCHANGED storebuf
    /\ Goto(t, "reltest")
    /\ UNCHANGED <<s_waiting, sleepers, op, err, intr>>

\* The store buffer of the CPU drains.
Drain(t) ==
    /\ t \in storebuf
    /\ storebuf' = storebuf \ {t}
    /\ s_lock' = 0
    /\ UNCHANGED <<s_waiting, sleepers, pc, op, err, intr>>

\* Mutant: off by one in the test for waiters.
ReleaseTest_OffByOne(t) ==
    /\ pc[t] = "reltest"
    /\ Goto(t, IF s_waiting > 1 THEN "relwake" ELSE "idle")
    /\ UNCHANGED <<s_lock, s_waiting, sleepers, op, err, intr, storebuf>>

\* _Dee_shared_lock_waiting_test
ReleaseTest(t) ==
    /\ pc[t] = "reltest"
    /\ Goto(t, IF s_waiting # 0 THEN "relwake" ELSE "idle")
    /\ UNCHANGED <<s_lock, s_waiting, sleepers, op, err, intr, storebuf>>

\* DeeFutex_WakeOne (the system call drains the store buffer first).
ReleaseWake(t) ==
    /\ pc[t] = "relwake"
    /\ t \notin storebuf
    /\ sleepers' \in WakeOne(sleepers)
    /\ Goto(t, "idle")
    /\ UNCHANGED <<s_lock, s_waiting, op, err, intr, storebuf>>

-----------------------------------------------------------------------------
(* Interrupts, sent by other threads *)

\* DeeThread_Interrupt setting Dee_THREAD_STATE_INTERRUPTED.
Interrupt(t) ==
    /\ t \notin intr
    /\ intr' = intr \cup {t}
    /\ UNCHANGED <<s_lock, s_waiting, sleepers, pc, op, err, storebuf>>

\* Mutant: one arbitrary sleeper is woken instead of everyone.
WakeGlobal_One(t) ==
    /\ t \in intr
    /\ pc[t] = "asleep"
    /\ t \in sleepers
    /\ sleepers' \in WakeOne(sleepers)
    /\ UNCHANGED <<s_lock, s_waiting, pc, op, err, intr, storebuf>>

\* os_futex_wait_list_wakethread: as long as the interrupted thread is
\* registered at the address, everyone there is woken.
WakeGlobal(t) ==
    /\ t \in intr
    /\ pc[t] = "asleep"
    /\ t \in sleepers
    /\ sleepers' = WakeAll(sleepers)
    /\ UNCHANGED <<s_lock, s_waiting, pc, op, err, intr, storebuf>>

-----------------------------------------------------------------------------

\* What a thread does inside a call it has made.
Step(t) == \/ Xch(t) \/ Load(t)
           \/ WaitingStart(t) \/ FutexWait(t) \/ FutexInterrupted(t)
           \/ Woken(t) \/ TimedOut(t) \/ WaitingEnd(t)
           \/ ReleaseTest(t) \/ ReleaseWake(t)

Next == \E t \in Threads :
            Call(t) \/ Step(t) \/ ReleaseStore(t) \/ Drain(t)
              \/ Interrupt(t) \/ WakeGlobal(t)

Spec == Init /\ [][Next]_vars

\* A thread inside a call keeps running, store buffers drain, a holder lets
\* go in the end, and an interrupter goes on until its target has left the
\* futex.  Nothing makes a thread call an operation or interrupt another one.
Fairness == \A t \in Threads :
                /\ WF_vars(Step(t))
                /\ WF_vars(ReleaseStore(t))
                /\ WF_vars(Drain(t))
                /\ WF_vars(WakeGlobal(t))

FairSpec == Spec /\ Fairness

-----------------------------------------------------------------------------
(* Properties *)

\* Every variable has its type; in particular the waitword, unsigned in the
\* code, never drops below zero.
TypeOK == /\ s_lock \in {0, 1}
          /\ s_waiting \in Nat
          /\ sleepers \subseteq Threads
          /\ pc \in [Threads -> PCs]
          /\ op \in [Threads -> AcquireOps \cup WaitforOps]
          /\ err \in [Threads -> {0, 1, 2}]
          /\ intr \subseteq Threads
          /\ storebuf \subseteq Threads

Holders == {t \in Threads : pc[t] = "held"}

\* Between _Dee_shared_lock_waiting_start and _Dee_shared_lock_waiting_end.
Waiters == {t \in Threads : pc[t] \in {"wait", "asleep", "end"}}

\* Dee_shared_lock_acquire* returns 0 to one thread at a time, whatever mix of
\* timeouts, interrupts and waits for the lock happens around it.
MutualExclusion == \A t, u \in Holders : t = u

\* The waitword counts exactly the threads between waiting_start and
\* waiting_end: no error path leaks an increment or drops one too many.
WaitwordExact == s_waiting = Cardinality(Waiters)

\* Threads that are bound to wake a sleeper or to take the lock themselves
\* (and thus to release it, and look for sleepers, later on).
Rescuers ==
    {t \in Threads :
        \/ pc[t] \in {"reltest", "relwake"}
        \/ /\ op[t] \in AcquireOps
           /\ \/ pc[t] \in {"try", "retry"}
              \/ pc[t] = "asleep" /\ t \notin sleepers
              \/ pc[t] = "end" /\ err[t] = 0}

\* No lost wake-up: whenever the lock is available and someone sleeps on it,
\* some thread is on its way to wake a sleeper or to take the lock.  This is
\* what the waitword is a counter for (the comment in lock.h on why a flag
\* does not work).
NoLostWakeup == s_lock = 0 /\ sleepers # {} => Rescuers # {}

\* The lock never stays available with somebody asleep on it.
SleepersNotAbandoned == s_lock = 0 /\ sleepers # {} ~> s_lock = 1 \/ sleepers = {}

\* An interrupted thread leaves its futex wait: it handles the interrupt, or
\* gets out of the call because the lock became available.
InterruptReachesWaiter ==
    \A t \in Threads :
        t \in intr /\ pc[t] \in {"wait", "asleep"}
            ~> t \notin intr \/ pc[t] \in {"idle", "held"}

\* The abstract view: a thread between its call and its return is "in".  The
\* others see a release once it leaves the store buffer (unseen).
where == [t \in Threads |->
             CASE pc[t] = "held" -> "held"
               [] pc[t] \in {"idle", "reltest", "relwake"} -> "out"
               [] OTHER -> "in"]

\* A timed call with an infinite timeout is, to its caller, the untimed call.
call == [t \in Threads |-> Delegate(op[t])]

M == INSTANCE Mutex WITH Acquiring <- AcquireOps, Waiting <- WaitforOps,
                         Trying <- {"tryacquire"},
                         Failing <- Timed \cup Interruptible,
                         where <- where, call <- call,
                         Delayed <- TSO, unseen <- storebuf

\* The futex-based lock implements the abstract mutex: whoever takes it, or
\* returns from a waitfor, does so when no other thread holds it or has a
\* release on its way, and a try is refused only when another one does.
ImplementsMutex == M!Spec

=============================================================================
