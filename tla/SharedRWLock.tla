---------------------------- MODULE SharedRWLock ----------------------------
(***************************************************************************)
(* Dee_shared_rwlock_t, the scheduler-level read/write lock of the deemon  *)
(* runtime (include/deemon/util/lock.h, src/deemon/runtime/lock.c): one    *)
(* word (0 free, n > 0 readers, -1 a writer) that readers and writers      *)
(* sleep on, and one waitword for each of the two kinds.                   *)
(*                                                                         *)
(* Every atomic access to shared memory is an action of its own.           *)
(***************************************************************************)
EXTENDS Integers, FiniteSets, FutexQueue

CONSTANTS Threads,  \* the threads sharing the lock
          Ops,      \* the operations they may call
          Targets   \* the threads that others may interrupt

\* An operation reads or writes, takes the lock or only waits until it could,
\* has a timeout ("once" is a try, "inf" the special value (uint64_t)-1), and
\* its wait may be left through an exception or not.
Operations == [mode : {"read", "write"}, take : BOOLEAN,
               tmo : {"none", "once", "finite", "inf"}, int : BOOLEAN]

ASSUME ThreadsAssumption == IsFiniteSet(Threads)
ASSUME OpsAssumption == Ops \subseteq Operations

VARIABLES arw_lock,  \* the lock word
          waiting,   \* waiting["read"] is srw_rwaiting, waiting["write"] srw_wwaiting
          sleepers,  \* threads asleep on the futex at arw_lock
          pc,        \* where each thread is in the code
          op,        \* the operation each thread is in
          expected,  \* the value of arw_lock each thread wants to sleep on
          err,       \* result of a thread's last futex wait: 0, 1 timeout, 2 exception
          intr,      \* threads with a pending interrupt
          resume     \* where each thread goes once it has woken others

vars == <<arw_lock, waiting, sleepers, pc, op, expected, err, intr, resume>>

Writing == -1  \* (uintptr_t)-1

PCs == {"idle", "try", "cas", "retry", "recas", "start", "wait", "asleep", "end",
        "reading",  \* holds a read lock
        "writing",  \* holds the write lock
        "upgrade",  \* holds a read lock that it failed to upgrade
        "wake",     \* let go of the lock: about to test srw_rwaiting
        "wakew",    \* saw no readers: about to test srw_wwaiting
        "wakeone",  \* about to call DeeFutex_WakeOne
        "wakeread", \* about to test srw_rwaiting (again)
        "wakeall"}  \* about to call DeeFutex_WakeAll

WakePCs == {"wake", "wakew", "wakeone", "wakeread", "wakeall"}

Init == /\ arw_lock = 0
        /\ waiting = [m \in {"read", "write"} |-> 0]
        /\ sleepers = {}
        /\ pc = [t \in Threads |-> "idle"]
        /\ op \in [Threads -> Ops]
        /\ expected = [t \in Threads |-> 0]
        /\ err = [t \in Threads |-> 0]
        /\ intr = {}
        /\ resume = [t \in Threads |-> "idle"]

Goto(t, label) == pc' = [pc EXCEPT ![t] = label]

-----------------------------------------------------------------------------
(* Acquiring and waiting *)

Call(t) ==
    /\ pc[t] = "idle"
    /\ \E o \in Ops : op' = [op EXCEPT ![t] = o]
    /\ Goto(t, "try")
    /\ UNCHANGED <<arw_lock, waiting, sleepers, expected, err, intr, resume>>

\* With an infinite timeout the timed functions hand over to the untimed ones;
\* Dee_shared_rwlock_waitread_timed hands over to Dee_shared_rwlock_read,
\* which takes the lock.
Delegate(o) ==
    IF o.tmo # "inf" THEN o
    ELSE [o EXCEPT !.tmo = "none", !.take = o.take \/ o.mode = "read"]

\* Where a thread may go on that was refused the lock.
AfterRefused(t) ==
    CASE op[t].tmo = "once" -> {"idle"}
      [] op[t].tmo = "inf" -> {"try"}
      [] op[t].tmo = "finite" /\ pc[t] \in {"retry", "recas"} -> {"start", "idle"}
      [] OTHER -> {"start"}

\* The thread was refused while the lock word had the given value.
Refused(t, word) ==
    /\ \E label \in AfterRefused(t) : Goto(t, label)
    /\ op' = [op EXCEPT ![t] = Delegate(op[t])]
    /\ expected' = [expected EXCEPT ![t] = word]

\* Dee_shared_rwlock_tryread, or Dee_shared_rwlock_canread of a waitread.
TryRead(t) ==
    /\ pc[t] \in {"try", "retry"}
    /\ op[t].mode = "read"
    /\ IF arw_lock # Writing
       THEN /\ arw_lock' = IF op[t].take THEN arw_lock + 1 ELSE arw_lock
            /\ Goto(t, IF op[t].take THEN "reading" ELSE "idle")
            /\ UNCHANGED <<op, expected, resume>>
       ELSE Refused(t, Writing) /\ UNCHANGED arw_lock
    /\ UNCHANGED <<waiting, sleepers, err, intr, resume>>

\* A writer loads the lock word; if it is free, a compare-exchange follows.
LoadWord(t) ==
    /\ pc[t] \in {"try", "retry"}
    /\ op[t].mode = "write"
    /\ IF arw_lock = 0
       THEN /\ Goto(t, IF ~op[t].take THEN "idle"
                       ELSE IF pc[t] = "try" THEN "cas" ELSE "recas")
            /\ UNCHANGED <<op, expected, resume>>
       ELSE Refused(t, arw_lock)
    /\ UNCHANGED <<arw_lock, waiting, sleepers, err, intr, resume>>

\* The compare-exchange of 0 by -1.  Whoever gives up on it goes on as if it
\* had loaded the word 0; everyone else loads the word again.
CmpXchElse(t, givesup) ==
    /\ pc[t] \in {"cas", "recas"}
    /\ IF arw_lock = 0
       THEN /\ arw_lock' = Writing
            /\ Goto(t, "writing")
            /\ UNCHANGED <<op, expected>>
       ELSE /\ IF givesup THEN Refused(t, 0)
                          ELSE Goto(t, "try") /\ UNCHANGED <<op, expected>>
            /\ UNCHANGED arw_lock
    /\ UNCHANGED <<waiting, sleepers, err, intr, resume>>

\* A try gives up, and so does the loop of Dee_shared_rwlock_write_timed, which
\* then waits on the word it has loaded before.
CmpXch(t) ==
    CmpXchElse(t, op[t].tmo = "once" \/ (pc[t] = "recas" /\ op[t].tmo = "finite"))

\* _Dee_shared_rwlock_rwaiting_start / _Dee_shared_rwlock_wwaiting_start
WaitingStart(t) ==
    /\ pc[t] = "start"
    /\ waiting' = [waiting EXCEPT ![op[t].mode] = @ + 1]
    /\ Goto(t, "wait")
    /\ UNCHANGED <<arw_lock, sleepers, op, expected, err, intr, resume>>

\* DeeFutex_WaitPtr* without an interrupt: the thread sleeps if the word is as
\* expected.  It may come back at once even then, after a wake-up for the
\* controller it shares with others.
FutexWait(t) ==
    /\ pc[t] = "wait"
    /\ t \notin intr
    /\ \/ /\ arw_lock = expected[t]
          /\ sleepers' = sleepers \cup {t}
          /\ Goto(t, "asleep")
       \/ /\ UNCHANGED sleepers
          /\ Goto(t, "end")
    /\ UNCHANGED <<arw_lock, waiting, op, expected, err, intr, resume>>

\* DeeFutex_WaitPtr* with an interrupt pending: wake everyone, handle it, and
\* leave with an exception or start over.
FutexInterrupted(t) ==
    /\ pc[t] = "wait"
    /\ t \in intr
    /\ intr' = intr \ {t}
    /\ sleepers' = WakeAll(sleepers)
    /\ \/ /\ op[t].int
          /\ err' = [err EXCEPT ![t] = 2]
          /\ Goto(t, "end")
       \/ UNCHANGED <<pc, err>>
    /\ UNCHANGED <<arw_lock, waiting, op, expected, resume>>

Woken(t) ==
    /\ pc[t] = "asleep"
    /\ t \notin sleepers
    /\ Goto(t, "end")
    /\ UNCHANGED <<arw_lock, waiting, sleepers, op, expected, err, intr, resume>>

TimedOut(t) ==
    /\ pc[t] = "asleep"
    /\ t \in sleepers
    /\ op[t].tmo = "finite"
    /\ sleepers' = sleepers \ {t}
    /\ err' = [err EXCEPT ![t] = 1]
    /\ Goto(t, "end")
    /\ UNCHANGED <<arw_lock, waiting, op, expected, intr, resume>>

\* A thread back from its wait takes n off the given waitword (its locals
\* lockword and error end here).
EndWait(t, mode, n) ==
    /\ pc[t] = "end"
    /\ waiting' = [waiting EXCEPT ![mode] = @ - n]
    /\ Goto(t, IF err[t] = 0 THEN "retry" ELSE "idle")
    /\ err' = [err EXCEPT ![t] = 0]
    /\ expected' = [expected EXCEPT ![t] = 0]
    /\ UNCHANGED <<arw_lock, sleepers, op, intr, resume>>

\* Mutant: the error path leaks an increment.
WaitingEnd_LeakOnError(t) == EndWait(t, op[t].mode, IF err[t] = 0 THEN 1 ELSE 0)

\* _Dee_shared_rwlock_rwaiting_end / _Dee_shared_rwlock_wwaiting_end
WaitingEnd(t) == EndWait(t, op[t].mode, 1)

-----------------------------------------------------------------------------
(* Releasing, upgrading, downgrading *)

\* Store the lock word, then do what label says and go on at the given place.
Release(t, word, label, then) ==
    /\ arw_lock' = word
    /\ Goto(t, label)
    /\ resume' = [resume EXCEPT ![t] = IF label = then THEN "idle" ELSE then]
    /\ UNCHANGED <<waiting, sleepers, op, expected, err, intr>>

\* A reader lets go: the last one wakes waiting threads.
DropRead(t, then) ==
    Release(t, arw_lock - 1, IF arw_lock = 1 THEN "wake" ELSE then, then)

\* Mutant: the last reader forgets to wake.
EndRead_NoWake(t) == pc[t] = "reading" /\ Release(t, arw_lock - 1, "idle", "idle")

\* Dee_shared_rwlock_endread
EndRead(t) == pc[t] = "reading" /\ DropRead(t, "idle")

\* Dee_shared_rwlock_endwrite
EndWrite(t) == pc[t] = "writing" /\ Release(t, 0, "wake", "idle")

\* Mutants: the word is left free for a moment on the way to a read lock; the
\* waiting readers are forgotten.
Downgrade_ToFree(t) == pc[t] = "writing" /\ Release(t, 0, "wakeread", "reading")
Downgrade_NoWake(t) == pc[t] = "writing" /\ Release(t, 1, "reading", "reading")

\* Dee_shared_rwlock_downgrade: stores 1 and lets waiting readers in.
Downgrade(t) == pc[t] = "writing" /\ Release(t, 1, "wakeread", "reading")

\* Mutant: an upgrade that does not care about other readers.
TryUpgrade_Blind(t) ==
    /\ pc[t] = "reading"
    /\ arw_lock' = Writing
    /\ Goto(t, "writing")
    /\ UNCHANGED <<waiting, sleepers, op, expected, err, intr, resume>>

\* Dee_shared_rwlock_tryupgrade: only the sole reader succeeds.  A failed try
\* changes nothing.  Dee_shared_rwlock_upgrade goes on to drop the lock.
TryUpgrade(t) ==
    /\ pc[t] = "reading"
    /\ IF arw_lock = 1 THEN arw_lock' = Writing /\ Goto(t, "writing")
                       ELSE UNCHANGED arw_lock /\ Goto(t, "upgrade")
    /\ UNCHANGED <<waiting, sleepers, op, expected, err, intr, resume>>

\* The rest of Dee_shared_rwlock_upgrade[_noint]: endread, then write[_noint].
UpgradeDrop(t) ==
    /\ pc[t] = "upgrade"
    /\ op' = [op EXCEPT ![t] = [mode |-> "write", take |-> TRUE, tmo |-> "none",
                                int |-> op[t].int]]
    /\ arw_lock' = arw_lock - 1
    /\ Goto(t, IF arw_lock = 1 THEN "wake" ELSE "try")
    /\ resume' = [resume EXCEPT ![t] = IF arw_lock = 1 THEN "try" ELSE "idle"]
    /\ UNCHANGED <<waiting, sleepers, expected, err, intr>>

\* A thread is done with waking others.
Finish(t) == Goto(t, resume[t]) /\ resume' = [resume EXCEPT ![t] = "idle"]

\* The tests of _Dee_shared_rwlock_wake and _Dee_shared_rwlock_wakeread.
Test(t, label, mode, yes) ==
    /\ pc[t] = label
    /\ IF waiting[mode] # 0 THEN Goto(t, yes) /\ UNCHANGED resume ELSE Finish(t)
    /\ UNCHANGED <<arw_lock, waiting, sleepers, op, expected, err, intr>>

WakeWriters(t) == Test(t, "wakew", "write", "wakeone")
WakeRead(t)    == Test(t, "wakeread", "read", "wakeall")

\* Mutant: waiting writers are not looked for.
Wake_ReadersOnly(t) == Test(t, "wake", "read", "wakeall")

\* The first test of _Dee_shared_rwlock_wake.
Wake(t) ==
    /\ pc[t] = "wake"
    /\ Goto(t, IF waiting["read"] # 0 THEN "wakeall" ELSE "wakew")
    /\ UNCHANGED <<arw_lock, waiting, sleepers, op, expected, err, intr, resume>>

DoWakeOne(t) ==
    /\ pc[t] = "wakeone"
    /\ sleepers' \in WakeOne(sleepers)
    /\ Goto(t, "wakeread")
    /\ UNCHANGED <<arw_lock, waiting, op, expected, err, intr, resume>>

DoWakeAll(t) ==
    /\ pc[t] = "wakeall"
    /\ sleepers' = WakeAll(sleepers)
    /\ Finish(t)
    /\ UNCHANGED <<arw_lock, waiting, op, expected, err, intr>>

-----------------------------------------------------------------------------
(* Interrupts, sent by other threads *)

\* An interrupt that is sent earlier is noticed at the next wait all the same.
Interrupt(t) ==
    /\ pc[t] \in {"wait", "asleep"}
    /\ t \in Targets \ intr
    /\ intr' = intr \cup {t}
    /\ UNCHANGED <<arw_lock, waiting, sleepers, pc, op, expected, err, resume>>

\* The interrupter wakes everyone its target may be asleep with.
WakeGlobal(t) ==
    /\ t \in intr
    /\ t \in sleepers
    /\ sleepers' = WakeAll(sleepers)
    /\ UNCHANGED <<arw_lock, waiting, pc, op, expected, err, intr, resume>>

-----------------------------------------------------------------------------

Step(t) == \/ TryRead(t) \/ LoadWord(t) \/ CmpXch(t)
           \/ WaitingStart(t) \/ FutexWait(t) \/ FutexInterrupted(t)
           \/ Woken(t) \/ TimedOut(t) \/ WaitingEnd(t)
           \/ UpgradeDrop(t)
           \/ Wake(t) \/ WakeWriters(t) \/ WakeRead(t) \/ DoWakeOne(t) \/ DoWakeAll(t)

Next == \E t \in Threads :
            \/ Call(t) \/ Step(t)
            \/ EndRead(t) \/ EndWrite(t) \/ Downgrade(t) \/ TryUpgrade(t)
            \/ Interrupt(t) \/ WakeGlobal(t)

Spec == Init /\ [][Next]_vars

\* A thread inside a call keeps running, a writer lets go in the end, and an
\* interrupter goes on until its target has left the futex.
Fairness == /\ \A t \in Threads : WF_vars(Step(t) \/ EndWrite(t) \/ Downgrade(t))
            /\ \A t \in Targets : WF_vars(WakeGlobal(t))

FairSpec == Spec /\ Fairness

-----------------------------------------------------------------------------
(* Properties *)

\* Every variable has its type; no waitword drops below zero, and a reader
\* count never runs into the writer's -1.
TypeOK == /\ arw_lock \in Int /\ arw_lock >= Writing
          /\ waiting \in [{"read", "write"} -> Nat]
          /\ sleepers \subseteq Threads
          /\ pc \in [Threads -> PCs]
          /\ op \in [Threads -> Operations]
          /\ expected \in [Threads -> Int]
          /\ err \in [Threads -> {0, 1, 2}]
          /\ intr \subseteq Threads
          /\ resume \in [Threads -> {"idle", "try", "reading"}]

\* Threads that hold a read lock: those a downgrade lets wake others first too.
Readers == {t \in Threads : \/ pc[t] \in {"reading", "upgrade"}
                            \/ pc[t] \in WakePCs /\ resume[t] = "reading"}
Writers == {t \in Threads : pc[t] = "writing"}

\* A writer shares the lock with nobody, whatever upgrades, downgrades,
\* timeouts and interrupts happen around it.
Exclusion == \A t \in Writers : Writers = {t} /\ Readers = {}

\* The lock word tells who holds the lock: -1 for a writer, else the number of
\* readers.
WordExact == arw_lock = IF Writers # {} THEN Writing ELSE Cardinality(Readers)

Waiters(mode) ==
    {t \in Threads : pc[t] \in {"wait", "asleep", "end"} /\ op[t].mode = mode}

\* Each waitword counts its own kind of waiting thread.
WaitwordsExact ==
    \A mode \in {"read", "write"} : waiting[mode] = Cardinality(Waiters(mode))

\* Threads that will take the lock, or have taken it, once they run: each of
\* them comes by _Dee_shared_rwlock_wake later.
Contenders ==
    {t \in Threads : /\ op[t].take
                     /\ \/ pc[t] \in {"try", "cas", "retry", "recas"}
                        \/ pc[t] = "asleep" /\ t \notin sleepers
                        \/ pc[t] = "end" /\ err[t] = 0}

\* No lost wake-up: while the lock is free and somebody sleeps on it, someone is
\* about to wake sleepers or to contend for the lock; and while readers may
\* enter, a sleeping reader is about to be woken.
NoLostWakeup ==
    /\ arw_lock = 0 /\ sleepers # {} =>
          \E t \in Threads : pc[t] \in WakePCs \/ t \in Contenders
    /\ arw_lock # Writing /\ (\E t \in sleepers : op[t].mode = "read") =>
          \E t \in Threads : pc[t] \in WakePCs

\* The lock does not stay free with somebody asleep on it.
SleepersNotAbandoned ==
    arw_lock = 0 /\ sleepers # {} ~> arw_lock # 0 \/ sleepers = {}

\* A sleeping reader wakes up, even if writers keep coming: every writer that
\* ends or downgrades wakes all of them.
ReadersWake ==
    \A t \in Threads : t \in sleepers /\ op[t].mode = "read" ~> t \notin sleepers

=============================================================================
