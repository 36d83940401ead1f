----------------------------- MODULE Semaphore ------------------------------
(***************************************************************************)
(* Dee_semaphore_t, the counting semaphore of the deemon runtime           *)
(* (include/deemon/util/lock.h, src/deemon/runtime/lock.c): a number of    *)
(* tickets that threads sleep on while it is 0, and a waitword.            *)
(*                                                                         *)
(* Every atomic access to shared memory is an action of its own.           *)
(***************************************************************************)
EXTENDS Integers, FiniteSets, FutexQueue

CONSTANTS Threads,   \* the threads sharing the semaphore
          Ops,       \* the operations they may call
          Targets,   \* the threads that others may interrupt
          Batches,   \* how many tickets may be released at a time
          MaxTickets \* bound: nobody releases beyond this many

\* An operation takes a ticket or only waits for there to be one, has a timeout
\* ("once" is a try, "inf" the special value (uint64_t)-1), and its wait may be
\* left through an exception or not.
Operations == [take : BOOLEAN, tmo : {"none", "once", "finite", "inf"}, int : BOOLEAN]

ASSUME ThreadsAssumption == IsFiniteSet(Threads)
ASSUME OpsAssumption == Ops \subseteq Operations
ASSUME BatchesAssumption == Batches \subseteq Nat /\ MaxTickets \in Nat

VARIABLES se_tickets, \* the tickets
          se_waiting, \* the waitword
          sleepers,   \* threads asleep on the futex at se_tickets
          pc,         \* where each thread is in the code
          op,         \* the operation each thread is in
          temp,       \* each thread's local of that name
          err,        \* result of a thread's last futex wait: 0, 1 timeout, 2 exception
          intr,       \* threads with a pending interrupt
          asked,      \* history: did the thread's last call ask for a ticket?
          balance     \* history: tickets released, less those that acquires reported

vars == <<se_tickets, se_waiting, sleepers, pc, op, temp, err, intr, asked, balance>>

PCs == {"idle", "try", "cas", "retry", "recas", "start", "wait", "asleep", "end",
        "test1", "testn",      \* has added tickets: about to test se_waiting
        "wakeone", "wakeall"}  \* about to call DeeFutex_WakeOne / DeeFutex_WakeAll

WakePCs == {"test1", "testn", "wakeone", "wakeall"}

Init == /\ se_tickets \in 0 .. MaxTickets
        /\ se_waiting = 0
        /\ sleepers = {}
        /\ pc = [t \in Threads |-> "idle"]
        /\ op \in [Threads -> Ops]
        /\ temp = [t \in Threads |-> 0]
        /\ err = [t \in Threads |-> 0]
        /\ intr = {}
        /\ asked = [t \in Threads |-> FALSE]
        /\ balance = se_tickets

Goto(t, label) == pc' = [pc EXCEPT ![t] = label] /\ UNCHANGED balance

\* A call returns 0: it reports a ticket if it was asked for one.
Succeed(t) == /\ pc' = [pc EXCEPT ![t] = "idle"]
              /\ balance' = IF asked[t] THEN balance - 1 ELSE balance

-----------------------------------------------------------------------------
(* Acquiring and waiting *)

Call(t) ==
    /\ pc[t] = "idle"
    /\ \E o \in Ops : /\ op' = [op EXCEPT ![t] = o]
                      /\ asked' = [asked EXCEPT ![t] = o.take]
    /\ Goto(t, "try")
    /\ UNCHANGED <<se_tickets, se_waiting, sleepers, temp, err, intr>>

\* With an infinite timeout the timed functions hand over to
\* Dee_semaphore_waitfor, and so does Dee_semaphore_acquire_timed.
Delegate(o) == IF o.tmo # "inf" THEN o ELSE [o EXCEPT !.tmo = "none", !.take = FALSE]

\* Where a thread may go on that found no ticket.
AfterRefused(t) ==
    CASE op[t].tmo = "once" -> {"idle"}
      [] op[t].tmo = "inf" -> {"try"}
      [] op[t].tmo = "finite" /\ pc[t] = "retry" -> {"start", "idle"}
      [] OTHER -> {"start"}

\* The load of se_tickets with which every attempt begins.
Load(t) ==
    /\ pc[t] \in {"try", "retry"}
    /\ IF se_tickets = 0
       THEN /\ \E label \in AfterRefused(t) : Goto(t, label)
            /\ op' = [op EXCEPT ![t] = Delegate(op[t])]
            /\ UNCHANGED temp
       ELSE /\ IF op[t].take THEN /\ Goto(t, IF pc[t] = "try" THEN "cas" ELSE "recas")
                                  /\ temp' = [temp EXCEPT ![t] = se_tickets]
                             ELSE Succeed(t) /\ UNCHANGED temp
            /\ UNCHANGED op
    /\ UNCHANGED <<se_tickets, se_waiting, sleepers, err, intr, asked>>

\* The compare-exchange of temp by temp - 1; whoever fails loads again.
CmpXchIf(t, equal, tickets) ==
    /\ pc[t] \in {"cas", "recas"}
    /\ IF equal THEN se_tickets' = tickets /\ Succeed(t)
                ELSE /\ Goto(t, IF pc[t] = "cas" THEN "try" ELSE "retry")
                     /\ UNCHANGED se_tickets
    /\ temp' = [temp EXCEPT ![t] = 0]
    /\ UNCHANGED <<se_waiting, sleepers, op, err, intr, asked>>

\* Mutant: a plain store of the decremented value.
CmpXch_Store(t) == CmpXchIf(t, TRUE, temp[t] - 1)

CmpXch(t) == CmpXchIf(t, se_tickets = temp[t], temp[t] - 1)

\* _Dee_semaphore_waiting_start
WaitingStart(t) ==
    /\ pc[t] = "start"
    /\ se_waiting' = se_waiting + 1
    /\ Goto(t, "wait")
    /\ UNCHANGED <<se_tickets, sleepers, op, temp, err, intr, asked>>

\* DeeFutex_WaitPtr*(&self->se_tickets, 0) without an interrupt: the thread
\* sleeps if there is no ticket.  It may come back at once even then, after a
\* wake-up for the controller it shares with others.
FutexWait(t) ==
    /\ pc[t] = "wait"
    /\ t \notin intr
    /\ \/ se_tickets = 0 /\ sleepers' = sleepers \cup {t} /\ Goto(t, "asleep")
       \/ UNCHANGED sleepers /\ Goto(t, "end")
    /\ UNCHANGED <<se_tickets, se_waiting, op, temp, err, intr, asked>>

\* DeeFutex_WaitPtr* with an interrupt pending: wake everyone, handle it, and
\* leave with an exception or start over.
FutexInterrupted(t) ==
    /\ pc[t] = "wait"
    /\ t \in intr
    /\ intr' = intr \ {t}
    /\ sleepers' = WakeAll(sleepers)
    /\ \/ op[t].int /\ err' = [err EXCEPT ![t] = 2] /\ Goto(t, "end")
       \/ UNCHANGED <<pc, err, balance>>
    /\ UNCHANGED <<se_tickets, se_waiting, op, temp, asked>>

Woken(t) ==
    /\ pc[t] = "asleep"
    /\ t \notin sleepers
    /\ Goto(t, "end")
    /\ UNCHANGED <<se_tickets, se_waiting, sleepers, op, temp, err, intr, asked>>

TimedOut(t) ==
    /\ pc[t] = "asleep"
    /\ t \in sleepers
    /\ op[t].tmo = "finite"
    /\ sleepers' = sleepers \ {t}
    /\ err' = [err EXCEPT ![t] = 1]
    /\ Goto(t, "end")
    /\ UNCHANGED <<se_tickets, se_waiting, op, temp, intr, asked>>

\* A thread back from its wait takes n off the waitword.
EndWait(t, n) ==
    /\ pc[t] = "end"
    /\ se_waiting' = se_waiting - n
    /\ Goto(t, IF err[t] = 0 THEN "retry" ELSE "idle")
    /\ err' = [err EXCEPT ![t] = 0]
    /\ UNCHANGED <<se_tickets, sleepers, op, temp, intr, asked>>

\* Mutant: the error path leaks an increment.
WaitingEnd_LeakOnError(t) == EndWait(t, IF err[t] = 0 THEN 1 ELSE 0)

\* _Dee_semaphore_waiting_end
WaitingEnd(t) == EndWait(t, 1)

-----------------------------------------------------------------------------
(* Dee_semaphore_release[_ex][_n] *)

\* Add the tickets, then see whom to wake.
ReleaseThen(t, n, label) ==
    /\ pc[t] = "idle"
    /\ se_tickets + n <= MaxTickets
    /\ se_tickets' = se_tickets + n
    /\ balance' = balance + n
    /\ pc' = [pc EXCEPT ![t] = label]
    /\ UNCHANGED <<se_waiting, sleepers, op, temp, err, intr, asked>>

\* Mutant: however many tickets are released, one thread is woken.
Release_WakesOne(t, n) == ReleaseThen(t, n, "test1")

Release(t, n) == ReleaseThen(t, n, IF n <= 1 THEN "test1" ELSE "testn")

\* The test of _Dee_semaphore_waiting_wakeone / _Dee_semaphore_waiting_wakemany.
WakeTestFrom(t, least) ==
    /\ pc[t] \in {"test1", "testn"}
    /\ Goto(t, IF se_waiting < least THEN "idle"
               ELSE IF pc[t] = "test1" THEN "wakeone" ELSE "wakeall")
    /\ UNCHANGED <<se_tickets, se_waiting, sleepers, op, temp, err, intr, asked>>

\* Mutant: a single waiting thread is forgotten.
WakeTest_OffByOne(t) == WakeTestFrom(t, 2)

WakeTest(t) == WakeTestFrom(t, 1)

Wake(t) ==
    /\ pc[t] \in {"wakeone", "wakeall"}
    /\ sleepers' \in IF pc[t] = "wakeone" THEN WakeOne(sleepers) ELSE {WakeAll(sleepers)}
    /\ Goto(t, "idle")
    /\ UNCHANGED <<se_tickets, se_waiting, op, temp, err, intr, asked>>

-----------------------------------------------------------------------------
(* Interrupts, sent by other threads *)

Interrupt(t) ==
    /\ pc[t] \in {"wait", "asleep"}
    /\ t \in Targets \ intr
    /\ intr' = intr \cup {t}
    /\ UNCHANGED <<se_tickets, se_waiting, sleepers, pc, op, temp, err, asked, balance>>

WakeGlobal(t) ==
    /\ t \in intr
    /\ t \in sleepers
    /\ sleepers' = WakeAll(sleepers)
    /\ UNCHANGED <<se_tickets, se_waiting, pc, op, temp, err, intr, asked, balance>>

-----------------------------------------------------------------------------

Step(t) == \/ Load(t) \/ CmpXch(t)
           \/ WaitingStart(t) \/ FutexWait(t) \/ FutexInterrupted(t)
           \/ Woken(t) \/ TimedOut(t) \/ WaitingEnd(t)
           \/ WakeTest(t) \/ Wake(t)

Next == \E t \in Threads : \/ Call(t) \/ Step(t)
                           \/ \E n \in Batches : Release(t, n)
                           \/ Interrupt(t) \/ WakeGlobal(t)

Spec == Init /\ [][Next]_vars

\* A thread inside a call keeps running, and an interrupter goes on until its
\* target has left the futex.  Nobody is obliged to release tickets.
Fairness == \A t \in Threads : WF_vars(Step(t)) /\ WF_vars(WakeGlobal(t))

FairSpec == Spec /\ Fairness

-----------------------------------------------------------------------------
(* Properties *)

\* Every variable has its type: the number of tickets never drops below 0,
\* where it would wrap to SIZE_MAX, and neither does the waitword.
TypeOK == /\ se_tickets \in 0 .. MaxTickets
          /\ se_waiting \in Nat
          /\ sleepers \subseteq Threads
          /\ pc \in [Threads -> PCs]
          /\ op \in [Threads -> Operations]
          /\ temp \in [Threads -> 0 .. MaxTickets]
          /\ err \in [Threads -> {0, 1, 2}]
          /\ intr \subseteq Threads
          /\ asked \in [Threads -> BOOLEAN]
          /\ balance \in Int

\* A ticket is handed out once: the tickets left are those released less those
\* that acquiring calls have reported.
TicketsConserved == se_tickets = balance

Waiters == {t \in Threads : pc[t] \in {"wait", "asleep", "end"}}

\* The waitword counts the waiting threads on every path out of the wait.
WaitwordExact == se_waiting = Cardinality(Waiters)

\* Threads that will try to take a ticket once they run.
Contenders ==
    {t \in Threads : /\ op[t].take
                     /\ \/ pc[t] \in {"try", "cas", "retry", "recas"}
                        \/ pc[t] = "asleep" /\ t \notin sleepers
                        \/ pc[t] = "end" /\ err[t] = 0}

\* No lost wake-up: while threads sleep, each ticket that is left has a thread
\* of its own that is about to contend for it or to wake a sleeper for it.
NoLostWakeup ==
    sleepers = {} \/ \/ \E t \in Threads : pc[t] \in {"testn", "wakeall"}
                     \/ se_tickets <= Cardinality(
                            Contenders \cup {t \in Threads : pc[t] \in WakePCs})

\* Tickets are not left lying around with somebody asleep on the semaphore.
SleepersNotAbandoned ==
    se_tickets > 0 /\ sleepers # {} ~> se_tickets = 0 \/ sleepers = {}

=============================================================================
