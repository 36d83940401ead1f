-------------------------------- MODULE Once --------------------------------
(***************************************************************************)
(* Dee_once_t, the controller that lets exactly one thread run a block     *)
(* (include/deemon/util/once.h, src/deemon/runtime/lock.c): one word that  *)
(* is 0 while the block has not run, at least 1 while a thread runs it, at *)
(* least 2 once others may wait for that, and Completed or more after it   *)
(* has run.                                                                *)
(*                                                                         *)
(* Every atomic access to shared memory is an action of its own.           *)
(***************************************************************************)
EXTENDS Integers, FiniteSets, FutexQueue

CONSTANTS Threads,    \* the threads sharing the controller
          Ops,        \* the functions they may call
          Targets,    \* the threads that others may interrupt
          Completed,  \* _Dee_ONCE_COMPLETED_THRESHOLD
          MaxWaiting, \* bound: no increment takes the word beyond this while it runs
          MaxAborts   \* bound: how often the block may fail

ASSUME ThreadsAssumption == IsFiniteSet(Threads)
ASSUME OpsAssumption == Ops \subseteq {"begin", "begin_noint", "trybegin"}
ASSUME BoundAssumption == /\ Completed \in Nat /\ MaxWaiting \in Nat /\ MaxAborts \in Nat
                          /\ 2 <= MaxWaiting /\ MaxWaiting < Completed

VARIABLES oc_didrun, \* the word
          sleepers,  \* threads asleep on the futex at oc_didrun
          pc,        \* where each thread is in the code
          op,        \* the function each thread is in
          state,     \* each thread's local of that name
          ret,       \* what each thread's last call returned, Nothing inside one
          intr,      \* threads with a pending interrupt
          aborts,    \* how often the block has failed
          committed  \* history: has the block run to its end?

vars == <<oc_didrun, sleepers, pc, op, state, ret, intr, aborts, committed>>

Nothing == 2  \* no function returns it

PCs == {"idle", "read", "inc", "fix", "cas", "wait", "asleep", "reread",
        "run",      \* in the block
        "wakeall"}  \* has ended the block: about to call DeeFutex_WakeAll

Init == /\ oc_didrun = 0
        /\ sleepers = {}
        /\ pc = [t \in Threads |-> "idle"]
        /\ op \in [Threads -> Ops]
        /\ state = [t \in Threads |-> 0]
        /\ ret = [t \in Threads |-> Nothing]
        /\ intr = {}
        /\ aborts = 0
        /\ committed = FALSE

Goto(t, label) == pc' = [pc EXCEPT ![t] = label] /\ UNCHANGED ret

Return(t, value) == /\ pc' = [pc EXCEPT ![t] = "idle"]
                    /\ ret' = [ret EXCEPT ![t] = value]

-----------------------------------------------------------------------------
(* Dee_once_begin, Dee_once_begin_noint, Dee_once_trybegin *)

Call(t) ==
    /\ pc[t] = "idle"
    /\ \E o \in Ops : op' = [op EXCEPT ![t] = o]
    /\ pc' = [pc EXCEPT ![t] = "read"]
    /\ ret' = [ret EXCEPT ![t] = Nothing]
    /\ UNCHANGED <<oc_didrun, sleepers, state, intr, aborts, committed>>

\* The first look, with which every function begins.
Read(t) ==
    /\ pc[t] = "read"
    /\ IF oc_didrun >= Completed THEN Return(t, 0) ELSE Goto(t, "inc")
    /\ UNCHANGED <<oc_didrun, sleepers, op, state, intr, aborts, committed>>

\* Whoever has learned that another thread runs the block waits for its end, or
\* returns from Dee_once_trybegin.
OthersRun(t) ==
    IF op[t] = "trybegin" THEN Return(t, -1) ELSE Goto(t, "wait")

\* atomic_fetchinc(&self->oc_didrun), by which a thread takes on the block if
\* the old value is one of first.
FetchIncFrom(t, first) ==
    /\ pc[t] = "inc"
    /\ oc_didrun < MaxWaiting \/ oc_didrun >= Completed
    /\ oc_didrun' = oc_didrun + 1
    /\ state' = [state EXCEPT ![t] = oc_didrun + 1]
    /\ CASE oc_didrun >= Completed -> Goto(t, "fix")
         [] oc_didrun \in first -> /\ pc' = [pc EXCEPT ![t] = "run"]
                                   /\ ret' = [ret EXCEPT ![t] = 1]
         [] oc_didrun \notin first /\ oc_didrun < 2 -> OthersRun(t)
         [] OTHER -> Goto(t, "cas")
    /\ UNCHANGED <<sleepers, op, intr, aborts, committed>>

\* Mutant: whoever is not preceded by a waiting thread runs the block.
FetchInc_Joins(t) == FetchIncFrom(t, {0, 1})

FetchInc(t) == FetchIncFrom(t, {0})

\* The block was finished in the meantime: take the increment back.
Fix(t) ==
    /\ pc[t] = "fix"
    /\ oc_didrun' = Completed
    /\ Return(t, 0)
    /\ UNCHANGED <<sleepers, op, state, intr, aborts, committed>>

\* Mutant: an atomic write instead of the compare-exchange.
CmpXch_Blind(t) ==
    /\ pc[t] = "cas"
    /\ oc_didrun' = 2
    /\ state' = [state EXCEPT ![t] = 2]
    /\ OthersRun(t)
    /\ UNCHANGED <<sleepers, op, intr, aborts, committed>>

\* Threads were waiting already: bring the word back to 2 unless it has changed.
CmpXch(t) ==
    /\ pc[t] = "cas"
    /\ oc_didrun' = IF oc_didrun = state[t] THEN 2 ELSE oc_didrun
    /\ state' = [state EXCEPT ![t] = 2]
    /\ OthersRun(t)
    /\ UNCHANGED <<sleepers, op, intr, aborts, committed>>

\* DeeFutex_Wait32[NoInt] without an interrupt.
FutexWait(t) ==
    /\ pc[t] = "wait"
    /\ t \notin intr
    /\ IF oc_didrun = state[t] THEN sleepers' = sleepers \cup {t} /\ Goto(t, "asleep")
                               ELSE UNCHANGED sleepers /\ Goto(t, "reread")
    /\ UNCHANGED <<oc_didrun, op, state, intr, aborts, committed>>

\* DeeFutex_Wait32[NoInt] with an interrupt pending: wake everyone, handle it,
\* and leave with an exception or start over.
FutexInterrupted(t) ==
    /\ pc[t] = "wait"
    /\ t \in intr
    /\ intr' = intr \ {t}
    /\ sleepers' = WakeAll(sleepers)
    /\ \/ op[t] = "begin" /\ Return(t, -1)
       \/ UNCHANGED <<pc, ret>>
    /\ UNCHANGED <<oc_didrun, op, state, aborts, committed>>

Woken(t) ==
    /\ pc[t] = "asleep"
    /\ t \notin sleepers
    /\ Goto(t, "reread")
    /\ UNCHANGED <<oc_didrun, sleepers, op, state, intr, aborts, committed>>

\* Back from the wait: done from word done on, to be started again up to 1.
RereadDone(t, done) ==
    /\ pc[t] = "reread"
    /\ state' = [state EXCEPT ![t] = oc_didrun]
    /\ IF oc_didrun >= done THEN Return(t, 0)
       ELSE Goto(t, IF oc_didrun <= 1 THEN "inc" ELSE "wait")
    /\ UNCHANGED <<oc_didrun, sleepers, op, intr, aborts, committed>>

\* Mutant: who is woken while others wait takes the block for completed.
Reread_WokenIsDone(t) == RereadDone(t, 2)

Reread(t) == RereadDone(t, Completed)

-----------------------------------------------------------------------------
(* Dee_once_commit, Dee_once_abort *)

\* Exchange the word, then wake the threads that wait if there are any.
EndBlock(t, word, waited) ==
    /\ pc[t] = "run"
    /\ oc_didrun' = word
    /\ Goto(t, IF oc_didrun >= waited THEN "wakeall" ELSE "idle")
    /\ UNCHANGED <<sleepers, op, state, intr>>

\* Mutant: a single waiting thread is forgotten.
Commit_OffByOne(t) ==
    EndBlock(t, Completed, 3) /\ committed' = TRUE /\ UNCHANGED aborts

Commit(t) == EndBlock(t, Completed, 2) /\ committed' = TRUE /\ UNCHANGED aborts

\* Mutant: the same slip on the way out of a failed block.
Abort_OffByOne(t) == /\ aborts < MaxAborts
                     /\ EndBlock(t, 0, 3)
                     /\ aborts' = aborts + 1
                     /\ UNCHANGED committed

Abort(t) == /\ aborts < MaxAborts
            /\ EndBlock(t, 0, 2)
            /\ aborts' = aborts + 1
            /\ UNCHANGED committed

DoWakeAll(t) ==
    /\ pc[t] = "wakeall"
    /\ sleepers' = WakeAll(sleepers)
    /\ Goto(t, "idle")
    /\ UNCHANGED <<oc_didrun, op, state, intr, aborts, committed>>

-----------------------------------------------------------------------------
(* Interrupts, sent by other threads *)

Interrupt(t) ==
    /\ pc[t] \in {"wait", "asleep"}
    /\ t \in Targets \ intr
    /\ intr' = intr \cup {t}
    /\ UNCHANGED <<oc_didrun, sleepers, pc, op, state, ret, aborts, committed>>

WakeGlobal(t) ==
    /\ t \in intr
    /\ t \in sleepers
    /\ sleepers' = WakeAll(sleepers)
    /\ UNCHANGED <<oc_didrun, pc, op, state, ret, intr, aborts, committed>>

-----------------------------------------------------------------------------

Step(t) == \/ Read(t) \/ FetchInc(t) \/ Fix(t) \/ CmpXch(t)
           \/ FutexWait(t) \/ FutexInterrupted(t) \/ Woken(t) \/ Reread(t)
           \/ Commit(t) \/ Abort(t) \/ DoWakeAll(t)

Next == \E t \in Threads : Call(t) \/ Step(t) \/ Interrupt(t) \/ WakeGlobal(t)

Spec == Init /\ [][Next]_vars

\* A thread inside a call keeps running, a block ends in some way, and an
\* interrupter goes on until its target has left the futex.
Fairness == \A t \in Threads : WF_vars(Step(t)) /\ WF_vars(WakeGlobal(t))

FairSpec == Spec /\ Fairness

-----------------------------------------------------------------------------
(* Properties *)

\* Every variable has its type; late increments of a completed word do not add
\* up (they would end in a wrap to 0), because each thread takes its own back.
TypeOK == /\ oc_didrun \in 0 .. MaxWaiting
                             \cup Completed .. Completed + Cardinality(Threads)
          /\ sleepers \subseteq Threads
          /\ pc \in [Threads -> PCs]
          /\ op \in [Threads -> Ops]
          /\ state \in [Threads -> Nat]
          /\ ret \in [Threads -> -1 .. 2]
          /\ intr \subseteq Threads
          /\ aborts \in 0 .. MaxAborts
          /\ committed \in BOOLEAN

Runners == {t \in Threads : pc[t] = "run"}

\* The block is run by one thread at a time, and by none once it has been
\* committed.
RunsOnce == /\ \A t, u \in Runners : t = u
            /\ committed => Runners = {}

\* The word tells the truth: 0 while nobody runs the block, Completed and more
\* if and only if it was committed, whatever late increments do to it.
WordExact == /\ oc_didrun = 0 <=> Runners = {} /\ ~committed
             /\ oc_didrun >= Completed <=> committed

\* A caller is told that the block was executed only if it was.
ZeroMeansDone == \A t \in Threads : ret[t] = 0 => committed

\* No lost wake-up: threads sleep only while somebody runs the block and can
\* see that they do, or is about to wake them.
NoLostWakeup ==
    sleepers # {} => \/ oc_didrun >= 2 /\ Runners # {}
                     \/ \E t \in Threads : pc[t] = "wakeall"

\* Once the block was committed, everyone inside a call returns who is not
\* interrupted over and over.
CallsReturn ==
    \A t \in Threads : <>[](committed /\ t \notin intr) => []<>(pc[t] = "idle")

=============================================================================
