---------------------------- MODULE ThreadState -----------------------------
(***************************************************************************)
(* The state word of a thread and what is done with it: starting a thread, *)
(* sending interrupts, handling them, terminating and waiting for the end  *)
(* (include/deemon/thread.h, src/deemon/runtime/thread.c).  t_state is a   *)
(* word of flags that is at once a lock (INTERRUPTING guards t_interrupt), *)
(* a message ("there may be interrupts") and a futex that starters,        *)
(* senders and joiners sleep on.                                           *)
(*                                                                         *)
(* Every atomic access to shared memory is an action of its own.           *)
(***************************************************************************)
EXTENDS Naturals, Sequences, FiniteSets

CONSTANTS Callers,   \* threads that run throughout, such as the main thread
          Workers,   \* threads that are started and that end
          Calls,     \* who may call what on whom: <<function, caller, target>>
          MaxSent    \* bound on the number of interrupts sent to each thread

Threads == Callers \cup Workers

ASSUME DistinctAssumption == Callers \cap Workers = {}
ASSUME CallsAssumption ==
    Calls \subseteq    ({"start", "join"} \X Threads \X Workers)
                  \cup ({"interrupt"} \X Threads \X Threads)
ASSUME MaxSentAssumption == MaxSent \in [Threads -> Nat]

VARIABLES t_state,     \* the flags of each thread
          t_interrupt, \* the pending interrupts of each thread, first to last
          frame,       \* where each thread is in the code, and its local variables
          sleepers,    \* threads asleep on the futex at the state word of frame[t].me
          sent, taken  \* history: number of interrupts scheduled and handled

vars == <<t_state, t_interrupt, frame, sleepers, sent, taken>>

Flags == {"STARTING", "STARTED", "INTERRUPTING", "INTERRUPTED", "TERMINATING",
          "TERMINATED", "WAITING"}

\* A futex wait is left for the statement after it.
Back == [swait |-> "start", twait |-> "starting", jwait |-> "join", iwait |-> "icheck"]
WaitPCs == DOMAIN Back

\* The waits that handle interrupts.
IntPCs == {"swait", "jwait"}

\* A sender has taken INTERRUPTING of frame[t].me; has appended its interrupt but
\* not set the flag INTERRUPTED; watches t_int_vers.
HeldPCs == {"locked", "append", "refuse", "yield", "noroom", "unlock"}
UnannouncedPCs == {"unlock", "version", "flag"}
WatchPCs == {"flag", "iread", "imark", "iwait", "icheck"}

\* A thread has taken its own INTERRUPTING.
OwnPCs == {"pop", "popped", "terming", "termed"}

PCs == WaitPCs \cup HeldPCs \cup UnannouncedPCs \cup WatchPCs \cup OwnPCs
    \cup {"new", "entry", "entrywake", "run",              \* DeeThread_Entry_func
          "gone", "term", "cleanup", "terminated", "unflag",
          "start", "create", "starting", "tmark", "abort", \* DeeThread_Start
          "lock",                                          \* DeeThread_Interrupt
          "join", "jmark",                                 \* DeeThread_WaitFor
          "check", "bump", "clear", "pending", "acquire",  \* DeeThread_CheckInterruptSelf
          "wakeload", "wakeclear", "wakeall"}              \* _DeeThread_WakeWaiting

\* me: the thread the call is about; state: the word as the call has read it; seen:
\* as CheckInterruptSelf has read it; stack: where to return to; desc: has the sender
\* allocated a descriptor; moved: has t_int_vers of me changed since it was read.
Frames == [pc : PCs, me : Threads, state : SUBSET Flags,
           seen : SUBSET Flags, stack : Seq(PCs \cup {"main"}),
           desc : BOOLEAN, moved : BOOLEAN]

At(t, label) == [pc |-> label, me |-> t, state |-> {}, seen |-> {},
                 stack |-> <<>>, desc |-> FALSE, moved |-> FALSE]

Init == /\ t_state = [t \in Threads |->
                         IF t \in Callers THEN {"STARTED"} ELSE {}]
        /\ t_interrupt = [t \in Threads |-> <<>>]
        /\ frame = [t \in Threads |-> At(t, IF t \in Callers THEN "run" ELSE "new")]
        /\ sleepers = {}
        /\ sent = [t \in Threads |-> 0]
        /\ taken = [t \in Threads |-> 0]

pc(t) == frame[t].pc
me(t) == frame[t].me

Goto(t, label) == frame' = [frame EXCEPT ![t].pc = label]

\* A call of the thread's own code ends; a call within a call begins and ends.
Leave(t) == frame' = [frame EXCEPT ![t] = At(t, "run")]
Call(t, label, back) ==
    frame' = [frame EXCEPT ![t].pc = label, ![t].stack = <<back>> \o @]
Returned(f, t) ==
    IF Head(f.stack) \in {"run", "main"} THEN At(t, "run")
    ELSE [f EXCEPT !.pc = Head(f.stack), !.stack = Tail(@)]
Return(t) == frame' = [frame EXCEPT ![t] = Returned(@, t)]

\* atomic_or, atomic_and
Set(t, flags) == t_state' = [t_state EXCEPT ![t] = @ \cup flags]
Clear(t, flags) == t_state' = [t_state EXCEPT ![t] = @ \ flags]

pending == <<t_interrupt, sent, taken>>

-----------------------------------------------------------------------------
(* The futex at the state word of a thread *)

\* Out of a wait.
Up(f) == [f EXCEPT !.pc = Back[@], !.state = {}]

\* Everyone asleep on the word of w gets up; the frame of t becomes f.
WakeAllThen(t, w, f) ==
    LET up == {u \in sleepers : me(u) = w}
    IN /\ sleepers' = sleepers \ up
       /\ frame' = [u \in Threads |-> IF u = t THEN f
                                      ELSE IF u \in up THEN Up(frame[u]) ELSE frame[u]]

\* DeeFutex_Wait32*(&me->t_state, state)
FutexWait(t) ==
    /\ pc(t) \in WaitPCs /\ t \notin sleepers
    /\ pc(t) \in IntPCs => "INTERRUPTED" \notin t_state[t]
    /\ IF t_state[me(t)] = frame[t].state
       THEN sleepers' = sleepers \cup {t} /\ UNCHANGED frame
       ELSE frame' = [frame EXCEPT ![t] = Up(@)] /\ UNCHANGED sleepers
    /\ UNCHANGED <<t_state, pending>>

\* An interruptible wait handles interrupts before it sleeps, and when
\* DeeThread_Wake gets it out of its sleep; it wakes all other sleepers first.
FutexInterrupted(t) ==
    /\ pc(t) \in IntPCs /\ "INTERRUPTED" \in t_state[t]
    /\ WakeAllThen(t, me(t), [frame[t] EXCEPT !.pc = "check", !.stack = <<pc(t)>> \o @])
    /\ UNCHANGED <<t_state, pending>>

\* DeeThread_WaitFor ends with the timeout, if it was given one; DeeThread_Interrupt,
\* which wakes the other thread from time to time, goes on.
TimedOut(t) ==
    /\ t \in sleepers
    /\ sleepers' = sleepers \ {t}
    /\ \/ pc(t) = "jwait" /\ Leave(t)
       \/ pc(t) = "iwait" /\ frame' = [frame EXCEPT ![t] = Up(@)]
    /\ UNCHANGED <<t_state, pending>>

\* _DeeThread_WakeWaiting, called for oneself or by a starter that gives up.
Waited(t) == IF Head(frame[t].stack) = "run" THEN me(t) ELSE t

WakeLoad(t) ==
    /\ pc(t) = "wakeload"
    /\ IF "WAITING" \in t_state[Waited(t)] THEN Goto(t, "wakeclear")
       ELSE Return(t)
    /\ UNCHANGED <<t_state, sleepers, pending>>

WakeClear(t) ==
    /\ pc(t) = "wakeclear"
    /\ Clear(Waited(t), {"WAITING"})
    /\ Goto(t, "wakeall")
    /\ UNCHANGED <<sleepers, pending>>

WakeSleepers(t) ==
    /\ pc(t) = "wakeall"
    /\ WakeAllThen(t, Waited(t), Returned(frame[t], t))
    /\ UNCHANGED <<t_state, pending>>

\* The thread reads the word before it waits, and announces the wait in the word
\* unless someone else has.
Look(t, mark, wait) ==
    LET word == t_state[me(t)]
    IN frame' = [frame EXCEPT ![t].state = word,
                              ![t].pc = IF "WAITING" \in word THEN wait ELSE mark]

Marked == [tmark |-> "twait", jmark |-> "jwait", imark |-> "iwait"]

MarkExpecting(t, word) ==
    /\ pc(t) \in DOMAIN Marked
    /\ Set(me(t), {"WAITING"})
    /\ frame' = [frame EXCEPT ![t].pc = Marked[@], ![t].state = word \cup {"WAITING"}]
    /\ UNCHANGED <<sleepers, pending>>

\* Mutant: the word is read again when the flag is set, and not looked at.
Mark_Rereads(t) == MarkExpecting(t, t_state[me(t)])

Mark(t) == MarkExpecting(t, frame[t].state)

-----------------------------------------------------------------------------
(* The code of the threads *)

\* The threads that may yet send an interrupt to w.
Sending(w) == {u \in Threads : /\ me(u) = w
                               /\ \/ pc(u) \in (HeldPCs \cup {"lock"}) \ {"unlock"}
                                  \/ \E i \in DOMAIN frame[u].stack : frame[u].stack[i] = "lock"}

\* The thread's code calls a function on w.  Interrupts are bounded here.
Invoke(t, w) ==
    /\ pc(t) = "run"
    /\ \/ <<"start", t, w>> \in Calls /\ frame' = [frame EXCEPT ![t].pc = "start", ![t].me = w]
       \/ /\ <<"interrupt", t, w>> \in Calls
          /\ sent[w] + Cardinality(Sending(w)) < MaxSent[w]
          /\ frame' = [frame EXCEPT ![t].pc = "lock", ![t].me = w]
       \/ <<"join", t, w>> \in Calls /\ frame' = [frame EXCEPT ![t].pc = "join", ![t].me = w]
    /\ UNCHANGED <<t_state, sleepers, pending>>

-----------------------------------------------------------------------------
(* DeeThread_Start *)

\* Only one thread may start the other; further ones wait for the outcome, and
\* do not announce that in the word.
Start(t) ==
    /\ pc(t) = "start"
    /\ Set(me(t), {"STARTING"})
    /\ LET word == t_state[me(t)]
       IN IF "STARTING" \notin word THEN Goto(t, "create")
          ELSE IF "STARTED" \in word THEN Leave(t)
          ELSE frame' = [frame EXCEPT ![t].pc = "swait", ![t].state = word]
    /\ UNCHANGED <<sleepers, pending>>

\* DeeThread_Start_impl may fail, and the calling thread must not be terminating.
Create(t) ==
    /\ pc(t) = "create"
    /\ \/ frame' = [frame EXCEPT ![t].pc = "starting", ![me(t)].pc = "entry"]
       \/ Goto(t, "abort")
    /\ UNCHANGED <<t_state, sleepers, pending>>

Starting(t) ==
    /\ pc(t) = "starting"
    /\ IF "STARTED" \in t_state[me(t)] THEN Leave(t) ELSE Look(t, "tmark", "twait")
    /\ UNCHANGED <<t_state, sleepers, pending>>

Abort(t) ==
    /\ pc(t) = "abort"
    /\ Clear(me(t), {"STARTING"})
    /\ Call(t, "wakeload", "run")
    /\ UNCHANGED <<sleepers, pending>>

-----------------------------------------------------------------------------
(* DeeThread_CheckInterruptSelf *)

\* The thread's own code: the interpreter looks for interrupts in every loop.
UserCheck(t) ==
    /\ pc(t) = "run"
    /\ "INTERRUPTED" \in t_state[t]
    /\ Call(t, "check", "run")
    /\ UNCHANGED <<t_state, sleepers, pending>>

Check(t) ==
    /\ pc(t) = "check"
    /\ IF "INTERRUPTED" \notin t_state[t] THEN Return(t)
       ELSE frame' = [frame EXCEPT ![t].pc = "bump", ![t].seen = t_state[t]]
    /\ UNCHANGED <<t_state, sleepers, pending>>

\* atomic_inc(&self->t_int_vers)
Bump(t) ==
    /\ pc(t) = "bump"
    /\ frame' = [u \in Threads |->
                    IF u = t THEN [frame[t] EXCEPT !.pc = "clear"]
                    ELSE [frame[u] EXCEPT !.moved = @ \/ (me(u) = t /\ pc(u) \in WatchPCs)]]
    /\ UNCHANGED <<t_state, sleepers, pending>>

\* The compare-exchange fails if any flag of the word has changed.
ClearFlag(t) ==
    /\ pc(t) = "clear"
    /\ IF t_state[t] = frame[t].seen
       THEN /\ Clear(t, {"INTERRUPTED"})
            /\ frame' = [frame EXCEPT ![t].pc = "wakeload", ![t].seen = {},
                                      ![t].stack = <<"pending">> \o @]
       ELSE frame' = [frame EXCEPT ![t].pc = "check", ![t].seen = {}] /\ UNCHANGED t_state
    /\ UNCHANGED <<sleepers, pending>>

\* An unlocked look at ti_intr.
Pending(t) ==
    /\ pc(t) = "pending"
    /\ Goto(t, IF t_interrupt[t] # <<>> THEN "acquire" ELSE "check")
    /\ UNCHANGED <<t_state, sleepers, pending>>

\* _DeeThread_AcquireInterrupt, to take an interrupt or to terminate.
AcquireIf(t, free) ==
    /\ pc(t) \in {"acquire", "term"}
    /\ free
    /\ Set(t, {"INTERRUPTING"})
    /\ Goto(t, IF pc(t) = "acquire" THEN "pop" ELSE "terming")
    /\ UNCHANGED <<sleepers, pending>>

\* Mutant: a terminating thread does not wait for the lock.
Acquire_Terminating(t) == AcquireIf(t, pc(t) = "acquire" => "INTERRUPTING" \notin t_state[t])

Acquire(t) == AcquireIf(t, "INTERRUPTING" \notin t_state[t])

\* Take the first interrupt, and set the flag again if there are more.
PopAnnouncing(t, more) ==
    /\ pc(t) = "pop"
    /\ t_interrupt' = [t_interrupt EXCEPT ![t] = Tail(@)]
    /\ taken' = [taken EXCEPT ![t] = Head(t_interrupt[t])]
    /\ IF more THEN Set(t, {"INTERRUPTED"}) ELSE UNCHANGED t_state
    /\ Goto(t, "popped")
    /\ UNCHANGED <<sleepers, sent>>

\* Mutant: the flag is not set again.
Pop_Silent(t) == PopAnnouncing(t, FALSE)

Pop(t) == PopAnnouncing(t, Len(t_interrupt[t]) > 1)

\* _DeeThread_ReleaseInterrupt.  The thread goes on to the termination, or it
\* throws or calls the interrupt.  With an exception the check ends: it goes to the
\* thread's code, or is the end of a thread that is not in its code.
ReleaseOwn(t) ==
    /\ Clear(t, {"INTERRUPTING"})
    /\ \/ pc(t) = "termed" /\ Return(t)
       \/ pc(t) = "popped" /\ Goto(t, "check")
       \/ /\ pc(t) = "popped"
          /\ IF Head(frame[t].stack) \in {"main", "cleanup"}
             THEN frame' = [frame EXCEPT ![t] = [At(t, "term") EXCEPT !.stack = <<"cleanup">>]]
             ELSE Leave(t)
    /\ UNCHANGED <<sleepers, pending>>

-----------------------------------------------------------------------------
(* DeeThread_Interrupt *)

\* INTERRUPTING is taken with atomic_fetchor, and spun for until it is free or
\* the thread is seen to terminate.
LockIf(t, free) ==
    /\ pc(t) = "lock"
    /\ LET word == t_state[me(t)]
       IN \/ /\ free
             /\ Set(me(t), {"INTERRUPTING"})
             /\ Goto(t, IF "TERMINATING" \in word THEN "refuse" ELSE "locked")
          \/ /\ {"INTERRUPTING", "TERMINATING"} \subseteq word
             /\ Leave(t) /\ UNCHANGED t_state
    /\ UNCHANGED <<sleepers, pending>>

\* Mutant: only a terminating thread is waited for.
Lock_Steals(t) == LockIf(t, ~({"INTERRUPTING", "TERMINATING"} \subseteq t_state[me(t)]))

Lock(t) == LockIf(t, "INTERRUPTING" \notin t_state[me(t)])

\* A sender deals with its own interrupts first.
Locked(t) ==
    /\ pc(t) = "locked"
    /\ Goto(t, IF "INTERRUPTED" \in t_state[t] /\ me(t) # t THEN "yield" ELSE "append")
    /\ UNCHANGED <<t_state, sleepers, pending>>

\* The first interrupt is stored in the thread, others in descriptors after it.
ScheduleAs(t, list) ==
    /\ pc(t) = "append"
    /\ LET w == me(t)
       IN IF t_interrupt[w] = <<>> \/ frame[t].desc
          THEN /\ t_interrupt' = [t_interrupt EXCEPT ![w] = list]
               /\ sent' = [sent EXCEPT ![w] = @ + 1]
               /\ Goto(t, "unlock")
          ELSE Goto(t, "noroom") /\ UNCHANGED <<t_interrupt, sent>>
    /\ UNCHANGED <<t_state, sleepers, taken>>

\* Mutant: a descriptor goes to the front of the list.
Schedule_Front(t) == ScheduleAs(t, <<sent[me(t)] + 1>> \o t_interrupt[me(t)])

Schedule(t) == ScheduleAs(t, Append(t_interrupt[me(t)], sent[me(t)] + 1))

\* The sender clears INTERRUPTING and goes on according to why it did: to return,
\* to its own interrupts, to allocate a descriptor (or fail to), to the flag.
Release(t) ==
    /\ Clear(me(t), {"INTERRUPTING"})
    /\ \/ pc(t) = "refuse" /\ Leave(t)
       \/ pc(t) = "yield" /\ Call(t, "check", "lock")
       \/ pc(t) = "noroom" /\ frame' = [frame EXCEPT ![t].pc = "lock", ![t].desc = TRUE]
       \/ pc(t) = "noroom" /\ Leave(t)
       \/ pc(t) = "unlock" /\ frame' = [frame EXCEPT ![t].pc = "version", ![t].desc = FALSE]
    /\ UNCHANGED <<sleepers, pending>>

Version(t) ==
    /\ pc(t) = "version"
    /\ Goto(t, "flag")
    /\ UNCHANGED <<t_state, sleepers, pending>>

Flag(t) ==
    /\ pc(t) = "flag"
    /\ Set(me(t), {"INTERRUPTED"})
    /\ IF me(t) = t THEN Leave(t) ELSE Goto(t, "iread")
    /\ UNCHANGED <<sleepers, pending>>

\* Wake the thread (it leaves interruptible waits: FutexInterrupted) and see
\* whether it has begun to handle its interrupts.
ReadFlag(t) ==
    /\ pc(t) = "iread"
    /\ IF "INTERRUPTED" \notin t_state[me(t)] THEN Leave(t) ELSE Look(t, "imark", "iwait")
    /\ UNCHANGED <<t_state, sleepers, pending>>

CheckVersion(t) ==
    /\ pc(t) = "icheck"
    /\ IF frame[t].moved THEN Leave(t) ELSE Goto(t, "iread")
    /\ UNCHANGED <<t_state, sleepers, pending>>

-----------------------------------------------------------------------------
(* DeeThread_WaitFor, and DeeThread_Join that begins with it *)

\* A call with a timeout may find that there is no time left.
Join(t) ==
    /\ pc(t) = "join"
    /\ IF "TERMINATED" \in t_state[me(t)] THEN Leave(t)
       ELSE Look(t, "jmark", "jwait") \/ Leave(t)
    /\ UNCHANGED <<t_state, sleepers, pending>>

-----------------------------------------------------------------------------
(* DeeThread_Entry_func *)

\* Enter the list of threads and set STARTED.
Entry(t) ==
    /\ pc(t) = "entry"
    /\ Set(t, {"STARTED"})
    /\ Goto(t, "entrywake")
    /\ UNCHANGED <<sleepers, pending>>

\* Wake the starters, and check for interrupts before the thread's code runs.
EntryWake(t) ==
    /\ pc(t) = "entrywake"
    /\ WakeAllThen(t, t, [At(t, "check") EXCEPT !.stack = <<"main">>])
    /\ UNCHANGED <<t_state, pending>>

\* The thread's code returns: after TERMINATING is set, handle what has arrived.
\* Or it ends with an exception: what has arrived is discarded.
Finish(t) ==
    /\ pc(t) = "run" /\ t \in Workers
    /\ \E back \in {<<"check", "cleanup">>, <<"cleanup">>} :
          frame' = [frame EXCEPT ![t].pc = "term", ![t].stack = back]
    /\ UNCHANGED <<t_state, sleepers, pending>>

Terming(t) ==
    /\ pc(t) = "terming"
    /\ Set(t, {"TERMINATING"})
    /\ Goto(t, "termed")
    /\ UNCHANGED <<sleepers, pending>>

\* DeeThread_DiscardAllInterrupts, without the lock.
Cleanup(t) ==
    /\ pc(t) = "cleanup"
    /\ t_interrupt' = [t_interrupt EXCEPT ![t] = <<>>]
    /\ Goto(t, "terminated")
    /\ UNCHANGED <<t_state, sleepers, sent, taken>>

Terminate(t) ==
    /\ pc(t) = "terminated"
    /\ Set(t, {"TERMINATED"})
    /\ Goto(t, "unflag")
    /\ UNCHANGED <<sleepers, pending>>

Unflag(t) ==
    /\ pc(t) = "unflag"
    /\ Clear(t, {"INTERRUPTED"})
    /\ Call(t, "wakeload", "gone")
    /\ UNCHANGED <<sleepers, pending>>

-----------------------------------------------------------------------------
Step(t) ==
    \/ FutexWait(t) \/ FutexInterrupted(t)
    \/ WakeLoad(t) \/ WakeClear(t) \/ WakeSleepers(t) \/ Mark(t)
    \/ Start(t) \/ Create(t) \/ Starting(t) \/ Abort(t)
    \/ Check(t) \/ Bump(t) \/ ClearFlag(t) \/ Pending(t) \/ Pop(t) \/ ReleaseOwn(t)
    \/ Lock(t) \/ Locked(t) \/ Schedule(t) \/ Release(t)
    \/ Version(t) \/ Flag(t) \/ ReadFlag(t) \/ CheckVersion(t)
    \/ Join(t)
    \/ Entry(t) \/ EntryWake(t) \/ Terming(t) \/ Cleanup(t)
    \/ Terminate(t) \/ Unflag(t)

Next == \E t \in Threads : \/ Step(t) \/ TimedOut(t) \/ Acquire(t) \/ UserCheck(t) \/ Finish(t)
                           \/ \E w \in Threads : Invoke(t, w)

Spec == Init /\ [][Next]_vars

-----------------------------------------------------------------------------
(* Properties *)

\* The variables have their types.
TypeOK ==
    /\ t_state \in [Threads -> SUBSET Flags]
    /\ frame \in [Threads -> Frames]
    /\ \A t \in Threads : /\ t_interrupt[t] \in Seq(1 .. MaxSent[t])
                          /\ sent[t] \in 0 .. MaxSent[t]
                          /\ taken[t] \in 0 .. MaxSent[t]
    /\ sleepers \subseteq {t \in Threads : pc(t) \in WaitPCs}

\* The flag INTERRUPTING of a thread is a lock: it is set exactly while one thread,
\* a sender or the thread itself, is between taking and releasing it.
Holders(w) == {t \in Threads : pc(t) \in HeldPCs /\ me(t) = w}
              \cup {t \in {w} : pc(t) \in OwnPCs}

LockExact == \A w \in Threads :
    Cardinality(Holders(w)) = IF "INTERRUPTING" \in t_state[w] THEN 1 ELSE 0

\* Interrupts are received in the order in which they were sent, none twice, and
\* none is lost but those that a terminating thread discards.
InOrder == \A w \in Threads :
    \/ t_interrupt[w] = [i \in 1 .. sent[w] - taken[w] |-> taken[w] + i]
    \/ "TERMINATING" \in t_state[w] /\ t_interrupt[w] = <<>>

\* A pending interrupt is announced: the flag INTERRUPTED is set, or a sender is
\* about to set it, or the thread has just cleared it and takes the interrupt next.
Announced == \A w \in Threads :
    t_interrupt[w] # <<>> /\ "TERMINATING" \notin t_state[w] =>
        \/ "INTERRUPTED" \in t_state[w]
        \/ \E t \in Threads : pc(t) \in UnannouncedPCs /\ me(t) = w
        \/ pc(w) \in {"pending", "acquire", "pop"}
        \/ pc(w) \in {"wakeload", "wakeclear", "wakeall"} /\ Head(frame[w].stack) = "pending"

\* Interrupts are discarded without the lock: by then no sender may be about to
\* add one, and a terminated thread has none.
DiscardAlone == \A w \in Threads :
    /\ pc(w) \in {"cleanup", "terminated"} =>
           ~\E t \in Threads : pc(t) \in {"locked", "append"} /\ me(t) = w
    /\ "TERMINATED" \in t_state[w] => t_interrupt[w] = <<>>

\* Nobody sleeps through the start or the end of a thread: someone who sleeps
\* although what he waits for has happened is about to be woken.
Waking(w) == \/ pc(w) = "unflag"
             \/ \E t \in Threads : pc(t) \in {"wakeclear", "wakeall"} /\ Waited(t) = w
             \/ pc(w) = "wakeload" /\ "WAITING" \in t_state[w]

NoLostWakeup == \A t \in sleepers :
    /\ pc(t) \in {"swait", "twait"} /\ "STARTED" \in t_state[me(t)] => pc(me(t)) = "entrywake"
    /\ pc(t) = "jwait" /\ "TERMINATED" \in t_state[me(t)] => Waking(me(t))

=============================================================================
