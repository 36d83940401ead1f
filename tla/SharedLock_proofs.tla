------------------------- MODULE SharedLock_proofs --------------------------
(***************************************************************************)
(* Proofs about Dee_shared_lock_t, for any finite set of threads.          *)
(***************************************************************************)
EXTENDS SharedLock, FiniteSetTheorems, TLAPS

USE DEF WakeAll

\* Threads that own the lock word: the holder, or a thread whose release store
\* has not yet left its store buffer.
Owns(t) == pc[t] = "held" \/ t \in storebuf

\* The lock word is 1 while it is owned, and it has one owner at most.
OwnerInv == /\ \A t \in Threads : Owns(t) => s_lock = 1
            /\ \A t, u \in Threads : Owns(t) /\ Owns(u) => t = u
            /\ \A t \in storebuf : pc[t] \in {"reltest", "relwake", "idle", "try"}
            /\ storebuf # {} => TSO

\* The futex holds only threads that went to sleep, and a wait's error lives
\* only until the waitword was decremented.
SleepInv == /\ \A t \in sleepers : pc[t] = "asleep"
            /\ \A t \in Threads : err[t] # 0 => pc[t] = "end"

\* The inductive invariant of the lock.
IInv == TypeOK /\ OwnerInv /\ SleepInv /\ WaitwordExact

-----------------------------------------------------------------------------

\* An infinite timeout delegates to an operation of the same kind.
LEMMA DelegateKind ==
    ASSUME NEW o \in AcquireOps \cup WaitforOps
    PROVE  /\ Delegate(o) \in AcquireOps \cup WaitforOps
           /\ o \in AcquireOps => Delegate(o) \in AcquireOps
BY DEF Delegate, AcquireOps, WaitforOps

\* A thread that finds the lock held goes on to one of these places.
LEMMA AfterHeldRange ==
    ASSUME NEW t, NEW label \in AfterHeld(t)
    PROVE  label \in {"idle", "try", "start"}
BY DEF AfterHeld

\* Waiters is a finite set, so that its cardinality is a number.
LEMMA WaitersFinite == IsFiniteSet(Waiters)
BY ThreadsAssumption, FS_Subset DEF Waiters

\* The lock starts out free, with nobody waiting, sleeping or owning it.
LEMMA InitIInv == Init => IInv
<1> SUFFICES ASSUME Init PROVE IInv
  OBVIOUS
<1>1. TypeOK
  BY OpsAssumption DEF Init, TypeOK, PCs
<1>2. Waiters = {}
  BY DEF Init, Waiters
<1>3. WaitwordExact
  BY <1>2, FS_EmptySet DEF Init, WaitwordExact
<1>4. OwnerInv /\ SleepInv
  BY DEF Init, OwnerInv, SleepInv, Owns
<1> QED
  BY <1>1, <1>3, <1>4 DEF IInv

\* No step of a thread or of an interrupter breaks a variable's type.
LEMMA TypeStep == ASSUME IInv, [Next]_vars PROVE TypeOK'
<1> USE DEF TypeOK, PCs
<1>1. CASE UNCHANGED vars
  BY <1>1 DEF IInv, vars
<1>2. ASSUME NEW t \in Threads, Call(t) PROVE TypeOK'
  BY <1>2, OpsAssumption DEF IInv, Call, Goto
<1>3. ASSUME NEW t \in Threads, Xch(t) PROVE TypeOK'
  <2>1. CASE s_lock = 0
    BY <1>3, <2>1 DEF IInv, Xch, Goto
  <2>2. CASE s_lock # 0
    <3>1. PICK label \in AfterHeld(t) : Goto(t, label)
      BY <1>3, <2>2 DEF Xch
    <3>2. label \in PCs
      BY <3>1, AfterHeldRange
    <3>3. Delegate(op[t]) \in AcquireOps \cup WaitforOps
      BY DelegateKind DEF IInv
    <3> QED
      BY <1>3, <2>2, <3>1, <3>2, <3>3 DEF IInv, Xch, Goto
  <2> QED BY <2>1, <2>2
<1>4. ASSUME NEW t \in Threads, Load(t) PROVE TypeOK'
  <2>1. CASE Loaded(t) = 0
    BY <1>4, <2>1 DEF IInv, Load, Goto
  <2>2. CASE Loaded(t) # 0
    <3>1. PICK label \in AfterHeld(t) : Goto(t, label)
      BY <1>4, <2>2 DEF Load
    <3>2. label \in PCs
      BY <3>1, AfterHeldRange
    <3>3. Delegate(op[t]) \in AcquireOps \cup WaitforOps
      BY DelegateKind DEF IInv
    <3> QED
      BY <1>4, <2>2, <3>1, <3>2, <3>3 DEF IInv, Load, Goto
  <2> QED BY <2>1, <2>2
<1>5. ASSUME NEW t \in Threads, WaitingStart(t) PROVE TypeOK'
  BY <1>5 DEF IInv, WaitingStart, Goto
<1>6. ASSUME NEW t \in Threads, FutexWait(t) PROVE TypeOK'
  BY <1>6 DEF IInv, FutexWait, Goto
<1>7. ASSUME NEW t \in Threads, FutexInterrupted(t) PROVE TypeOK'
  BY <1>7 DEF IInv, FutexInterrupted, Goto
<1>8. ASSUME NEW t \in Threads, Woken(t) PROVE TypeOK'
  BY <1>8 DEF IInv, Woken, Goto
<1>9. ASSUME NEW t \in Threads, TimedOut(t) PROVE TypeOK'
  BY <1>9 DEF IInv, TimedOut, Goto
<1>10. ASSUME NEW t \in Threads, WaitingEnd(t) PROVE TypeOK'
  <2>1. t \in Waiters
    BY <1>10 DEF WaitingEnd, EndWait, AfterWait, Waiters
  <2>2. s_waiting # 0
    BY <2>1, WaitersFinite, FS_EmptySet DEF IInv, WaitwordExact
  <2>3. s_waiting - 1 \in Nat
    BY <2>2 DEF IInv
  <2> QED
    BY <1>10, <2>3 DEF IInv, WaitingEnd, EndWait, AfterWait, Goto
<1>11. ASSUME NEW t \in Threads, ReleaseStore(t) PROVE TypeOK'
  BY <1>11 DEF IInv, ReleaseStore, Goto
<1>12. ASSUME NEW t \in Threads, Drain(t) PROVE TypeOK'
  BY <1>12 DEF IInv, Drain
<1>13. ASSUME NEW t \in Threads, ReleaseTest(t) PROVE TypeOK'
  BY <1>13 DEF IInv, ReleaseTest, Goto
<1>14. ASSUME NEW t \in Threads, ReleaseWake(t) PROVE TypeOK'
  BY <1>14 DEF IInv, ReleaseWake, Goto, WakeOne
<1>15. ASSUME NEW t \in Threads, Interrupt(t) PROVE TypeOK'
  BY <1>15 DEF IInv, Interrupt
<1>16. ASSUME NEW t \in Threads, WakeGlobal(t) PROVE TypeOK'
  BY <1>16 DEF IInv, WakeGlobal
<1> QED
  BY <1>1, <1>2, <1>3, <1>4, <1>5, <1>6, <1>7, <1>8, <1>9, <1>10, <1>11,
     <1>12, <1>13, <1>14, <1>15, <1>16 DEF Next, Step

\* The release store is the only way to give the lock word up, the exchange of
\* a 0 the only way to own it.
LEMMA OwnerStep == ASSUME IInv, [Next]_vars PROVE OwnerInv'
<1>1. CASE UNCHANGED vars
  BY <1>1 DEF vars, IInv, TypeOK, OwnerInv, Owns, Goto
<1>2. ASSUME NEW t \in Threads, Call(t) PROVE OwnerInv'
  BY <1>2 DEF Call, IInv, TypeOK, OwnerInv, Owns, Goto
<1>3. ASSUME NEW t \in Threads, Xch(t) PROVE OwnerInv'
  <2>1. CASE s_lock = 0
    BY <1>3, <2>1 DEF Xch, IInv, TypeOK, OwnerInv, Owns, Goto
  <2>2. CASE s_lock # 0
    <3>1. PICK label \in AfterHeld(t) : Goto(t, label)
      BY <1>3, <2>2 DEF Xch
    <3>2. label \in {"idle", "try", "start"}
      BY <3>1, AfterHeldRange
    <3> HIDE DEF AfterHeld
    <3> QED
      BY <1>3, <2>2, <3>1, <3>2 DEF Xch, IInv, TypeOK, OwnerInv, Owns, Goto
  <2> QED BY <2>1, <2>2
<1>4. ASSUME NEW t \in Threads, Load(t) PROVE OwnerInv'
  <2>1. CASE Loaded(t) = 0
    BY <1>4, <2>1 DEF Load, IInv, TypeOK, OwnerInv, Owns, Goto
  <2>2. CASE Loaded(t) # 0
    <3>1. PICK label \in AfterHeld(t) : Goto(t, label)
      BY <1>4, <2>2 DEF Load
    <3>2. label \in {"idle", "try", "start"}
      BY <3>1, AfterHeldRange
    <3> HIDE DEF AfterHeld
    <3> QED
      BY <1>4, <2>2, <3>1, <3>2 DEF Load, Loaded, IInv, TypeOK, OwnerInv, Owns, Goto
  <2> QED BY <2>1, <2>2
<1>5. ASSUME NEW t \in Threads, WaitingStart(t) PROVE OwnerInv'
  BY <1>5 DEF WaitingStart, IInv, TypeOK, OwnerInv, Owns, Goto
<1>6. ASSUME NEW t \in Threads, FutexWait(t) PROVE OwnerInv'
  BY <1>6 DEF FutexWait, IInv, TypeOK, OwnerInv, Owns, Goto
<1>7. ASSUME NEW t \in Threads, FutexInterrupted(t) PROVE OwnerInv'
  BY <1>7 DEF FutexInterrupted, IInv, TypeOK, OwnerInv, Owns, Goto
<1>8. ASSUME NEW t \in Threads, Woken(t) PROVE OwnerInv'
  BY <1>8 DEF Woken, IInv, TypeOK, OwnerInv, Owns, Goto
<1>9. ASSUME NEW t \in Threads, TimedOut(t) PROVE OwnerInv'
  BY <1>9 DEF TimedOut, IInv, TypeOK, OwnerInv, Owns, Goto
<1>10. ASSUME NEW t \in Threads, WaitingEnd(t) PROVE OwnerInv'
  BY <1>10 DEF WaitingEnd, EndWait, AfterWait, IInv, TypeOK, OwnerInv, Owns, Goto
<1>11. ASSUME NEW t \in Threads, ReleaseStore(t) PROVE OwnerInv'
  BY <1>11 DEF ReleaseStore, IInv, TypeOK, OwnerInv, Owns, Goto
<1>12. ASSUME NEW t \in Threads, Drain(t) PROVE OwnerInv'
  BY <1>12 DEF Drain, IInv, TypeOK, OwnerInv, Owns, Goto
<1>13. ASSUME NEW t \in Threads, ReleaseTest(t) PROVE OwnerInv'
  BY <1>13 DEF ReleaseTest, IInv, TypeOK, OwnerInv, Owns, Goto
<1>14. ASSUME NEW t \in Threads, ReleaseWake(t) PROVE OwnerInv'
  BY <1>14 DEF ReleaseWake, IInv, TypeOK, OwnerInv, Owns, Goto
<1>15. ASSUME NEW t \in Threads, Interrupt(t) PROVE OwnerInv'
  BY <1>15 DEF Interrupt, IInv, TypeOK, OwnerInv, Owns, Goto
<1>16. ASSUME NEW t \in Threads, WakeGlobal(t) PROVE OwnerInv'
  BY <1>16 DEF WakeGlobal, IInv, TypeOK, OwnerInv, Owns, Goto
<1> QED
  BY <1>1, <1>2, <1>3, <1>4, <1>5, <1>6, <1>7, <1>8, <1>9, <1>10, <1>11, <1>12, <1>13, <1>14, <1>15, <1>16
  DEF Next, Step

\* A thread enters the set of sleepers only as it falls asleep, and leaves
\* "asleep" only once it is out of the set.
LEMMA SleepStep == ASSUME IInv, [Next]_vars PROVE SleepInv'
<1>1. CASE UNCHANGED vars
  BY <1>1 DEF vars, IInv, TypeOK, SleepInv, Goto
<1>2. ASSUME NEW t \in Threads, Call(t) PROVE SleepInv'
  BY <1>2 DEF Call, IInv, TypeOK, SleepInv, Goto
<1>3. ASSUME NEW t \in Threads, Xch(t) PROVE SleepInv'
  <2>1. CASE s_lock = 0
    BY <1>3, <2>1 DEF Xch, IInv, TypeOK, SleepInv, Goto
  <2>2. CASE s_lock # 0
    <3>1. PICK label \in AfterHeld(t) : Goto(t, label)
      BY <1>3, <2>2 DEF Xch
    <3>2. label \in {"idle", "try", "start"}
      BY <3>1, AfterHeldRange
    <3> HIDE DEF AfterHeld
    <3> QED
      BY <1>3, <2>2, <3>1, <3>2 DEF Xch, IInv, TypeOK, SleepInv, Goto
  <2> QED BY <2>1, <2>2
<1>4. ASSUME NEW t \in Threads, Load(t) PROVE SleepInv'
  <2>1. CASE Loaded(t) = 0
    BY <1>4, <2>1 DEF Load, IInv, TypeOK, SleepInv, Goto
  <2>2. CASE Loaded(t) # 0
    <3>1. PICK label \in AfterHeld(t) : Goto(t, label)
      BY <1>4, <2>2 DEF Load
    <3>2. label \in {"idle", "try", "start"}
      BY <3>1, AfterHeldRange
    <3> HIDE DEF AfterHeld
    <3> QED
      BY <1>4, <2>2, <3>1, <3>2 DEF Load, IInv, TypeOK, SleepInv, Goto
  <2> QED BY <2>1, <2>2
<1>5. ASSUME NEW t \in Threads, WaitingStart(t) PROVE SleepInv'
  BY <1>5 DEF WaitingStart, IInv, TypeOK, SleepInv, Goto
<1>6. ASSUME NEW t \in Threads, FutexWait(t) PROVE SleepInv'
  BY <1>6 DEF FutexWait, IInv, TypeOK, SleepInv, Goto
<1>7. ASSUME NEW t \in Threads, FutexInterrupted(t) PROVE SleepInv'
  BY <1>7 DEF FutexInterrupted, IInv, TypeOK, SleepInv, Goto
<1>8. ASSUME NEW t \in Threads, Woken(t) PROVE SleepInv'
  BY <1>8 DEF Woken, IInv, TypeOK, SleepInv, Goto
<1>9. ASSUME NEW t \in Threads, TimedOut(t) PROVE SleepInv'
  BY <1>9 DEF TimedOut, IInv, TypeOK, SleepInv, Goto
<1>10. ASSUME NEW t \in Threads, WaitingEnd(t) PROVE SleepInv'
  BY <1>10 DEF WaitingEnd, EndWait, AfterWait, IInv, TypeOK, SleepInv, Goto
<1>11. ASSUME NEW t \in Threads, ReleaseStore(t) PROVE SleepInv'
  BY <1>11 DEF ReleaseStore, IInv, TypeOK, SleepInv, Goto
<1>12. ASSUME NEW t \in Threads, Drain(t) PROVE SleepInv'
  BY <1>12 DEF Drain, IInv, TypeOK, SleepInv, Goto
<1>13. ASSUME NEW t \in Threads, ReleaseTest(t) PROVE SleepInv'
  BY <1>13 DEF ReleaseTest, IInv, TypeOK, SleepInv, Goto
<1>14. ASSUME NEW t \in Threads, ReleaseWake(t) PROVE SleepInv'
  BY <1>14 DEF ReleaseWake, WakeOne, IInv, TypeOK, SleepInv, Goto
<1>15. ASSUME NEW t \in Threads, Interrupt(t) PROVE SleepInv'
  BY <1>15 DEF Interrupt, IInv, TypeOK, SleepInv, Goto
<1>16. ASSUME NEW t \in Threads, WakeGlobal(t) PROVE SleepInv'
  BY <1>16 DEF WakeGlobal, IInv, TypeOK, SleepInv, Goto
<1> QED
  BY <1>1, <1>2, <1>3, <1>4, <1>5, <1>6, <1>7, <1>8, <1>9, <1>10, <1>11, <1>12, <1>13, <1>14, <1>15, <1>16
  DEF Next, Step

\* waiting_start and waiting_end change the waitword exactly as threads enter
\* and leave the waiting section; nothing else changes either of them.
LEMMA WaitwordStep == ASSUME IInv, [Next]_vars PROVE WaitwordExact'
<1>1. CASE UNCHANGED vars
  BY <1>1 DEF vars, IInv, WaitwordExact, Waiters
<1>2. ASSUME NEW t \in Threads, WaitingStart(t) PROVE WaitwordExact'
  <2>1. Waiters' = Waiters \cup {t} /\ t \notin Waiters
    BY <1>2 DEF WaitingStart, IInv, TypeOK, Waiters, Goto
  <2>2. Cardinality(Waiters') = Cardinality(Waiters) + 1
    BY <2>1, WaitersFinite, FS_AddElement
  <2> QED
    BY <1>2, <2>2 DEF WaitingStart, IInv, WaitwordExact
<1>3. ASSUME NEW t \in Threads, WaitingEnd(t) PROVE WaitwordExact'
  <2>1. Waiters' = Waiters \ {t} /\ t \in Waiters
    BY <1>3 DEF WaitingEnd, EndWait, AfterWait, IInv, TypeOK, Waiters, Goto
  <2>2. Cardinality(Waiters') = Cardinality(Waiters) - 1
    BY <2>1, WaitersFinite, FS_RemoveElement
  <2> QED
    BY <1>3, <2>2 DEF WaitingEnd, EndWait, AfterWait, IInv, WaitwordExact
<1>4. ASSUME NEW t \in Threads, Call(t) PROVE Waiters' = Waiters /\ s_waiting' = s_waiting
  BY <1>4 DEF Call, IInv, TypeOK, Waiters, Goto
<1>5. ASSUME NEW t \in Threads, Xch(t) PROVE Waiters' = Waiters /\ s_waiting' = s_waiting
  <2>1. CASE s_lock = 0
    BY <1>5, <2>1 DEF Xch, IInv, TypeOK, Waiters, Goto
  <2>2. CASE s_lock # 0
    <3>1. PICK label \in AfterHeld(t) : Goto(t, label)
      BY <1>5, <2>2 DEF Xch
    <3>2. label \in {"idle", "try", "start"}
      BY <3>1, AfterHeldRange
    <3> QED
      BY <1>5, <2>2, <3>1, <3>2 DEF Xch, IInv, TypeOK, Waiters, Goto
  <2> QED BY <2>1, <2>2
<1>6. ASSUME NEW t \in Threads, Load(t) PROVE Waiters' = Waiters /\ s_waiting' = s_waiting
  <2>1. CASE Loaded(t) = 0
    BY <1>6, <2>1 DEF Load, IInv, TypeOK, Waiters, Goto
  <2>2. CASE Loaded(t) # 0
    <3>1. PICK label \in AfterHeld(t) : Goto(t, label)
      BY <1>6, <2>2 DEF Load
    <3>2. label \in {"idle", "try", "start"}
      BY <3>1, AfterHeldRange
    <3> QED
      BY <1>6, <2>2, <3>1, <3>2 DEF Load, IInv, TypeOK, Waiters, Goto
  <2> QED BY <2>1, <2>2
<1>7. ASSUME NEW t \in Threads, FutexWait(t) PROVE Waiters' = Waiters /\ s_waiting' = s_waiting
  BY <1>7 DEF FutexWait, IInv, TypeOK, Waiters, Goto
<1>8. ASSUME NEW t \in Threads, FutexInterrupted(t) PROVE Waiters' = Waiters /\ s_waiting' = s_waiting
  BY <1>8 DEF FutexInterrupted, IInv, TypeOK, Waiters, Goto
<1>9. ASSUME NEW t \in Threads, Woken(t) PROVE Waiters' = Waiters /\ s_waiting' = s_waiting
  BY <1>9 DEF Woken, IInv, TypeOK, Waiters, Goto
<1>10. ASSUME NEW t \in Threads, TimedOut(t) PROVE Waiters' = Waiters /\ s_waiting' = s_waiting
  BY <1>10 DEF TimedOut, IInv, TypeOK, Waiters, Goto
<1>11. ASSUME NEW t \in Threads, ReleaseStore(t) PROVE Waiters' = Waiters /\ s_waiting' = s_waiting
  BY <1>11 DEF ReleaseStore, IInv, TypeOK, Waiters, Goto
<1>12. ASSUME NEW t \in Threads, Drain(t) PROVE Waiters' = Waiters /\ s_waiting' = s_waiting
  BY <1>12 DEF Drain, IInv, TypeOK, Waiters, Goto
<1>13. ASSUME NEW t \in Threads, ReleaseTest(t) PROVE Waiters' = Waiters /\ s_waiting' = s_waiting
  BY <1>13 DEF ReleaseTest, IInv, TypeOK, Waiters, Goto
<1>14. ASSUME NEW t \in Threads, ReleaseWake(t) PROVE Waiters' = Waiters /\ s_waiting' = s_waiting
  BY <1>14 DEF ReleaseWake, IInv, TypeOK, Waiters, Goto
<1>15. ASSUME NEW t \in Threads, Interrupt(t) PROVE Waiters' = Waiters /\ s_waiting' = s_waiting
  BY <1>15 DEF Interrupt, IInv, TypeOK, Waiters, Goto
<1>16. ASSUME NEW t \in Threads, WakeGlobal(t) PROVE Waiters' = Waiters /\ s_waiting' = s_waiting
  BY <1>16 DEF WakeGlobal, IInv, TypeOK, Waiters, Goto
<1>17. CASE Waiters' = Waiters /\ s_waiting' = s_waiting
  BY <1>17 DEF IInv, WaitwordExact
<1> QED
  BY <1>1, <1>2, <1>3, <1>4, <1>5, <1>6, <1>7, <1>8, <1>9, <1>10, <1>11, <1>12, <1>13, <1>14, <1>15, <1>16, <1>17
  DEF Next, Step

\* Every step of a thread preserves the inductive invariant.
LEMMA NextIInv == IInv /\ [Next]_vars => IInv'
BY TypeStep, OwnerStep, SleepStep, WaitwordStep DEF IInv

\* The inductive invariant holds of every reachable state.
LEMMA Invariance == Spec => []IInv
<1>1. Init => IInv
  BY InitIInv
<1>2. IInv /\ [Next]_vars => IInv'
  BY NextIInv
<1> QED
  BY <1>1, <1>2, PTL DEF Spec

\* For every number of threads, every mix of operations and with or without
\* store buffering, Dee_shared_lock_acquire* returns 0 to one thread at a time.
THEOREM Safety == Spec => []MutualExclusion
<1>1. IInv => MutualExclusion
  BY DEF IInv, OwnerInv, Owns, MutualExclusion, Holders
<1> QED
  BY <1>1, Invariance, PTL

\* The variables keep their types; the unsigned waitword never underflows.
THEOREM TypeCorrect == Spec => []TypeOK
<1>1. IInv => TypeOK
  BY DEF IInv
<1> QED
  BY <1>1, Invariance, PTL

\* The waitword counts exactly the threads between waiting_start and
\* waiting_end.
THEOREM WaitwordCorrect == Spec => []WaitwordExact
<1>1. IInv => WaitwordExact
  BY DEF IInv
<1> QED
  BY <1>1, Invariance, PTL

-----------------------------------------------------------------------------
(* No lost wake-ups, when all threads acquire and stores are not buffered. *)

\* Every operation in progress ends by taking the lock or with an error.
AcquireInv == \A t \in Threads : op[t] \in AcquireOps

\* Threads that only call acquiring functions stay in acquiring functions.
LEMMA AcquireStep ==
    ASSUME Ops \subseteq AcquireOps, TypeOK, AcquireInv, [Next]_vars
    PROVE  AcquireInv'
<1>1. CASE UNCHANGED vars
  BY <1>1 DEF vars, AcquireInv
<1>2. ASSUME NEW t \in Threads, Call(t) PROVE AcquireInv'
  BY <1>2 DEF Call, TypeOK, AcquireInv
<1>3. ASSUME NEW t \in Threads, Xch(t) PROVE AcquireInv'
  <2>1. Delegate(op[t]) \in AcquireOps
    BY DelegateKind DEF AcquireInv
  <2> QED
    BY <1>3, <2>1 DEF Xch, TypeOK, AcquireInv
<1>4. ASSUME NEW t \in Threads, Load(t) PROVE AcquireInv'
  BY <1>4 DEF Load, AcquireInv, AcquireOps, WaitforOps
<1>5. CASE UNCHANGED op
  BY <1>5 DEF AcquireInv
<1> QED
  BY <1>1, <1>2, <1>3, <1>4, <1>5
  DEF Next, Step, WaitingStart, FutexWait, FutexInterrupted, Woken, TimedOut,
      WaitingEnd, EndWait, ReleaseStore, Drain, ReleaseTest, ReleaseWake, Interrupt, WakeGlobal

\* A sleeper is a waiter, so a releasing thread that loads 0 from the waitword
\* leaves nobody behind.
LEMMA NoWaiterNoSleeper == IInv /\ s_waiting = 0 => sleepers = {}
<1> SUFFICES ASSUME IInv, s_waiting = 0 PROVE sleepers = {}
  OBVIOUS
<1>1. Waiters = {}
  BY WaitersFinite, FS_EmptySet DEF IInv, WaitwordExact
<1>2. sleepers \subseteq Waiters
  BY DEF IInv, TypeOK, SleepInv, Waiters
<1> QED
  BY <1>1, <1>2

\* No step leaves the lock available with a sleeper and no rescuer.
LEMMA WakeupStep ==
    ASSUME TSO = FALSE, IInv, AcquireInv, AcquireInv', NoLostWakeup, [Next]_vars
    PROVE  NoLostWakeup'
<1> SUFFICES ASSUME s_lock' = 0, sleepers' # {} PROVE Rescuers' # {}
  BY DEF NoLostWakeup
<1> USE DEF IInv, TypeOK, Goto
<1>1. CASE UNCHANGED vars
  BY <1>1 DEF vars, NoLostWakeup, Rescuers
<1>2. ASSUME NEW t \in Threads, Call(t) PROVE Rescuers' # {}
  <2>1. t \in Rescuers'
    BY <1>2 DEF Call, AcquireInv, Rescuers
  <2> QED BY <2>1
<1>3. ASSUME NEW t \in Threads, Xch(t) PROVE FALSE
  BY <1>3 DEF Xch
<1>4. ASSUME NEW t \in Threads, Load(t) PROVE FALSE
  BY <1>4 DEF Load, AcquireInv, AcquireOps, WaitforOps
<1>5. ASSUME NEW t \in Threads, WaitingStart(t) PROVE Rescuers' # {}
  <2>1. PICK u \in Rescuers : TRUE
    BY <1>5 DEF WaitingStart, NoLostWakeup
  <2>2. u \in Rescuers'
    BY <1>5, <2>1 DEF WaitingStart, Rescuers
  <2> QED BY <2>2
<1>6. ASSUME NEW t \in Threads, FutexWait(t) PROVE Rescuers' # {}
  <2>1. pc'[t] = "end" /\ err'[t] = 0
    BY <1>6 DEF FutexWait, SleepInv
  <2>2. t \in Rescuers'
    BY <2>1 DEF Rescuers, AcquireInv
  <2> QED BY <2>2
<1>7. ASSUME NEW t \in Threads, FutexInterrupted(t) PROVE FALSE
  BY <1>7 DEF FutexInterrupted
<1>8. ASSUME NEW t \in Threads, Woken(t) PROVE Rescuers' # {}
  <2>1. pc'[t] = "end" /\ err'[t] = 0
    BY <1>8 DEF Woken, SleepInv
  <2>2. t \in Rescuers'
    BY <2>1 DEF Rescuers, AcquireInv
  <2> QED BY <2>2
<1>9. ASSUME NEW t \in Threads, TimedOut(t) PROVE Rescuers' # {}
  <2>1. PICK u \in Rescuers : TRUE
    BY <1>9 DEF TimedOut, NoLostWakeup
  <2>2. u # t
    BY <1>9, <2>1 DEF TimedOut, Rescuers
  <2>3. u \in Rescuers'
    BY <1>9, <2>1, <2>2 DEF TimedOut, Rescuers
  <2> QED BY <2>3
<1>10. ASSUME NEW t \in Threads, WaitingEnd(t) PROVE Rescuers' # {}
  <2>1. PICK u \in Rescuers : TRUE
    BY <1>10 DEF WaitingEnd, EndWait, AfterWait, NoLostWakeup
  <2>2. u \in Rescuers'
    BY <1>10, <2>1 DEF WaitingEnd, EndWait, AfterWait, Rescuers
  <2> QED BY <2>2
<1>11. ASSUME NEW t \in Threads, ReleaseStore(t) PROVE Rescuers' # {}
  <2>1. t \in Rescuers'
    BY <1>11 DEF ReleaseStore, Rescuers
  <2> QED BY <2>1
<1>12. ASSUME NEW t \in Threads, Drain(t) PROVE FALSE
  BY <1>12 DEF Drain, OwnerInv
<1>13. ASSUME NEW t \in Threads, ReleaseTest(t) PROVE Rescuers' # {}
  <2>1. pc'[t] = "relwake"
    BY <1>13, NoWaiterNoSleeper DEF ReleaseTest
  <2>2. t \in Rescuers'
    BY <2>1 DEF Rescuers
  <2> QED BY <2>2
<1>14. ASSUME NEW t \in Threads, ReleaseWake(t) PROVE Rescuers' # {}
  <2>1. PICK u \in sleepers : sleepers' = sleepers \ {u}
    BY <1>14 DEF ReleaseWake, WakeOne
  <2>2. u \in Rescuers'
    BY <1>14, <2>1 DEF ReleaseWake, SleepInv, AcquireInv, Rescuers
  <2> QED BY <2>2
<1>15. ASSUME NEW t \in Threads, Interrupt(t) PROVE Rescuers' # {}
  BY <1>15 DEF Interrupt, NoLostWakeup, Rescuers
<1>16. ASSUME NEW t \in Threads, WakeGlobal(t) PROVE FALSE
  BY <1>16 DEF WakeGlobal
<1> QED
  BY <1>1, <1>2, <1>3, <1>4, <1>5, <1>6, <1>7, <1>8, <1>9, <1>10, <1>11,
     <1>12, <1>13, <1>14, <1>15, <1>16 DEF Next, Step

\* Among any number of threads that only acquire the lock, in whatever way,
\* with interrupts and timeouts, no wake-up is lost: while the lock is
\* available and somebody sleeps, someone is about to wake a sleeper or to
\* take the lock.  (Both assumptions are needed; the README describes the
\* counterexamples without them.)
THEOREM WakeupSafety ==
    ASSUME Ops \subseteq AcquireOps, TSO = FALSE
    PROVE  Spec => []NoLostWakeup
<1>1. Init => AcquireInv /\ NoLostWakeup
  BY DEF Init, AcquireInv, NoLostWakeup
<1>2. IInv /\ AcquireInv /\ NoLostWakeup /\ [Next]_vars
        => (AcquireInv /\ NoLostWakeup)'
  BY AcquireStep, WakeupStep DEF IInv
<1> QED
  BY <1>1, <1>2, Invariance, PTL DEF Spec

-----------------------------------------------------------------------------
(* The lock implements the abstract mutex. *)

\* The lock word is 1 only while it is owned.
HeldInv == s_lock = 1 => \E t \in Threads : Owns(t)

\* Whoever is about to store the release owns the lock.
LEMMA HeldStep == ASSUME IInv, HeldInv, [Next]_vars PROVE HeldInv'
<1> USE DEF IInv, TypeOK, Goto, HeldInv, Owns, OwnerInv
<1>1. CASE UNCHANGED vars
  BY <1>1 DEF vars
<1>2. ASSUME NEW t \in Threads, Xch(t) PROVE HeldInv'
  <2>1. CASE s_lock = 0
    BY <1>2, <2>1 DEF Xch
  <2>2. CASE s_lock # 0
    <3>1. PICK u \in Threads : Owns(u)
      BY <2>2
    <3>2. PICK label : pc' = [pc EXCEPT ![t] = label]
      BY <1>2, <2>2 DEF Xch
    <3>3. Owns(u)'
      BY <1>2, <3>1, <3>2 DEF Xch
    <3> QED BY <3>3
  <2> QED BY <2>1, <2>2
<1>3. ASSUME NEW t \in Threads, Load(t) PROVE HeldInv'
  <2>1. PICK label : pc' = [pc EXCEPT ![t] = label]
    BY <1>3 DEF Load
  <2> QED BY <1>3, <2>1 DEF Load
<1>4. ASSUME NEW t \in Threads, Call(t) PROVE HeldInv'
  BY <1>4 DEF Call
<1>5. ASSUME NEW t \in Threads, WaitingStart(t) PROVE HeldInv'
  BY <1>5 DEF WaitingStart
<1>6. ASSUME NEW t \in Threads, FutexWait(t) PROVE HeldInv'
  BY <1>6 DEF FutexWait
<1>7. ASSUME NEW t \in Threads, FutexInterrupted(t) PROVE HeldInv'
  BY <1>7 DEF FutexInterrupted
<1>8. ASSUME NEW t \in Threads, Woken(t) PROVE HeldInv'
  BY <1>8 DEF Woken
<1>9. ASSUME NEW t \in Threads, TimedOut(t) PROVE HeldInv'
  BY <1>9 DEF TimedOut
<1>10. ASSUME NEW t \in Threads, WaitingEnd(t) PROVE HeldInv'
  BY <1>10 DEF WaitingEnd, EndWait, AfterWait
<1>11. ASSUME NEW t \in Threads, ReleaseStore(t) PROVE HeldInv'
  BY <1>11 DEF ReleaseStore
<1>12. ASSUME NEW t \in Threads, Drain(t) PROVE HeldInv'
  BY <1>12 DEF Drain
<1>13. ASSUME NEW t \in Threads, ReleaseTest(t) PROVE HeldInv'
  BY <1>13 DEF ReleaseTest
<1>14. ASSUME NEW t \in Threads, ReleaseWake(t) PROVE HeldInv'
  BY <1>14 DEF ReleaseWake
<1>15. ASSUME NEW t \in Threads, Interrupt(t) PROVE HeldInv'
  BY <1>15 DEF Interrupt
<1>16. ASSUME NEW t \in Threads, WakeGlobal(t) PROVE HeldInv'
  BY <1>16 DEF WakeGlobal
<1> QED
  BY <1>1, <1>2, <1>3, <1>4, <1>5, <1>6, <1>7, <1>8, <1>9, <1>10, <1>11, <1>12, <1>13, <1>14, <1>15, <1>16
  DEF Next, Step

\* Places inside a call.
Inside == {"try", "retry", "start", "wait", "asleep", "end"}

\* A thread that moves between two places inside a call takes no step of the
\* abstract mutex.
LEMMA StutterStep ==
    ASSUME TypeOK, NEW t \in Threads, pc[t] \in Inside, NEW label \in Inside,
           pc' = [pc EXCEPT ![t] = label], op' = op, storebuf' = storebuf
    PROVE  UNCHANGED M!vars
<1>1. where' = where
  BY DEF where, TypeOK, Inside
<1>2. call' = call
  BY DEF call
<1> QED
  BY <1>1, <1>2 DEF M!vars

\* Only a timed or an interruptible operation sees an error.
ErrInv == \A t \in Threads : err[t] # 0 => op[t] \in Timed \cup Interruptible

\* Only a thread that is back from its wait carries an error.
LEMMA ErrStep == ASSUME IInv, ErrInv, [Next]_vars PROVE ErrInv'
<1> USE DEF IInv, TypeOK, SleepInv, ErrInv
<1>1. CASE UNCHANGED vars
  BY <1>1 DEF vars
<1>2. ASSUME NEW t \in Threads, FutexInterrupted(t) PROVE ErrInv'
  BY <1>2 DEF FutexInterrupted
<1>3. ASSUME NEW t \in Threads, TimedOut(t) PROVE ErrInv'
  BY <1>3 DEF TimedOut
<1>4. ASSUME NEW t \in Threads, WaitingEnd(t) PROVE ErrInv'
  BY <1>4 DEF WaitingEnd, EndWait, AfterWait
<1>5. ASSUME NEW t \in Threads, Call(t) \/ Xch(t) \/ Load(t) PROVE ErrInv'
  BY <1>5 DEF Call, Xch, Load
<1>6. CASE UNCHANGED <<op, err>>
  BY <1>6
<1> QED
  BY <1>1, <1>2, <1>3, <1>4, <1>5, <1>6
  DEF Next, Step, WaitingStart, FutexWait, Woken, ReleaseStore, Drain,
      ReleaseTest, ReleaseWake, Interrupt, WakeGlobal

\* A thread that finds the lock held gives up only if it tried, or timed out
\* after it had waited.
LEMMA AfterHeldIdle ==
    ASSUME NEW t, "idle" \in AfterHeld(t)
    PROVE  op[t] = "tryacquire" \/ op[t] \in Timed
BY DEF AfterHeld

\* Delegating once is enough, and changes only the infinite timeouts.
LEMMA DelegateTwice ==
    ASSUME NEW o \in AcquireOps \cup WaitforOps
    PROVE  /\ Delegate(Delegate(o)) = Delegate(o)
           /\ o \in Timed \cup Interruptible \cup {"tryacquire"} => Delegate(o) = o
           /\ o \in WaitforOps => Delegate(o) \in WaitforOps
BY DEF Delegate, AcquireOps, WaitforOps, Timed, Interruptible

\* What a thread does after it found the lock held is a refusal, a failure or
\* nothing, seen from outside.
LEMMA HeldRefines ==
    ASSUME IInv, HeldInv, s_lock # 0, NEW t \in Threads, t \notin storebuf,
           pc[t] \in {"try", "retry"},
           NEW label \in AfterHeld(t), Goto(t, label),
           op' = [op EXCEPT ![t] = Delegate(op[t])], storebuf' = storebuf
    PROVE  [M!Next]_M!vars
<1>1. op[t] \in AcquireOps \cup WaitforOps
  BY DEF IInv, TypeOK
<1>2. call' = call
  BY <1>1, DelegateTwice DEF call, IInv, TypeOK
<1>3. label \in {"idle", "try", "start"}
  BY AfterHeldRange
<1>4. CASE label # "idle"
  <2>1. where' = where
    BY <1>3, <1>4 DEF where, Goto, IInv, TypeOK
  <2> QED
    BY <1>2, <2>1 DEF M!vars
<1>5. CASE label = "idle"
  <2>1. op[t] = "tryacquire" \/ op[t] \in Timed
    BY <1>5, AfterHeldIdle
  <2>2. call[t] = op[t]
    BY <1>1, <2>1, DelegateTwice DEF call
  <2>3. where[t] = "in" /\ where' = [where EXCEPT ![t] = "out"]
    BY <1>5 DEF where, Goto, IInv, TypeOK, OwnerInv
  <2>4. PICK u \in Threads : Owns(u)
    BY DEF HeldInv, IInv, TypeOK
  <2>5. u # t /\ (where[u] = "held" \/ u \in storebuf)
    BY <2>4 DEF Owns, where
  <2>6. ~M!Free(t)
    BY <2>5 DEF M!Free
  <2>7. M!Refuse(t) \/ M!Fail(t)
    BY <1>2, <2>1, <2>2, <2>3, <2>6 DEF M!Refuse, M!Fail, M!Move
  <2> QED
    BY <2>7 DEF M!Next
<1> QED
  BY <1>4, <1>5

\* A thread that reads the lock word as 0, from memory or as its own buffered
\* release, finds the abstract lock free: in memory the word is 1 while anybody
\* owns it, and a release in a buffer leaves no other owner.
LEMMA AvailableFree ==
    ASSUME IInv, NEW t \in Threads, Loaded(t) = 0
    PROVE  M!Free(t)
<1>1. \A u \in Threads \ {t} : ~Owns(u)
  <2>1. CASE t \in storebuf
    BY <2>1 DEF IInv, OwnerInv, Owns
  <2>2. CASE t \notin storebuf
    BY <2>2 DEF Loaded, IInv, OwnerInv
  <2> QED BY <2>1, <2>2
<1> QED
  BY <1>1 DEF M!Free, where, Owns

\* Every step of the lock is a step of the abstract mutex, or none.
LEMMA RefinementStep ==
    ASSUME IInv, HeldInv, ErrInv, [Next]_vars
    PROVE  [M!Next]_M!vars
<1>1. CASE UNCHANGED vars
  BY <1>1 DEF vars, M!vars, where, call
<1>2. ASSUME NEW t \in Threads, Call(t) PROVE M!Call(t)
  <2>1. PICK o \in Ops : op' = [op EXCEPT ![t] = o]
    BY <1>2 DEF Call
  <2>2. Delegate(o) \in AcquireOps \cup WaitforOps
    BY <2>1, OpsAssumption, DelegateKind
  <2>3. call' = [call EXCEPT ![t] = Delegate(o)]
    BY <2>1 DEF call, IInv, TypeOK
  <2>4. where[t] = "out" /\ where' = [where EXCEPT ![t] = "in"]
    BY <1>2 DEF Call, Goto, where, IInv, TypeOK
  <2> QED
    BY <1>2, <2>2, <2>3, <2>4 DEF Call, M!Call, M!Move
<1>3. ASSUME NEW t \in Threads, Xch(t) PROVE [M!Next]_M!vars
  <2>1. CASE s_lock = 0
    <3>1. where[t] = "in" /\ where' = [where EXCEPT ![t] = "held"]
      BY <1>3, <2>1 DEF Xch, Goto, where, IInv, TypeOK, OwnerInv
    <3>2. call[t] \in AcquireOps /\ call' = call
      BY <1>3, <2>1, DelegateKind DEF Xch, call
    <3>3. M!Free(t) /\ t \notin storebuf /\ storebuf' = storebuf
      BY <1>3, <2>1, AvailableFree DEF Xch, Loaded
    <3>4. M!Take(t)
      BY <3>1, <3>2, <3>3 DEF M!Take, M!Move
    <3> QED
      BY <3>4 DEF M!Next
  <2>2. CASE s_lock # 0
    <3>1. PICK label \in AfterHeld(t) : Goto(t, label)
      BY <1>3, <2>2 DEF Xch
    <3> QED
      BY <1>3, <2>2, <3>1, HeldRefines DEF Xch
  <2> QED BY <2>1, <2>2
<1>4. ASSUME NEW t \in Threads, Load(t) PROVE [M!Next]_M!vars
  <2>1. CASE Loaded(t) = 0
    <3>1. where[t] = "in" /\ where' = [where EXCEPT ![t] = "out"]
      BY <1>4, <2>1 DEF Load, Goto, where, IInv, TypeOK, OwnerInv
    <3>2. call[t] \in WaitforOps /\ call' = call
      BY <1>4, <2>1, DelegateTwice DEF Load, call
    <3>3. M!SeeFree(t)
      BY <1>4, <2>1, <3>1, <3>2, AvailableFree DEF Load, M!SeeFree, M!Move
    <3> QED
      BY <3>3 DEF M!Next
  <2>2. CASE Loaded(t) # 0
    <3>1. PICK label \in AfterHeld(t) : Goto(t, label)
      BY <1>4, <2>2 DEF Load
    <3> QED
      BY <1>4, <2>2, <3>1, HeldRefines DEF Load, Loaded
  <2> QED BY <2>1, <2>2
<1>5. ASSUME NEW t \in Threads,
             \/ WaitingStart(t) \/ FutexWait(t) \/ Woken(t) \/ TimedOut(t)
             \/ ReleaseTest(t) \/ ReleaseWake(t)
      PROVE  UNCHANGED M!vars
  <2>1. CASE WaitingStart(t)
    BY <2>1, StutterStep DEF Inside, WaitingStart, Goto, IInv
  <2>2. CASE FutexWait(t)
    <3>1. CASE s_lock = 1
      BY <2>2, <3>1, StutterStep DEF Inside, FutexWait, Goto, IInv
    <3>2. CASE s_lock # 1
      BY <2>2, <3>2, StutterStep DEF Inside, FutexWait, Goto, IInv
    <3> QED BY <3>1, <3>2
  <2>3. CASE Woken(t)
    BY <2>3, StutterStep DEF Inside, Woken, Goto, IInv
  <2>4. CASE TimedOut(t)
    BY <2>4, StutterStep DEF Inside, TimedOut, Goto, IInv
  <2>5. CASE ReleaseTest(t)
    <3>1. where' = where
      BY <2>5 DEF ReleaseTest, Goto, where, IInv, TypeOK
    <3> QED BY <2>5, <3>1 DEF ReleaseTest, call, M!vars
  <2>6. CASE ReleaseWake(t)
    <3>1. where' = where
      BY <2>6 DEF ReleaseWake, Goto, where, IInv, TypeOK
    <3> QED BY <2>6, <3>1 DEF ReleaseWake, call, M!vars
  <2> QED
    BY <1>5, <2>1, <2>2, <2>3, <2>4, <2>5, <2>6
<1>6. ASSUME NEW t \in Threads, FutexInterrupted(t) PROVE UNCHANGED M!vars
  <2>1. CASE Goto(t, "end")
    BY <1>6, <2>1, StutterStep DEF Inside, FutexInterrupted, Goto, IInv
  <2>2. CASE UNCHANGED pc
    BY <1>6, <2>2 DEF FutexInterrupted, M!vars, where, call
  <2> QED
    BY <1>6, <2>1, <2>2 DEF FutexInterrupted
<1>7. ASSUME NEW t \in Threads, WaitingEnd(t) PROVE [M!Next]_M!vars
  <2>1. CASE err[t] = 0
    BY <1>7, <2>1, StutterStep DEF Inside, WaitingEnd, EndWait, AfterWait, Goto, IInv
  <2>2. CASE err[t] # 0
    <3>1. where[t] = "in" /\ where' = [where EXCEPT ![t] = "out"]
      BY <1>7, <2>2 DEF WaitingEnd, EndWait, AfterWait, Goto, where, IInv, TypeOK, OwnerInv
    <3>2. call[t] \in Timed \cup Interruptible /\ call' = call
      BY <1>7, <2>2, DelegateTwice DEF WaitingEnd, EndWait, AfterWait, call, ErrInv, IInv, TypeOK
    <3>3. M!Fail(t)
      BY <1>7, <3>1, <3>2 DEF WaitingEnd, EndWait, M!Fail, M!Move
    <3> QED
      BY <3>3 DEF M!Next
  <2> QED BY <2>1, <2>2
<1>8. ASSUME NEW t \in Threads, ReleaseStore(t) PROVE M!Release(t)
  <2>1. where[t] = "held" /\ where' = [where EXCEPT ![t] = "out"]
    BY <1>8 DEF ReleaseStore, Goto, where, IInv, TypeOK
  <2>2. call' = call
    BY <1>8 DEF ReleaseStore, call
  <2> QED
    BY <1>8, <2>1, <2>2 DEF ReleaseStore, M!Release, M!Move
<1>9. ASSUME NEW t \in Threads, Drain(t) PROVE M!Seen(t)
  BY <1>9 DEF Drain, M!Seen, where, call
<1>10. CASE UNCHANGED <<pc, op, storebuf>>
  BY <1>10 DEF M!vars, where, call
<1> QED
  BY <1>1, <1>2, <1>3, <1>4, <1>5, <1>6, <1>7, <1>8, <1>9, <1>10
  DEF Next, Step, Interrupt, WakeGlobal, M!Next

\* For every number of threads and every mix of operations, the futex-based
\* lock implements the abstract mutex: it is taken only when nobody holds it
\* and every release has reached memory, seen available only when nobody else
\* holds it or has a release on its way (the thread's own may be), and a try
\* is refused only when somebody else does.
THEOREM Refinement == Spec => ImplementsMutex
<1>1. Init => M!Init
  <2> SUFFICES ASSUME Init PROVE M!Init
    OBVIOUS
  <2>1. call \in [Threads -> AcquireOps \cup WaitforOps]
    BY DelegateKind, OpsAssumption DEF Init, call
  <2> QED
    BY <2>1 DEF Init, M!Init, where
<1>2. Init => HeldInv /\ ErrInv
  BY DEF Init, HeldInv, ErrInv
<1>3. IInv /\ HeldInv /\ ErrInv /\ [Next]_vars => (HeldInv /\ ErrInv)'
  BY HeldStep, ErrStep
<1>4. IInv /\ HeldInv /\ ErrInv /\ [Next]_vars => [M!Next]_M!vars
  BY RefinementStep
<1> QED
  BY <1>1, <1>2, <1>3, <1>4, Invariance, PTL DEF Spec, M!Spec, ImplementsMutex

=============================================================================
