-------------------------- MODULE Semaphore_proofs --------------------------
(***************************************************************************)
(* Proofs about Dee_semaphore_t, for any finite set of threads, any batch  *)
(* sizes and any bound on the tickets.                                     *)
(***************************************************************************)
EXTENDS Semaphore, FiniteSetTheorems, TLAPS

\* The futex holds only threads that went to sleep, and a wait's error lives
\* only until the waitword was decremented.
SleepInv == /\ \A t \in sleepers : pc[t] = "asleep"
            /\ \A t \in Threads : err[t] # 0 => pc[t] = "end"

\* Whoever is about to compare and exchange wants a ticket and has seen one.
CasInv == \A t \in Threads : pc[t] \in {"cas", "recas"} => op[t].take /\ temp[t] > 0

\* The inductive invariant of the semaphore, whatever functions are called.
IInv == TypeOK /\ SleepInv /\ CasInv /\ WaitwordExact

\* The functions that do what they say: Dee_semaphore_acquire_timed with an infinite
\* timeout, which hands over to Dee_semaphore_waitfor, is not called.
NoInfiniteAcquire == \A o \in Ops : o.take => o.tmo # "inf"

\* The functions that take a ticket, without the one above.
OnlyAcquire == \A o \in Ops : o.take /\ o.tmo # "inf"

-----------------------------------------------------------------------------

\* The function that takes over is a function of the semaphore.
LEMMA DelegateType == ASSUME NEW o \in Operations PROVE Delegate(o) \in Operations
BY DEF Delegate, Operations

\* It asks for a ticket exactly if the caller did, unless that was with an infinite
\* timeout.
LEMMA DelegateTake ==
    ASSUME NEW o \in Operations, o.take => o.tmo # "inf"
    PROVE  o.take = Delegate(o).take /\ Delegate(o).tmo # "inf"
BY DEF Delegate, Operations

\* A thread that finds no ticket goes on to one of these places.
LEMMA AfterRefusedRange ==
    ASSUME NEW t, NEW label \in AfterRefused(t)
    PROVE  label \in {"idle", "try", "start"}
BY DEF AfterRefused

\* The threads that wait are finitely many.
LEMMA WaitersFinite == IsFiniteSet(Waiters) /\ Cardinality(Waiters) \in Nat
BY ThreadsAssumption, FS_Subset, FS_CardinalityType DEF Waiters

\* All threads are outside, with some tickets to begin with.
LEMMA InitIInv == Init => IInv
<1> SUFFICES ASSUME Init PROVE IInv
  OBVIOUS
<1>1. TypeOK
  <2>1. asked \in [Threads -> BOOLEAN]
    BY Zenon DEF Init
  <2> QED
    BY <2>1, OpsAssumption, BatchesAssumption DEF Init, TypeOK, PCs
<1>2. Waiters = {}
  BY DEF Init, Waiters
<1>3. WaitwordExact
  BY <1>2, FS_EmptySet DEF Init, WaitwordExact
<1>4. SleepInv /\ CasInv
  BY DEF Init, SleepInv, CasInv
<1> QED
  BY <1>1, <1>3, <1>4 DEF IInv

\* The variables keep their types.
LEMMA TypeStep == ASSUME IInv, [Next]_vars PROVE TypeOK'
<1> USE BatchesAssumption DEF IInv, TypeOK, PCs, Goto, Succeed, WakeAll
<1>1. CASE UNCHANGED vars
  BY <1>1 DEF vars
<1>2. ASSUME NEW t \in Threads, Call(t) PROVE TypeOK'
  <2>1. PICK o \in Ops : /\ op' = [op EXCEPT ![t] = o]
                         /\ asked' = [asked EXCEPT ![t] = o.take]
    BY <1>2 DEF Call
  <2>2. o \in Operations /\ o.take \in BOOLEAN
    BY OpsAssumption DEF Operations
  <2> QED
    BY <1>2, <2>1, <2>2 DEF Call
<1>3. ASSUME NEW t \in Threads, Load(t) PROVE TypeOK'
  <2>1. CASE se_tickets = 0
    <3>1. PICK label \in AfterRefused(t) : Goto(t, label)
      BY <1>3, <2>1 DEF Load
    <3>2. label \in {"idle", "try", "start"}
      BY <3>1, AfterRefusedRange
    <3>3. Delegate(op[t]) \in Operations
      BY DelegateType
    <3> QED
      BY <1>3, <2>1, <3>1, <3>2, <3>3 DEF Load
  <2>2. CASE se_tickets # 0
    BY <1>3, <2>2 DEF Load
  <2> QED BY <2>1, <2>2
<1>4. ASSUME NEW t \in Threads, CmpXch(t) PROVE TypeOK'
  <2>1. temp[t] > 0
    BY <1>4 DEF CmpXch, CmpXchIf, CasInv
  <2> QED
    BY <1>4, <2>1 DEF CmpXch, CmpXchIf
<1>5. ASSUME NEW t \in Threads, WaitingStart(t) PROVE TypeOK'
  BY <1>5 DEF WaitingStart
<1>6. ASSUME NEW t \in Threads, FutexWait(t) PROVE TypeOK'
  BY <1>6 DEF FutexWait
<1>7. ASSUME NEW t \in Threads, FutexInterrupted(t) PROVE TypeOK'
  BY <1>7 DEF FutexInterrupted
<1>8. ASSUME NEW t \in Threads, Woken(t) PROVE TypeOK'
  BY <1>8 DEF Woken
<1>9. ASSUME NEW t \in Threads, TimedOut(t) PROVE TypeOK'
  BY <1>9 DEF TimedOut
<1>10. ASSUME NEW t \in Threads, WaitingEnd(t) PROVE TypeOK'
  <2>1. t \in Waiters
    BY <1>10 DEF WaitingEnd, EndWait, Waiters
  <2>2. se_waiting # 0
    BY <2>1, WaitersFinite, FS_EmptySet DEF WaitwordExact
  <2> QED
    BY <1>10, <2>2 DEF WaitingEnd, EndWait
<1>11. ASSUME NEW t \in Threads, WakeTest(t) PROVE TypeOK'
  BY <1>11 DEF WakeTest, WakeTestFrom
<1>12. ASSUME NEW t \in Threads, Wake(t) PROVE TypeOK'
  BY <1>12 DEF Wake, WakeOne
<1>13. ASSUME NEW t \in Threads, NEW n \in Batches, Release(t, n) PROVE TypeOK'
  BY <1>13 DEF Release, ReleaseThen
<1>14. ASSUME NEW t \in Threads, Interrupt(t) PROVE TypeOK'
  BY <1>14 DEF Interrupt
<1>15. ASSUME NEW t \in Threads, WakeGlobal(t) PROVE TypeOK'
  BY <1>15 DEF WakeGlobal
<1> QED
  BY <1>1, <1>2, <1>3, <1>4, <1>5, <1>6, <1>7, <1>8, <1>9, <1>10, <1>11, <1>12, <1>13, <1>14, <1>15 DEF Next, Step

\* A thread is in the set of sleepers only while it sleeps, and compares only what
\* it has loaded.
LEMMA PlaceStep == ASSUME IInv, [Next]_vars PROVE SleepInv' /\ CasInv'
<1> USE BatchesAssumption DEF IInv, TypeOK, PCs, SleepInv, CasInv, Goto, Succeed, WakeAll
<1>1. CASE UNCHANGED vars
  BY <1>1 DEF vars
<1>2. ASSUME NEW t \in Threads, Call(t) PROVE SleepInv' /\ CasInv'
  BY <1>2 DEF Call
<1>3. ASSUME NEW t \in Threads, Load(t) PROVE SleepInv' /\ CasInv'
  <2>1. CASE se_tickets = 0
    <3>1. PICK label \in AfterRefused(t) : Goto(t, label)
      BY <1>3, <2>1 DEF Load
    <3>2. label \in {"idle", "try", "start"}
      BY <3>1, AfterRefusedRange
    <3>3. Delegate(op[t]) \in Operations
      BY DelegateType
    <3> QED
      BY <1>3, <2>1, <3>1, <3>2, <3>3 DEF Load
  <2>2. CASE se_tickets # 0
    BY <1>3, <2>2 DEF Load
  <2> QED BY <2>1, <2>2
<1>4. ASSUME NEW t \in Threads, CmpXch(t) PROVE SleepInv' /\ CasInv'
  BY <1>4 DEF CmpXch, CmpXchIf
<1>5. ASSUME NEW t \in Threads, WaitingStart(t) PROVE SleepInv' /\ CasInv'
  BY <1>5 DEF WaitingStart
<1>6. ASSUME NEW t \in Threads, FutexWait(t) PROVE SleepInv' /\ CasInv'
  BY <1>6 DEF FutexWait
<1>7. ASSUME NEW t \in Threads, FutexInterrupted(t) PROVE SleepInv' /\ CasInv'
  BY <1>7 DEF FutexInterrupted
<1>8. ASSUME NEW t \in Threads, Woken(t) PROVE SleepInv' /\ CasInv'
  BY <1>8 DEF Woken
<1>9. ASSUME NEW t \in Threads, TimedOut(t) PROVE SleepInv' /\ CasInv'
  BY <1>9 DEF TimedOut
<1>10. ASSUME NEW t \in Threads, WaitingEnd(t) PROVE SleepInv' /\ CasInv'
  BY <1>10 DEF WaitingEnd, EndWait
<1>11. ASSUME NEW t \in Threads, WakeTest(t) PROVE SleepInv' /\ CasInv'
  BY <1>11 DEF WakeTest, WakeTestFrom
<1>12. ASSUME NEW t \in Threads, Wake(t) PROVE SleepInv' /\ CasInv'
  BY <1>12 DEF Wake, WakeOne
<1>13. ASSUME NEW t \in Threads, NEW n \in Batches, Release(t, n) PROVE SleepInv' /\ CasInv'
  BY <1>13 DEF Release, ReleaseThen
<1>14. ASSUME NEW t \in Threads, Interrupt(t) PROVE SleepInv' /\ CasInv'
  BY <1>14 DEF Interrupt
<1>15. ASSUME NEW t \in Threads, WakeGlobal(t) PROVE SleepInv' /\ CasInv'
  BY <1>15 DEF WakeGlobal
<1> QED
  BY <1>1, <1>2, <1>3, <1>4, <1>5, <1>6, <1>7, <1>8, <1>9, <1>10, <1>11, <1>12, <1>13, <1>14, <1>15 DEF Next, Step

\* The waitword follows the threads in and out of the wait.
LEMMA WaitwordStep == ASSUME IInv, [Next]_vars PROVE WaitwordExact'
<1> DEFINE Quiet == Waiters' = Waiters /\ se_waiting' = se_waiting
<1> USE DEF IInv, TypeOK, PCs, Goto, Succeed
<1>1. ASSUME UNCHANGED vars PROVE Quiet
  BY <1>1 DEF vars, Waiters
<1>2. ASSUME NEW t \in Threads, Call(t) PROVE Quiet
  BY <1>2 DEF Call, Waiters
<1>3. ASSUME NEW t \in Threads, Load(t) PROVE Quiet
  <2>1. CASE se_tickets = 0
    <3>1. PICK label \in AfterRefused(t) : Goto(t, label)
      BY <1>3, <2>1 DEF Load
    <3>2. label \in {"idle", "try", "start"}
      BY <3>1, AfterRefusedRange
    <3> QED
      BY <1>3, <2>1, <3>1, <3>2 DEF Load, Waiters
  <2>2. CASE se_tickets # 0
    BY <1>3, <2>2 DEF Load, Waiters
  <2> QED BY <2>1, <2>2
<1>4. ASSUME NEW t \in Threads, CmpXch(t) PROVE Quiet
  BY <1>4 DEF CmpXch, CmpXchIf, Waiters
<1>5. ASSUME NEW t \in Threads, WaitingStart(t) PROVE WaitwordExact'
  <2>1. Waiters' = Waiters \cup {t} /\ t \notin Waiters
    BY <1>5 DEF WaitingStart, Waiters
  <2>2. Cardinality(Waiters') = Cardinality(Waiters) + 1
    BY <2>1, WaitersFinite, FS_AddElement
  <2> QED
    BY <1>5, <2>2 DEF WaitingStart, WaitwordExact
<1>6. ASSUME NEW t \in Threads, FutexWait(t) PROVE Quiet
  BY <1>6 DEF FutexWait, Waiters
<1>7. ASSUME NEW t \in Threads, FutexInterrupted(t) PROVE Quiet
  BY <1>7 DEF FutexInterrupted, Waiters
<1>8. ASSUME NEW t \in Threads, Woken(t) PROVE Quiet
  BY <1>8 DEF Woken, Waiters
<1>9. ASSUME NEW t \in Threads, TimedOut(t) PROVE Quiet
  BY <1>9 DEF TimedOut, Waiters
<1>10. ASSUME NEW t \in Threads, WaitingEnd(t) PROVE WaitwordExact'
  <2>1. Waiters' = Waiters \ {t} /\ t \in Waiters
    BY <1>10 DEF WaitingEnd, EndWait, Waiters
  <2>2. Cardinality(Waiters') = Cardinality(Waiters) - 1
    BY <2>1, WaitersFinite, FS_RemoveElement
  <2> QED
    BY <1>10, <2>2 DEF WaitingEnd, EndWait, WaitwordExact
<1>11. ASSUME NEW t \in Threads, WakeTest(t) PROVE Quiet
  BY <1>11 DEF WakeTest, WakeTestFrom, Waiters
<1>12. ASSUME NEW t \in Threads, Wake(t) PROVE Quiet
  BY <1>12 DEF Wake, WakeOne, Waiters
<1>13. ASSUME NEW t \in Threads, NEW n \in Batches, Release(t, n) PROVE Quiet
  BY <1>13 DEF Release, ReleaseThen, Waiters
<1>14. ASSUME NEW t \in Threads, Interrupt(t) PROVE Quiet
  BY <1>14 DEF Interrupt, Waiters
<1>15. ASSUME NEW t \in Threads, WakeGlobal(t) PROVE Quiet
  BY <1>15 DEF WakeGlobal, Waiters
<1>16. ASSUME Quiet PROVE WaitwordExact'
  BY <1>16 DEF WaitwordExact
<1> HIDE DEF Quiet
<1> QED
  BY <1>1, <1>2, <1>3, <1>4, <1>5, <1>6, <1>7, <1>8, <1>9, <1>10, <1>11, <1>12, <1>13, <1>14, <1>15, <1>16 DEF Next, Step

\* The invariant holds throughout.
LEMMA InvariantHolds == Spec => []IInv
<1>1. IInv /\ [Next]_vars => IInv'
  BY TypeStep, PlaceStep, WaitwordStep DEF IInv
<1> QED
  BY <1>1, InitIInv, PTL DEF Spec

\* Neither the tickets nor the waitword drop below 0, where they would wrap around.
THEOREM TypeCorrect == Spec => []TypeOK
<1>1. IInv => TypeOK
  BY DEF IInv
<1> QED
  BY <1>1, InvariantHolds, PTL

\* The waitword is exact on every path out of a wait, that of a timeout or an
\* exception included.
THEOREM WaitwordCorrect == Spec => []WaitwordExact
<1>1. IInv => WaitwordExact
  BY DEF IInv
<1> QED
  BY <1>1, InvariantHolds, PTL

-----------------------------------------------------------------------------
(* Tickets *)

CallPCs == {"try", "cas", "retry", "recas", "start", "wait", "asleep", "end"}

\* Inside a call a thread is in a function that takes a ticket exactly if it asked
\* for one.
AskedInv == /\ \A t \in Threads : op[t].take => op[t].tmo # "inf"
            /\ \A t \in Threads : pc[t] \in CallPCs => asked[t] = op[t].take

\* A thread goes on in the function that it called.
LEMMA AskedStep ==
    ASSUME NoInfiniteAcquire, IInv, AskedInv, [Next]_vars
    PROVE  AskedInv'
<1> USE DEF IInv, TypeOK, PCs, AskedInv, CallPCs, Goto, Succeed
<1>1. CASE UNCHANGED vars
  BY <1>1 DEF vars
<1>2. ASSUME NEW t \in Threads, Call(t) PROVE AskedInv'
  <2>1. PICK o \in Ops : /\ op' = [op EXCEPT ![t] = o]
                         /\ asked' = [asked EXCEPT ![t] = o.take]
    BY <1>2 DEF Call
  <2>2. o.take => o.tmo # "inf"
    BY DEF NoInfiniteAcquire
  <2> QED
    BY <1>2, <2>1, <2>2 DEF Call
<1>3. ASSUME NEW t \in Threads, Load(t) PROVE AskedInv'
  <2>1. CASE se_tickets = 0
    <3>1. PICK label \in AfterRefused(t) : Goto(t, label)
      BY <1>3, <2>1 DEF Load
    <3>2. label \in {"idle", "try", "start"}
      BY <3>1, AfterRefusedRange
    <3>3. op' = [op EXCEPT ![t] = Delegate(op[t])] /\ asked' = asked
      BY <1>3, <2>1 DEF Load
    <3>4. op[t].take = Delegate(op[t]).take /\ Delegate(op[t]).tmo # "inf"
      BY DelegateTake
    <3>5. pc[t] \in CallPCs
      BY <1>3 DEF Load
    <3> QED
      BY <3>1, <3>2, <3>3, <3>4, <3>5
  <2>2. CASE se_tickets # 0
    BY <1>3, <2>2 DEF Load
  <2> QED BY <2>1, <2>2
<1>4. ASSUME NEW t \in Threads, CmpXch(t) PROVE AskedInv'
  BY <1>4 DEF CmpXch, CmpXchIf
<1>5. ASSUME NEW t \in Threads, WaitingStart(t) PROVE AskedInv'
  BY <1>5 DEF WaitingStart
<1>6. ASSUME NEW t \in Threads, FutexWait(t) PROVE AskedInv'
  BY <1>6 DEF FutexWait
<1>7. ASSUME NEW t \in Threads, FutexInterrupted(t) PROVE AskedInv'
  BY <1>7 DEF FutexInterrupted
<1>8. ASSUME NEW t \in Threads, Woken(t) PROVE AskedInv'
  BY <1>8 DEF Woken
<1>9. ASSUME NEW t \in Threads, TimedOut(t) PROVE AskedInv'
  BY <1>9 DEF TimedOut
<1>10. ASSUME NEW t \in Threads, WaitingEnd(t) PROVE AskedInv'
  BY <1>10 DEF WaitingEnd, EndWait
<1>11. ASSUME NEW t \in Threads, WakeTest(t) PROVE AskedInv'
  BY <1>11 DEF WakeTest, WakeTestFrom
<1>12. ASSUME NEW t \in Threads, Wake(t) PROVE AskedInv'
  BY <1>12 DEF Wake, WakeOne
<1>13. ASSUME NEW t \in Threads, NEW n \in Batches, Release(t, n) PROVE AskedInv'
  BY <1>13 DEF Release, ReleaseThen
<1>14. ASSUME NEW t \in Threads, Interrupt(t) PROVE AskedInv'
  BY <1>14 DEF Interrupt
<1>15. ASSUME NEW t \in Threads, WakeGlobal(t) PROVE AskedInv'
  BY <1>15 DEF WakeGlobal
<1> QED
  BY <1>1, <1>2, <1>3, <1>4, <1>5, <1>6, <1>7, <1>8, <1>9, <1>10, <1>11, <1>12, <1>13, <1>14, <1>15 DEF Next, Step

\* A successful exchange takes one ticket for the one call that reports it.
LEMMA TicketsStep ==
    ASSUME IInv, AskedInv, TicketsConserved, [Next]_vars
    PROVE  TicketsConserved'
<1> USE BatchesAssumption DEF IInv, TypeOK, PCs, AskedInv, CallPCs, TicketsConserved, Goto, Succeed
<1>1. CASE UNCHANGED vars
  BY <1>1 DEF vars
<1>2. ASSUME NEW t \in Threads, Call(t) PROVE TicketsConserved'
  BY <1>2 DEF Call
<1>3. ASSUME NEW t \in Threads, Load(t) PROVE TicketsConserved'
  <2>1. CASE se_tickets = 0
    BY <1>3, <2>1 DEF Load
  <2>2. CASE se_tickets # 0
    BY <1>3, <2>2 DEF Load
  <2> QED BY <2>1, <2>2
<1>4. ASSUME NEW t \in Threads, CmpXch(t) PROVE TicketsConserved'
  <2>1. asked[t]
    BY <1>4 DEF CmpXch, CmpXchIf, CasInv
  <2> QED
    BY <1>4, <2>1 DEF CmpXch, CmpXchIf
<1>5. ASSUME NEW t \in Threads, WaitingStart(t) PROVE TicketsConserved'
  BY <1>5 DEF WaitingStart
<1>6. ASSUME NEW t \in Threads, FutexWait(t) PROVE TicketsConserved'
  BY <1>6 DEF FutexWait
<1>7. ASSUME NEW t \in Threads, FutexInterrupted(t) PROVE TicketsConserved'
  BY <1>7 DEF FutexInterrupted
<1>8. ASSUME NEW t \in Threads, Woken(t) PROVE TicketsConserved'
  BY <1>8 DEF Woken
<1>9. ASSUME NEW t \in Threads, TimedOut(t) PROVE TicketsConserved'
  BY <1>9 DEF TimedOut
<1>10. ASSUME NEW t \in Threads, WaitingEnd(t) PROVE TicketsConserved'
  BY <1>10 DEF WaitingEnd, EndWait
<1>11. ASSUME NEW t \in Threads, WakeTest(t) PROVE TicketsConserved'
  BY <1>11 DEF WakeTest, WakeTestFrom
<1>12. ASSUME NEW t \in Threads, Wake(t) PROVE TicketsConserved'
  BY <1>12 DEF Wake, WakeOne
<1>13. ASSUME NEW t \in Threads, NEW n \in Batches, Release(t, n) PROVE TicketsConserved'
  BY <1>13 DEF Release, ReleaseThen
<1>14. ASSUME NEW t \in Threads, Interrupt(t) PROVE TicketsConserved'
  BY <1>14 DEF Interrupt
<1>15. ASSUME NEW t \in Threads, WakeGlobal(t) PROVE TicketsConserved'
  BY <1>15 DEF WakeGlobal
<1> QED
  BY <1>1, <1>2, <1>3, <1>4, <1>5, <1>6, <1>7, <1>8, <1>9, <1>10, <1>11, <1>12, <1>13, <1>14, <1>15 DEF Next, Step

\* A ticket is handed out once, whatever mix of trying, waiting, timed and interrupted
\* calls competes for it.
THEOREM TicketSafety ==
    ASSUME NoInfiniteAcquire
    PROVE  Spec => []TicketsConserved
<1> DEFINE Inv == IInv /\ AskedInv /\ TicketsConserved
<1>1. Init => Inv
  BY InitIInv DEF Init, AskedInv, CallPCs, TicketsConserved, NoInfiniteAcquire
<1>2. Inv /\ [Next]_vars => Inv'
  BY TypeStep, PlaceStep, WaitwordStep, AskedStep, TicketsStep DEF IInv
<1>3. Inv => TicketsConserved
  OBVIOUS
<1> QED
  BY <1>1, <1>2, <1>3, PTL DEF Spec

-----------------------------------------------------------------------------
(* Wake-ups *)

\* Every call is to take a ticket.
TakeInv == \A t \in Threads : op[t].take /\ op[t].tmo # "inf"

\* No step makes another call than one to take a ticket.
LEMMA TakeStep == ASSUME OnlyAcquire, IInv, TakeInv, [Next]_vars PROVE TakeInv'
<1> USE DEF IInv, TypeOK, TakeInv
<1>1. CASE UNCHANGED vars
  BY <1>1 DEF vars
<1>2. ASSUME NEW t \in Threads, Call(t) PROVE TakeInv'
  <2>1. PICK o \in Ops : op' = [op EXCEPT ![t] = o]
    BY <1>2 DEF Call
  <2> QED
    BY <2>1 DEF OnlyAcquire
<1>3. ASSUME NEW t \in Threads, Load(t) PROVE TakeInv'
  <2>1. Delegate(op[t]).take /\ Delegate(op[t]).tmo # "inf"
    BY DelegateTake
  <2> QED
    BY <1>3, <2>1 DEF Load
<1>4. ASSUME NEW t \in Threads, CmpXch(t) PROVE TakeInv'
  BY <1>4 DEF CmpXch, CmpXchIf
<1>5. ASSUME NEW t \in Threads, WaitingStart(t) PROVE TakeInv'
  BY <1>5 DEF WaitingStart
<1>6. ASSUME NEW t \in Threads, FutexWait(t) PROVE TakeInv'
  BY <1>6 DEF FutexWait
<1>7. ASSUME NEW t \in Threads, FutexInterrupted(t) PROVE TakeInv'
  BY <1>7 DEF FutexInterrupted
<1>8. ASSUME NEW t \in Threads, Woken(t) PROVE TakeInv'
  BY <1>8 DEF Woken
<1>9. ASSUME NEW t \in Threads, TimedOut(t) PROVE TakeInv'
  BY <1>9 DEF TimedOut
<1>10. ASSUME NEW t \in Threads, WaitingEnd(t) PROVE TakeInv'
  BY <1>10 DEF WaitingEnd, EndWait
<1>11. ASSUME NEW t \in Threads, WakeTest(t) PROVE TakeInv'
  BY <1>11 DEF WakeTest, WakeTestFrom
<1>12. ASSUME NEW t \in Threads, Wake(t) PROVE TakeInv'
  BY <1>12 DEF Wake, WakeOne
<1>13. ASSUME NEW t \in Threads, NEW n \in Batches, Release(t, n) PROVE TakeInv'
  BY <1>13 DEF Release, ReleaseThen
<1>14. ASSUME NEW t \in Threads, Interrupt(t) PROVE TakeInv'
  BY <1>14 DEF Interrupt
<1>15. ASSUME NEW t \in Threads, WakeGlobal(t) PROVE TakeInv'
  BY <1>15 DEF WakeGlobal
<1> QED
  BY <1>1, <1>2, <1>3, <1>4, <1>5, <1>6, <1>7, <1>8, <1>9, <1>10, <1>11, <1>12, <1>13, <1>14, <1>15 DEF Next, Step

\* Who will do something about a ticket: take it, or wake somebody for it.
Rescuers == Contenders \cup {t \in Threads : pc[t] \in WakePCs}

\* There are finitely many rescuers, before and after a step.
LEMMA RescuersFinite ==
    /\ IsFiniteSet(Rescuers) /\ Cardinality(Rescuers) \in Nat
    /\ IsFiniteSet(Rescuers') /\ Cardinality(Rescuers') \in Nat
<1>1. Rescuers \subseteq Threads /\ Rescuers' \subseteq Threads
  BY DEF Rescuers, Contenders
<1> QED
  BY <1>1, ThreadsAssumption, FS_Subset, FS_CardinalityType

\* A step that drops no rescuer leaves at least as many.
LEMMA RescuersGrow ==
    ASSUME Rescuers \subseteq Rescuers'
    PROVE  Cardinality(Rescuers) <= Cardinality(Rescuers')
BY RescuersFinite, FS_Subset

\* While nobody counts as waiting, nobody sleeps.
LEMMA NoWaiterNoSleeper == ASSUME IInv, se_waiting < 1 PROVE sleepers = {}
<1>1. Waiters = {}
  BY WaitersFinite, FS_EmptySet DEF IInv, TypeOK, WaitwordExact
<1> QED
  BY <1>1 DEF IInv, TypeOK, SleepInv, Waiters

\* Somebody is about to wake everyone.
WakesAll == \E t \in Threads : pc[t] \in {"testn", "wakeall"}

\* No lost wake-up survives every step: whoever leaves the rescuers has taken a
\* ticket, has seen that nobody waits, or has woken a thread that takes its place.
LEMMA WakeupStep ==
    ASSUME IInv, TakeInv, NoLostWakeup, [Next]_vars, TypeOK'
    PROVE  NoLostWakeup'
<1> DEFINE Quiet == /\ sleepers' \subseteq sleepers
                    /\ WakesAll => WakesAll'
                    /\ se_tickets' = se_tickets
                    /\ Rescuers \subseteq Rescuers'
           Good == sleepers' = {} \/ se_tickets' = 0 \/ Quiet
<1>0. /\ NoLostWakeup <=> sleepers = {} \/ WakesAll \/ se_tickets <= Cardinality(Rescuers)
      /\ NoLostWakeup' <=> sleepers' = {} \/ WakesAll' \/ se_tickets' <= Cardinality(Rescuers')
  BY DEF NoLostWakeup, WakesAll, Rescuers
<1> USE DEF IInv, TypeOK, PCs, SleepInv, TakeInv, Goto, Succeed, WakeAll
<1>1. ASSUME UNCHANGED vars PROVE Good
  BY <1>1 DEF vars, Rescuers, Contenders, WakePCs, WakesAll
<1>2. ASSUME NEW t \in Threads, Call(t) PROVE Good
  BY <1>2 DEF Call, Rescuers, Contenders, WakePCs, WakesAll
<1>3. ASSUME NEW t \in Threads, Load(t) PROVE Good
  <2>1. CASE se_tickets = 0
    BY <1>3, <2>1 DEF Load
  <2>2. CASE se_tickets # 0
    BY <1>3, <2>2 DEF Load, Rescuers, Contenders, WakePCs, WakesAll
  <2> QED BY <2>1, <2>2
<1>4. ASSUME NEW t \in Threads, CmpXch(t) PROVE NoLostWakeup'
  <2>1. CASE se_tickets = temp[t]
    <3>1. t \in Rescuers /\ Rescuers' = Rescuers \ {t}
      BY <1>4, <2>1 DEF CmpXch, CmpXchIf, Rescuers, Contenders, WakePCs
    <3>2. Cardinality(Rescuers') = Cardinality(Rescuers) - 1
      BY <3>1, RescuersFinite, FS_RemoveElement
    <3>3. WakesAll => WakesAll'
      BY <1>4 DEF CmpXch, CmpXchIf, WakesAll
    <3>4. se_tickets' = se_tickets - 1 /\ sleepers' = sleepers
      BY <1>4, <2>1 DEF CmpXch, CmpXchIf
    <3> QED
      BY <1>0, <3>2, <3>3, <3>4, RescuersFinite
  <2>2. CASE se_tickets # temp[t]
    <3>1. Quiet
      BY <1>4, <2>2 DEF CmpXch, CmpXchIf, Rescuers, Contenders, WakePCs, WakesAll
    <3> QED
      BY <1>0, <3>1, RescuersGrow, RescuersFinite
  <2> QED BY <2>1, <2>2
<1>5. ASSUME NEW t \in Threads, WaitingStart(t) PROVE Good
  BY <1>5 DEF WaitingStart, Rescuers, Contenders, WakePCs, WakesAll
<1>6. ASSUME NEW t \in Threads, FutexWait(t) PROVE Good
  <2>1. CASE se_tickets = 0
    BY <1>6, <2>1 DEF FutexWait
  <2>2. CASE se_tickets # 0
    BY <1>6, <2>2 DEF FutexWait, Rescuers, Contenders, WakePCs, WakesAll
  <2> QED BY <2>1, <2>2
<1>7. ASSUME NEW t \in Threads, FutexInterrupted(t) PROVE Good
  BY <1>7 DEF FutexInterrupted, Rescuers, Contenders, WakePCs, WakesAll
<1>8. ASSUME NEW t \in Threads, Woken(t) PROVE Good
  BY <1>8 DEF Woken, Rescuers, Contenders, WakePCs, WakesAll
<1>9. ASSUME NEW t \in Threads, TimedOut(t) PROVE Good
  BY <1>9 DEF TimedOut, Rescuers, Contenders, WakePCs, WakesAll
<1>10. ASSUME NEW t \in Threads, WaitingEnd(t) PROVE Good
  BY <1>10 DEF WaitingEnd, EndWait, Rescuers, Contenders, WakePCs, WakesAll
<1>11. ASSUME NEW t \in Threads, WakeTest(t) PROVE Good
  <2>1. CASE se_waiting < 1
    BY <1>11, <2>1, NoWaiterNoSleeper DEF WakeTest, WakeTestFrom
  <2>2. CASE ~(se_waiting < 1)
    BY <1>11, <2>2 DEF WakeTest, WakeTestFrom, Rescuers, Contenders, WakePCs, WakesAll
  <2> QED BY <2>1, <2>2
<1>12. ASSUME NEW t \in Threads, Wake(t) PROVE NoLostWakeup'
  <2>1. CASE sleepers' = {}
    BY <1>0, <2>1
  <2>2. CASE sleepers' # {}
    <3>1. pc[t] = "wakeone" /\ sleepers # {}
      BY <1>12, <2>2 DEF Wake, WakeOne
    <3>2. PICK u \in sleepers : sleepers' = sleepers \ {u}
      BY <1>12, <3>1 DEF Wake, WakeOne
    <3>3. u \in Threads /\ u # t /\ pc[u] = "asleep" /\ u \notin Rescuers /\ t \in Rescuers
      BY <3>1 DEF Rescuers, Contenders, WakePCs
    <3>4. Rescuers' = (Rescuers \ {t}) \cup {u}
      BY <1>12, <3>1, <3>2, <3>3 DEF Wake, Rescuers, Contenders, WakePCs
    <3>5. Cardinality(Rescuers') = Cardinality(Rescuers)
      <4>1. /\ IsFiniteSet(Rescuers \ {t})
            /\ Cardinality(Rescuers \ {t}) = Cardinality(Rescuers) - 1
        BY <3>3, RescuersFinite, FS_RemoveElement
      <4>2. Cardinality(Rescuers') = Cardinality(Rescuers \ {t}) + 1
        BY <3>3, <3>4, <4>1, FS_AddElement
      <4> QED BY <4>1, <4>2, RescuersFinite
    <3>6. WakesAll => WakesAll'
      BY <1>12, <3>1 DEF Wake, WakesAll
    <3> QED
      BY <1>0, <1>12, <2>2, <3>1, <3>5, <3>6 DEF Wake
  <2> QED BY <2>1, <2>2
<1>13. ASSUME NEW t \in Threads, NEW n \in Batches, Release(t, n) PROVE NoLostWakeup'
  <2>1. CASE n > 1
    <3>1. WakesAll'
      BY <1>13, <2>1, BatchesAssumption DEF Release, ReleaseThen, WakesAll
    <3> QED BY <1>0, <3>1
  <2>2. CASE ~(n > 1)
    <3>1. t \notin Rescuers /\ Rescuers' = Rescuers \cup {t}
      BY <1>13, <2>2, BatchesAssumption DEF Release, ReleaseThen, Rescuers, Contenders, WakePCs
    <3>2. Cardinality(Rescuers') = Cardinality(Rescuers) + 1
      BY <3>1, RescuersFinite, FS_AddElement
    <3>3. WakesAll => WakesAll'
      BY <1>13 DEF Release, ReleaseThen, WakesAll
    <3>4. /\ n \in Nat /\ n <= 1
          /\ se_tickets' = se_tickets + n /\ sleepers' = sleepers
      BY <1>13, <2>2, BatchesAssumption DEF Release, ReleaseThen
    <3> QED
      BY <1>0, <3>2, <3>3, <3>4, RescuersFinite
  <2> QED BY <2>1, <2>2
<1>14. ASSUME NEW t \in Threads, Interrupt(t) PROVE Good
  BY <1>14 DEF Interrupt, Rescuers, Contenders, WakePCs, WakesAll
<1>15. ASSUME NEW t \in Threads, WakeGlobal(t) PROVE Good
  BY <1>15 DEF WakeGlobal, Rescuers, Contenders, WakePCs, WakesAll
<1>16. ASSUME Good PROVE NoLostWakeup'
  BY <1>0, <1>16, RescuersGrow, RescuersFinite
<1> HIDE DEF Good
<1> QED
  BY <1>1, <1>2, <1>3, <1>4, <1>5, <1>6, <1>7, <1>8, <1>9, <1>10, <1>11, <1>12, <1>13, <1>14, <1>15, <1>16 DEF Next, Step

\* No lost wake-up among threads that acquire: a released ticket is always some
\* thread's business while others sleep.  Dee_semaphore_waitfor, which consumes a
\* wake-up and takes nothing, is not called.
THEOREM WakeupSafety ==
    ASSUME OnlyAcquire
    PROVE  Spec => []NoLostWakeup
<1> DEFINE Inv == IInv /\ TakeInv /\ NoLostWakeup
<1>1. Init => Inv
  BY InitIInv DEF Init, TakeInv, NoLostWakeup, OnlyAcquire
<1>2. Inv /\ [Next]_vars => Inv'
  BY TypeStep, PlaceStep, WaitwordStep, TakeStep, WakeupStep DEF IInv
<1>3. Inv => NoLostWakeup
  OBVIOUS
<1> QED
  BY <1>1, <1>2, <1>3, PTL DEF Spec

=============================================================================
