---------------------------- MODULE Event_proofs ----------------------------
(***************************************************************************)
(* Proofs about Dee_event_t, for any set of threads.                       *)
(***************************************************************************)
EXTENDS Event, TLAPS

\* The futex holds only threads that went to sleep.
SleepInv == \A t \in sleepers : pc[t] = "asleep"

\* Who waits while the event is set has seen it set.
SeenInv == \A t \in Threads :
               isset /\ pc[t] \notin {"idle", "wakeall"} => t \in seen

\* The inductive invariant of the event.
IInv == /\ TypeOK
        /\ SleepInv
        /\ WordExact
        /\ SeenInv
        /\ SuccessMeansSet
        /\ NoLostWakeup

-----------------------------------------------------------------------------

\* An event starts out set or not, with nobody in a call.
LEMMA InitIInv == Init => IInv
BY OpsAssumption DEF Init, IInv, TypeOK, PCs, SleepInv, WordExact, SeenInv,
       SuccessMeansSet, NoLostWakeup

\* No step of a waiting thread, of one that sets or clears the event, or of an
\* interrupter breaks the invariant.
LEMMA NextIInv == ASSUME IInv, [Next]_vars PROVE IInv'
<1> USE DEF IInv, TypeOK, PCs, SleepInv, WordExact, SeenInv, SuccessMeansSet,
            NoLostWakeup, Goto, Succeed, WakeAll
<1>1. CASE UNCHANGED vars
  BY <1>1 DEF vars
<1>2. ASSUME NEW t \in Threads, Call(t) PROVE IInv'
  BY <1>2, OpsAssumption DEF Call
<1>3. ASSUME NEW t \in Threads, Get(t) PROVE IInv'
  BY <1>3 DEF Get
<1>4. ASSUME NEW t \in Threads, Mark(t) PROVE IInv'
  BY <1>4 DEF Mark, MarkAs
<1>5. ASSUME NEW t \in Threads, FutexWait(t) PROVE IInv'
  BY <1>5 DEF FutexWait
<1>6. ASSUME NEW t \in Threads, FutexInterrupted(t) PROVE IInv'
  BY <1>6 DEF FutexInterrupted
<1>7. ASSUME NEW t \in Threads, Woken(t) PROVE IInv'
  BY <1>7 DEF Woken
<1>8. ASSUME NEW t \in Threads, TimedOut(t) PROVE IInv'
  BY <1>8 DEF TimedOut
<1>9. ASSUME NEW t \in Threads, Check(t) PROVE IInv'
  BY <1>9 DEF Check, CheckFor
<1>10. ASSUME NEW t \in Threads, DoWakeAll(t) PROVE IInv'
  BY <1>10 DEF DoWakeAll
<1>11. ASSUME NEW t \in Threads, Set(t) PROVE IInv'
  BY <1>11 DEF Set, SetFrom
<1>12. ASSUME NEW t \in Threads, Clear(t) PROVE IInv'
  <2>1. ev_state' = 1 /\ isset' = FALSE
    BY <1>12 DEF Clear
  <2>2. ev_state' # 0 /\ ~isset'
    BY <2>1
  <2>3. WordExact' /\ SeenInv'
    BY <2>2, Zenon
  <2>4. isset' \in BOOLEAN
    BY <2>1, Zenon
  <2>5. TypeOK'
    BY <1>12, <2>1, <2>4, Zenon DEF Clear
  <2>6. SleepInv' /\ SuccessMeansSet' /\ NoLostWakeup'
    BY <1>12 DEF Clear
  <2> QED BY <2>3, <2>5, <2>6
<1>13. ASSUME NEW t \in Threads, Interrupt(t) PROVE IInv'
  BY <1>13 DEF Interrupt
<1>14. ASSUME NEW t \in Threads, WakeGlobal(t) PROVE IInv'
  BY <1>14 DEF WakeGlobal
<1> HIDE DEF IInv
<1> QED
  BY <1>1, <1>2, <1>3, <1>4, <1>5, <1>6, <1>7, <1>8, <1>9, <1>10, <1>11, <1>12,
     <1>13, <1>14 DEF Next, Step

\* The invariant holds throughout.
LEMMA InvariantHolds == Spec => []IInv
BY InitIInv, NextIInv, PTL DEF Spec

\* The word has no value but the three that the code knows, whatever set, clear and
\* announcing do to it.
THEOREM TypeCorrect == Spec => []TypeOK
<1>1. IInv => TypeOK
  BY DEF IInv
<1> QED
  BY <1>1, InvariantHolds, PTL

\* The word is 0 exactly while the event is set: an announcement never undoes a set
\* and a clear never passes for one.
THEOREM WordCorrect == Spec => []WordExact
<1>1. IInv => WordExact
  BY DEF IInv
<1> QED
  BY <1>1, InvariantHolds, PTL

\* Dee_event_waitfor returns 0 only if the event was set during the call.
THEOREM SuccessCorrect == Spec => []SuccessMeansSet
<1>1. IInv => SuccessMeansSet
  BY DEF IInv
<1> QED
  BY <1>1, InvariantHolds, PTL

\* Nobody sleeps through Dee_event_set, although Dee_event_clear forgets whom the
\* word announced.
THEOREM WakeupSafety == Spec => []NoLostWakeup
<1>1. IInv => NoLostWakeup
  BY DEF IInv
<1> QED
  BY <1>1, InvariantHolds, PTL

=============================================================================
