------------------------ MODULE SharedRWLock_proofs -------------------------
(***************************************************************************)
(* Proofs about Dee_shared_rwlock_t, for any finite set of threads and any *)
(* mix of its operations.                                                  *)
(***************************************************************************)
EXTENDS SharedRWLock, FiniteSetTheorems, TLAPS

USE DEF WakeAll, Writing

\* The inductive invariant: exclusion alone is not inductive, because who holds
\* the lock is decided by the word; the type of the waitwords (they never
\* underflow) needs their exactness.
IInv == TypeOK /\ Exclusion /\ WordExact /\ WaitwordsExact

-----------------------------------------------------------------------------

\* Handing over to an untimed function yields an operation of the same mode.
LEMMA DelegateKind ==
    ASSUME NEW o \in Operations
    PROVE  Delegate(o) \in Operations /\ Delegate(o).mode = o.mode
BY DEF Delegate, Operations

\* A refused thread goes on to one of these places, in an operation of the same
\* mode.
LEMMA RefusedStep ==
    ASSUME TypeOK, NEW t \in Threads, NEW word \in Int, Refused(t, word)
    PROVE  /\ \E label \in {"idle", "try", "start"} : pc' = [pc EXCEPT ![t] = label]
           /\ op' \in [Threads -> Operations]
           /\ \A u \in Threads : op'[u].mode = op[u].mode
           /\ expected' \in [Threads -> Int]
<1>1. op[t] \in Operations
  BY DEF TypeOK
<1>2. Delegate(op[t]) \in Operations /\ Delegate(op[t]).mode = op[t].mode
  BY <1>1, DelegateKind
<1>3. PICK label \in AfterRefused(t) : pc' = [pc EXCEPT ![t] = label]
  BY DEF Refused, Goto
<1>4. label \in {"idle", "try", "start"}
  BY <1>3 DEF AfterRefused
<1> QED
  BY <1>2, <1>3, <1>4 DEF Refused, TypeOK

\* The sets of threads that the three words count are finite.
LEMMA HoldersFinite ==
    /\ IsFiniteSet(Readers)
    /\ \A mode \in {"read", "write"} : IsFiniteSet(Waiters(mode))
<1>1. IsFiniteSet(Readers)
  BY ThreadsAssumption, FS_Subset DEF Readers
<1>2. ASSUME NEW mode \in {"read", "write"} PROVE IsFiniteSet(Waiters(mode))
  <2>1. Waiters(mode) \subseteq Threads
    BY DEF Waiters
  <2> QED BY <2>1, ThreadsAssumption, FS_Subset
<1> QED BY <1>1, <1>2

\* The lock starts out free, with nobody waiting for it.
LEMMA InitIInv == Init => IInv
<1> SUFFICES ASSUME Init PROVE IInv
  OBVIOUS
<1>1. TypeOK
  BY OpsAssumption DEF Init, TypeOK, PCs
<1>2. Readers = {} /\ Writers = {}
  BY DEF Init, Readers, Writers, WakePCs
<1>3. \A mode \in {"read", "write"} : Waiters(mode) = {}
  BY DEF Init, Waiters
<1>4. WaitwordsExact
  BY <1>3, FS_EmptySet DEF Init, WaitwordsExact
<1>5. Exclusion /\ WordExact
  BY <1>2, FS_EmptySet DEF Init, Exclusion, WordExact
<1> QED
  BY <1>1, <1>4, <1>5 DEF IInv

\* A waitword counts somebody as long as that thread has not ended its wait.
LEMMA WaitingPositive ==
    ASSUME IInv, NEW t \in Threads, pc[t] \in {"wait", "asleep", "end"}
    PROVE  waiting[op[t].mode] # 0
<1>1. op[t].mode \in {"read", "write"}
  BY DEF IInv, TypeOK, Operations
<1>2. t \in Waiters(op[t].mode)
  BY DEF Waiters
<1>3. Waiters(op[t].mode) # {} /\ IsFiniteSet(Waiters(op[t].mode))
  BY <1>1, <1>2, HoldersFinite
<1> QED
  BY <1>1, <1>3, FS_EmptySet DEF IInv, WaitwordsExact

\* A reader is counted by the lock word.
LEMMA ReaderCounted ==
    ASSUME IInv, NEW t \in Readers
    PROVE  Writers = {} /\ arw_lock = Cardinality(Readers) /\ arw_lock >= 1
<1>1. Writers = {}
  BY DEF IInv, Exclusion
<1>2. arw_lock = Cardinality(Readers)
  BY <1>1 DEF IInv, WordExact
<1>3. arw_lock # 0
  BY <1>2, HoldersFinite, FS_EmptySet
<1>4. arw_lock \in Nat
  BY <1>2, HoldersFinite, FS_CardinalityType
<1> QED BY <1>1, <1>2, <1>3, <1>4

\* No writer holds a lock whose word is not -1, nobody holds one whose word is 0.
LEMMA WordMeaning ==
    ASSUME IInv
    PROVE  /\ arw_lock # Writing => Writers = {}
           /\ arw_lock = 0 => Writers = {} /\ Readers = {}
           /\ arw_lock = Writing => Readers = {}
<1>1. Cardinality(Readers) \in Nat
  BY HoldersFinite, FS_CardinalityType
<1>2. arw_lock # Writing => Writers = {}
  BY DEF IInv, WordExact
<1>3. arw_lock = Writing => Writers # {}
  BY <1>1 DEF IInv, WordExact
<1>4. arw_lock = Writing => Readers = {}
  BY <1>3 DEF IInv, Exclusion
<1>5. arw_lock = 0 => Cardinality(Readers) = 0
  BY <1>2 DEF IInv, WordExact
<1> QED
  BY <1>2, <1>4, <1>5, HoldersFinite, FS_EmptySet

\* Every step keeps the types; the waitwords stay natural because they are exact.
LEMMA TypeStep == ASSUME IInv, [Next]_vars PROVE TypeOK'
<1>1. CASE UNCHANGED vars
  BY <1>1 DEF vars, IInv, TypeOK
<1>2. ASSUME NEW t \in Threads, Call(t) PROVE TypeOK'
  BY <1>2, OpsAssumption DEF Call, IInv, TypeOK, PCs, Goto, Operations
<1>3. ASSUME NEW t \in Threads, TryRead(t) PROVE TypeOK'
  <2>1. CASE arw_lock # Writing
    BY <1>3, <2>1 DEF TryRead, IInv, TypeOK, PCs, Goto
  <2>2. CASE arw_lock = Writing
    <3>1. Refused(t, Writing) /\ TypeOK
      BY <1>3, <2>2 DEF TryRead, IInv
    <3> QED
      BY <1>3, <2>2, <3>1, RefusedStep DEF TryRead, TypeOK, PCs
  <2> QED BY <2>1, <2>2
<1>4. ASSUME NEW t \in Threads, LoadWord(t) PROVE TypeOK'
  <2>1. CASE arw_lock = 0
    BY <1>4, <2>1 DEF LoadWord, IInv, TypeOK, PCs, Goto
  <2>2. CASE arw_lock # 0
    <3>1. Refused(t, arw_lock) /\ TypeOK /\ arw_lock \in Int
      BY <1>4, <2>2 DEF LoadWord, IInv, TypeOK
    <3> QED
      BY <1>4, <2>2, <3>1, RefusedStep DEF LoadWord, TypeOK, PCs
  <2> QED BY <2>1, <2>2
<1>5. ASSUME NEW t \in Threads, CmpXch(t) PROVE TypeOK'
  <2>1. CASE arw_lock = 0
    BY <1>5, <2>1 DEF CmpXch, CmpXchElse, IInv, TypeOK, PCs, Goto
  <2>2. CASE arw_lock # 0 /\ Refused(t, 0)
    BY <1>5, <2>2, RefusedStep DEF CmpXch, CmpXchElse, IInv, TypeOK, PCs
  <2>3. CASE arw_lock # 0 /\ Goto(t, "try") /\ UNCHANGED <<op, expected>>
    BY <1>5, <2>3 DEF CmpXch, CmpXchElse, IInv, TypeOK, PCs, Goto
  <2> QED BY <1>5, <2>1, <2>2, <2>3 DEF CmpXch, CmpXchElse
<1>6. ASSUME NEW t \in Threads, WaitingStart(t) PROVE TypeOK'
  <2>1. op[t].mode \in {"read", "write"}
    BY DEF IInv, TypeOK, Operations
  <2> QED BY <1>6, <2>1 DEF WaitingStart, IInv, TypeOK, PCs, Goto
<1>7. ASSUME NEW t \in Threads, FutexWait(t) PROVE TypeOK'
  BY <1>7 DEF FutexWait, IInv, TypeOK, PCs, Goto
<1>8. ASSUME NEW t \in Threads, FutexInterrupted(t) PROVE TypeOK'
  BY <1>8 DEF FutexInterrupted, IInv, TypeOK, PCs, Goto
<1>9. ASSUME NEW t \in Threads, Woken(t) PROVE TypeOK'
  BY <1>9 DEF Woken, IInv, TypeOK, PCs, Goto
<1>10. ASSUME NEW t \in Threads, TimedOut(t) PROVE TypeOK'
  BY <1>10 DEF TimedOut, IInv, TypeOK, PCs, Goto
<1>11. ASSUME NEW t \in Threads, WaitingEnd(t) PROVE TypeOK'
  <2>1. op[t].mode \in {"read", "write"}
    BY DEF IInv, TypeOK, Operations
  <2>2. waiting[op[t].mode] - 1 \in Nat
    BY <1>11, <2>1, WaitingPositive DEF WaitingEnd, EndWait, IInv, TypeOK
  <2> QED BY <1>11, <2>1, <2>2 DEF WaitingEnd, EndWait, IInv, TypeOK, PCs, Goto
<1>12. ASSUME NEW t \in Threads, UpgradeDrop(t) PROVE TypeOK'
  <2>1. t \in Readers
    BY <1>12 DEF UpgradeDrop, Readers
  <2>2. [mode |-> "write", take |-> TRUE, tmo |-> "none", int |-> op[t].int] \in Operations
    BY DEF IInv, TypeOK, Operations
  <2> QED BY <1>12, <2>1, <2>2, ReaderCounted DEF UpgradeDrop, IInv, TypeOK, PCs, Goto
<1>13. ASSUME NEW t \in Threads, Wake(t) PROVE TypeOK'
  BY <1>13 DEF Wake, IInv, TypeOK, PCs, Goto
<1>14. ASSUME NEW t \in Threads, WakeWriters(t) PROVE TypeOK'
  BY <1>14 DEF WakeWriters, Test, Finish, IInv, TypeOK, PCs, Goto
<1>15. ASSUME NEW t \in Threads, WakeRead(t) PROVE TypeOK'
  BY <1>15 DEF WakeRead, Test, Finish, IInv, TypeOK, PCs, Goto
<1>16. ASSUME NEW t \in Threads, DoWakeOne(t) PROVE TypeOK'
  BY <1>16 DEF DoWakeOne, WakeOne, IInv, TypeOK, PCs, Goto
<1>17. ASSUME NEW t \in Threads, DoWakeAll(t) PROVE TypeOK'
  BY <1>17 DEF DoWakeAll, Finish, IInv, TypeOK, PCs, Goto
<1>18. ASSUME NEW t \in Threads, EndRead(t) PROVE TypeOK'
  <2>1. t \in Readers
    BY <1>18 DEF EndRead, Readers
  <2> QED BY <1>18, <2>1, ReaderCounted DEF EndRead, DropRead, Release, IInv, TypeOK, PCs, Goto
<1>19. ASSUME NEW t \in Threads, EndWrite(t) PROVE TypeOK'
  BY <1>19 DEF EndWrite, Release, IInv, TypeOK, PCs, Goto
<1>20. ASSUME NEW t \in Threads, Downgrade(t) PROVE TypeOK'
  BY <1>20 DEF Downgrade, Release, IInv, TypeOK, PCs, Goto
<1>21. ASSUME NEW t \in Threads, TryUpgrade(t) PROVE TypeOK'
  BY <1>21 DEF TryUpgrade, IInv, TypeOK, PCs, Goto
<1>22. ASSUME NEW t \in Threads, Interrupt(t) PROVE TypeOK'
  BY <1>22 DEF Interrupt, IInv, TypeOK, PCs, Goto
<1>23. ASSUME NEW t \in Threads, WakeGlobal(t) PROVE TypeOK'
  BY <1>23 DEF WakeGlobal, IInv, TypeOK, PCs, Goto
<1> QED
  BY <1>1, <1>2, <1>3, <1>4, <1>5, <1>6, <1>7, <1>8, <1>9, <1>10, <1>11, <1>12, <1>13, <1>14, <1>15, <1>16, <1>17, <1>18, <1>19, <1>20, <1>21, <1>22, <1>23
  DEF Next, Step

-----------------------------------------------------------------------------
(* Who holds the lock *)

\* A refused thread holds as little as before.
LEMMA RefusedHolds ==
    ASSUME TypeOK, NEW t \in Threads, pc[t] \in {"try", "retry", "cas", "recas"},
           NEW word \in Int, Refused(t, word), UNCHANGED resume
    PROVE  Readers' = Readers /\ Writers' = Writers
<1>1. PICK label \in {"idle", "try", "start"} : pc' = [pc EXCEPT ![t] = label]
  BY RefusedStep
<1> QED
  BY <1>1 DEF TypeOK, Readers, Writers, WakePCs

\* A thread that holds nothing becomes a reader.
LEMMA ReaderEnters ==
    ASSUME IInv, NEW t \in Threads, arw_lock # Writing, t \notin Readers,
           Readers' = Readers \cup {t}, Writers' = {}, arw_lock' = arw_lock + 1
    PROVE  Exclusion' /\ WordExact'
<1>1. arw_lock = Cardinality(Readers)
  BY WordMeaning DEF IInv, WordExact
<1>2. Cardinality(Readers') = arw_lock + 1
  BY <1>1, HoldersFinite, FS_AddElement
<1> QED
  BY <1>2 DEF Exclusion, WordExact

\* A reader leaves.
LEMMA ReaderLeaves ==
    ASSUME IInv, NEW t \in Readers,
           Readers' = Readers \ {t}, Writers' = Writers, arw_lock' = arw_lock - 1
    PROVE  Exclusion' /\ WordExact'
<1>1. Writers = {} /\ arw_lock = Cardinality(Readers)
  BY ReaderCounted
<1>2. Cardinality(Readers') = arw_lock - 1
  BY <1>1, HoldersFinite, FS_RemoveElement
<1> QED
  BY <1>1, <1>2 DEF Exclusion, WordExact

\* Every step keeps writers exclusive and the word in line with the holders.
LEMMA HolderStep == ASSUME IInv, [Next]_vars PROVE Exclusion' /\ WordExact'
<1>1. ASSUME Readers' = Readers /\ Writers' = Writers /\ arw_lock' = arw_lock
      PROVE  Exclusion' /\ WordExact'
  BY <1>1 DEF IInv, Exclusion, WordExact
<1>2. CASE UNCHANGED vars
  BY <1>2, <1>1 DEF vars, Readers, Writers
<1>3. ASSUME NEW t \in Threads, Call(t) PROVE Exclusion' /\ WordExact'
  BY <1>3, <1>1 DEF Call, IInv, TypeOK, Readers, Writers, WakePCs, Goto
<1>4. ASSUME NEW t \in Threads, TryRead(t) PROVE Exclusion' /\ WordExact'
  <2>1. CASE arw_lock # Writing /\ op[t].take
    <3>1. t \notin Readers /\ Readers' = Readers \cup {t} /\ Writers' = Writers
      BY <1>4, <2>1 DEF TryRead, IInv, TypeOK, Readers, Writers, WakePCs, Goto
    <3>2. Writers = {} /\ arw_lock' = arw_lock + 1
      BY <1>4, <2>1, WordMeaning DEF TryRead
    <3> QED BY <2>1, <3>1, <3>2, ReaderEnters
  <2>2. CASE arw_lock # Writing /\ ~op[t].take
    BY <1>4, <2>2, <1>1 DEF TryRead, IInv, TypeOK, Readers, Writers, WakePCs, Goto
  <2>3. CASE arw_lock = Writing
    BY <1>4, <2>3, <1>1, RefusedHolds DEF TryRead, IInv
  <2> QED BY <2>1, <2>2, <2>3
<1>5. ASSUME NEW t \in Threads, LoadWord(t) PROVE Exclusion' /\ WordExact'
  <2>1. CASE arw_lock = 0
    BY <1>5, <2>1, <1>1 DEF LoadWord, IInv, TypeOK, Readers, Writers, WakePCs, Goto
  <2>2. CASE arw_lock # 0
    BY <1>5, <2>2, <1>1, RefusedHolds DEF LoadWord, IInv, TypeOK
  <2> QED BY <2>1, <2>2
<1>6. ASSUME NEW t \in Threads, CmpXch(t) PROVE Exclusion' /\ WordExact'
  <2>1. CASE arw_lock = 0
    <3>1. Readers = {} /\ Writers = {}
      BY <2>1, WordMeaning
    <3>2. Readers' = {} /\ Writers' = {t} /\ arw_lock' = Writing
      BY <1>6, <2>1, <3>1
      DEF CmpXch, CmpXchElse, IInv, TypeOK, Readers, Writers, WakePCs, Goto
    <3> QED BY <3>2 DEF Exclusion, WordExact
  <2>2. CASE arw_lock # 0 /\ Refused(t, 0)
    BY <1>6, <2>2, <1>1, RefusedHolds DEF CmpXch, CmpXchElse, IInv
  <2>3. CASE arw_lock # 0 /\ Goto(t, "try")
    BY <1>6, <2>3, <1>1
    DEF CmpXch, CmpXchElse, IInv, TypeOK, Readers, Writers, WakePCs, Goto
  <2> QED BY <1>6, <2>1, <2>2, <2>3 DEF CmpXch, CmpXchElse
<1>7. ASSUME NEW t \in Threads, WaitingStart(t) PROVE Exclusion' /\ WordExact'
  BY <1>7, <1>1 DEF WaitingStart, IInv, TypeOK, Readers, Writers, WakePCs, Goto
<1>8. ASSUME NEW t \in Threads, FutexWait(t) PROVE Exclusion' /\ WordExact'
  BY <1>8, <1>1 DEF FutexWait, IInv, TypeOK, Readers, Writers, WakePCs, Goto
<1>9. ASSUME NEW t \in Threads, FutexInterrupted(t) PROVE Exclusion' /\ WordExact'
  BY <1>9, <1>1 DEF FutexInterrupted, IInv, TypeOK, Readers, Writers, WakePCs, Goto
<1>10. ASSUME NEW t \in Threads, Woken(t) PROVE Exclusion' /\ WordExact'
  BY <1>10, <1>1 DEF Woken, IInv, TypeOK, Readers, Writers, WakePCs, Goto
<1>11. ASSUME NEW t \in Threads, TimedOut(t) PROVE Exclusion' /\ WordExact'
  BY <1>11, <1>1 DEF TimedOut, IInv, TypeOK, Readers, Writers, WakePCs, Goto
<1>12. ASSUME NEW t \in Threads, WaitingEnd(t) PROVE Exclusion' /\ WordExact'
  BY <1>12, <1>1 DEF WaitingEnd, EndWait, IInv, TypeOK, Readers, Writers, WakePCs, Goto
<1>13. ASSUME NEW t \in Threads, UpgradeDrop(t) PROVE Exclusion' /\ WordExact'
  <2>1. t \in Readers /\ Readers' = Readers \ {t} /\ Writers' = Writers
    BY <1>13 DEF UpgradeDrop, IInv, TypeOK, Readers, Writers, WakePCs, Goto
  <2> QED BY <1>13, <2>1, ReaderLeaves DEF UpgradeDrop
<1>14. ASSUME NEW t \in Threads, Wake(t) PROVE Exclusion' /\ WordExact'
  BY <1>14, <1>1 DEF Wake, IInv, TypeOK, Readers, Writers, WakePCs, Goto
<1>15. ASSUME NEW t \in Threads, WakeWriters(t) PROVE Exclusion' /\ WordExact'
  BY <1>15, <1>1 DEF WakeWriters, Test, Finish, IInv, TypeOK, Readers, Writers, WakePCs, Goto
<1>16. ASSUME NEW t \in Threads, WakeRead(t) PROVE Exclusion' /\ WordExact'
  BY <1>16, <1>1 DEF WakeRead, Test, Finish, IInv, TypeOK, Readers, Writers, WakePCs, Goto
<1>17. ASSUME NEW t \in Threads, DoWakeOne(t) PROVE Exclusion' /\ WordExact'
  BY <1>17, <1>1 DEF DoWakeOne, WakeOne, IInv, TypeOK, Readers, Writers, WakePCs, Goto
<1>18. ASSUME NEW t \in Threads, DoWakeAll(t) PROVE Exclusion' /\ WordExact'
  BY <1>18, <1>1 DEF DoWakeAll, Finish, IInv, TypeOK, Readers, Writers, WakePCs, Goto
<1>19. ASSUME NEW t \in Threads, EndRead(t) PROVE Exclusion' /\ WordExact'
  <2>1. t \in Readers /\ Readers' = Readers \ {t} /\ Writers' = Writers
    BY <1>19 DEF EndRead, DropRead, Release, IInv, TypeOK, Readers, Writers, WakePCs, Goto
  <2> QED BY <1>19, <2>1, ReaderLeaves DEF EndRead, DropRead, Release
<1>20. ASSUME NEW t \in Threads, EndWrite(t) PROVE Exclusion' /\ WordExact'
  <2>1. Writers = {t} /\ Readers = {}
    BY <1>20 DEF EndWrite, IInv, Exclusion, Writers
  <2>2. Writers' = {} /\ Readers' = {} /\ arw_lock' = 0
    BY <1>20, <2>1 DEF EndWrite, Release, IInv, TypeOK, Readers, Writers, WakePCs, Goto
  <2> QED BY <2>2, FS_EmptySet DEF Exclusion, WordExact
<1>21. ASSUME NEW t \in Threads, Downgrade(t) PROVE Exclusion' /\ WordExact'
  <2>1. Writers = {t} /\ Readers = {}
    BY <1>21 DEF Downgrade, IInv, Exclusion, Writers
  <2>2. Writers' = {} /\ Readers' = {t} /\ arw_lock' = 1
    BY <1>21, <2>1 DEF Downgrade, Release, IInv, TypeOK, Readers, Writers, WakePCs, Goto
  <2> QED BY <2>2, FS_Singleton DEF Exclusion, WordExact
<1>22. ASSUME NEW t \in Threads, TryUpgrade(t) PROVE Exclusion' /\ WordExact'
  <2>1. CASE arw_lock = 1
    <3>1. Writers = {} /\ t \in Readers /\ Cardinality(Readers) = 1
      BY <1>22, <2>1, ReaderCounted DEF TryUpgrade, Readers
    <3>2. Readers = {t}
      BY <3>1, HoldersFinite, FS_Singleton
    <3>3. Readers' = {} /\ Writers' = {t} /\ arw_lock' = Writing
      BY <1>22, <2>1, <3>1, <3>2 DEF TryUpgrade, IInv, TypeOK, Readers, Writers, WakePCs, Goto
    <3> QED BY <3>3 DEF Exclusion, WordExact
  <2>2. CASE arw_lock # 1
    BY <1>22, <2>2, <1>1 DEF TryUpgrade, IInv, TypeOK, Readers, Writers, WakePCs, Goto
  <2> QED BY <2>1, <2>2
<1>23. ASSUME NEW t \in Threads, Interrupt(t) PROVE Exclusion' /\ WordExact'
  BY <1>23, <1>1 DEF Interrupt, IInv, TypeOK, Readers, Writers, WakePCs, Goto
<1>24. ASSUME NEW t \in Threads, WakeGlobal(t) PROVE Exclusion' /\ WordExact'
  BY <1>24, <1>1 DEF WakeGlobal, IInv, TypeOK, Readers, Writers, WakePCs, Goto
<1> QED
  BY <1>2, <1>3, <1>4, <1>5, <1>6, <1>7, <1>8, <1>9, <1>10, <1>11, <1>12, <1>13, <1>14, <1>15, <1>16, <1>17, <1>18, <1>19, <1>20, <1>21, <1>22, <1>23, <1>24
  DEF Next, Step

-----------------------------------------------------------------------------
(* The waitwords *)

\* A refused thread was not waiting, and is not waiting yet.
LEMMA RefusedWaits ==
    ASSUME IInv, NEW t \in Threads, NEW word \in Int, Refused(t, word),
           pc[t] \in {"try", "retry", "cas", "recas"}
    PROVE  \A mode \in {"read", "write"} : Waiters(mode)' = Waiters(mode)
<1>1. PICK label \in {"idle", "try", "start"} : pc' = [pc EXCEPT ![t] = label]
  BY RefusedStep DEF IInv
<1>2. \A u \in Threads : op'[u].mode = op[u].mode
  BY RefusedStep DEF IInv
<1> QED
  BY <1>1, <1>2 DEF IInv, TypeOK, Waiters

\* Every step keeps both waitwords exact: one step per action, of which only
\* WaitingStart and WaitingEnd change who waits.
LEMMA WaitwordsStep == ASSUME IInv, [Next]_vars PROVE WaitwordsExact'
<1> DEFINE Same == \A mode \in {"read", "write"} : Waiters(mode)' = Waiters(mode)
<1>1. ASSUME Same, waiting' = waiting PROVE WaitwordsExact'
  BY <1>1 DEF IInv, WaitwordsExact
<1>2. CASE UNCHANGED vars
  BY <1>2, <1>1 DEF vars, Waiters
<1>3. ASSUME NEW t \in Threads, Call(t) PROVE WaitwordsExact'
  BY <1>3, <1>1 DEF Call, IInv, TypeOK, Waiters, Goto
<1>4. ASSUME NEW t \in Threads, TryRead(t) PROVE WaitwordsExact'
  <2>1. CASE Refused(t, Writing)
    BY <1>4, <2>1, <1>1, RefusedWaits DEF TryRead, IInv, TypeOK
  <2>2. CASE ~ Refused(t, Writing)
    BY <1>4, <2>2, <1>1 DEF TryRead, IInv, TypeOK, Waiters, Goto
  <2> QED BY <2>1, <2>2
<1>5. ASSUME NEW t \in Threads, LoadWord(t) PROVE WaitwordsExact'
  <2>1. CASE Refused(t, arw_lock)
    BY <1>5, <2>1, <1>1, RefusedWaits DEF LoadWord, IInv, TypeOK
  <2>2. CASE ~ Refused(t, arw_lock)
    BY <1>5, <2>2, <1>1 DEF LoadWord, IInv, TypeOK, Waiters, Goto
  <2> QED BY <2>1, <2>2
<1>6. ASSUME NEW t \in Threads, CmpXch(t) PROVE WaitwordsExact'
  <2>1. CASE Refused(t, 0)
    BY <1>6, <2>1, <1>1, RefusedWaits DEF CmpXch, CmpXchElse, IInv, TypeOK
  <2>2. CASE ~ Refused(t, 0)
    BY <1>6, <2>2, <1>1 DEF CmpXch, CmpXchElse, IInv, TypeOK, Waiters, Goto
  <2> QED BY <2>1, <2>2
<1>7. ASSUME NEW t \in Threads, WaitingStart(t) PROVE WaitwordsExact'
  <2>1. PICK m \in {"read", "write"} : m = op[t].mode
    BY DEF IInv, TypeOK, Operations
  <2>2. Waiters(m)' = Waiters(m) \cup {t} /\ (t \notin Waiters(m))
    BY <1>7, <2>1 DEF WaitingStart, Goto, IInv, TypeOK, Waiters
  <2>3. waiting'[m] = waiting[m] + 1
    BY <1>7, <2>1 DEF WaitingStart, Goto, IInv, TypeOK
  <2>4. Cardinality(Waiters(m)') = Cardinality(Waiters(m)) + 1
    BY <2>1, <2>2, HoldersFinite, FS_AddElement
  <2>5. ASSUME NEW other \in {"read", "write"}, other # m
        PROVE  Waiters(other)' = Waiters(other) /\ waiting'[other] = waiting[other]
    BY <1>7, <2>1, <2>5 DEF WaitingStart, Goto, IInv, TypeOK, Waiters
  <2>6. ASSUME NEW mode \in {"read", "write"}
        PROVE  waiting'[mode] = Cardinality(Waiters(mode)')
    <3>1. CASE mode = m
      BY <2>1, <2>3, <2>4, <3>1 DEF IInv, WaitwordsExact
    <3>2. CASE mode # m
      BY <2>5, <3>2 DEF IInv, WaitwordsExact
    <3> QED BY <3>1, <3>2
  <2> QED BY <2>6 DEF WaitwordsExact
<1>8. ASSUME NEW t \in Threads, FutexWait(t) PROVE WaitwordsExact'
  BY <1>8, <1>1 DEF FutexWait, IInv, TypeOK, Waiters, Goto
<1>9. ASSUME NEW t \in Threads, FutexInterrupted(t) PROVE WaitwordsExact'
  BY <1>9, <1>1 DEF FutexInterrupted, IInv, TypeOK, Waiters, Goto
<1>10. ASSUME NEW t \in Threads, Woken(t) PROVE WaitwordsExact'
  BY <1>10, <1>1 DEF Woken, IInv, TypeOK, Waiters, Goto
<1>11. ASSUME NEW t \in Threads, TimedOut(t) PROVE WaitwordsExact'
  BY <1>11, <1>1 DEF TimedOut, IInv, TypeOK, Waiters, Goto
<1>12. ASSUME NEW t \in Threads, WaitingEnd(t) PROVE WaitwordsExact'
  <2>1. PICK m \in {"read", "write"} : m = op[t].mode
    BY DEF IInv, TypeOK, Operations
  <2>2. Waiters(m)' = Waiters(m) \ {t} /\ (t \in Waiters(m))
    BY <1>12, <2>1 DEF WaitingEnd, EndWait, Goto, IInv, TypeOK, Waiters
  <2>3. waiting'[m] = waiting[m] - 1
    BY <1>12, <2>1 DEF WaitingEnd, EndWait, Goto, IInv, TypeOK
  <2>4. Cardinality(Waiters(m)') = Cardinality(Waiters(m)) - 1
    BY <2>1, <2>2, HoldersFinite, FS_RemoveElement
  <2>5. ASSUME NEW other \in {"read", "write"}, other # m
        PROVE  Waiters(other)' = Waiters(other) /\ waiting'[other] = waiting[other]
    BY <1>12, <2>1, <2>5 DEF WaitingEnd, EndWait, Goto, IInv, TypeOK, Waiters
  <2>6. ASSUME NEW mode \in {"read", "write"}
        PROVE  waiting'[mode] = Cardinality(Waiters(mode)')
    <3>1. CASE mode = m
      BY <2>1, <2>3, <2>4, <3>1 DEF IInv, WaitwordsExact
    <3>2. CASE mode # m
      BY <2>5, <3>2 DEF IInv, WaitwordsExact
    <3> QED BY <3>1, <3>2
  <2> QED BY <2>6 DEF WaitwordsExact
<1>13. ASSUME NEW t \in Threads, UpgradeDrop(t) PROVE WaitwordsExact'
  BY <1>13, <1>1 DEF UpgradeDrop, IInv, TypeOK, Waiters, Goto
<1>14. ASSUME NEW t \in Threads, Wake(t) PROVE WaitwordsExact'
  BY <1>14, <1>1 DEF Wake, IInv, TypeOK, Waiters, Goto
<1>15. ASSUME NEW t \in Threads, WakeWriters(t) PROVE WaitwordsExact'
  BY <1>15, <1>1 DEF WakeWriters, Test, Finish, IInv, TypeOK, Waiters, Goto
<1>16. ASSUME NEW t \in Threads, WakeRead(t) PROVE WaitwordsExact'
  BY <1>16, <1>1 DEF WakeRead, Test, Finish, IInv, TypeOK, Waiters, Goto
<1>17. ASSUME NEW t \in Threads, DoWakeOne(t) PROVE WaitwordsExact'
  BY <1>17, <1>1 DEF DoWakeOne, IInv, TypeOK, Waiters, Goto
<1>18. ASSUME NEW t \in Threads, DoWakeAll(t) PROVE WaitwordsExact'
  BY <1>18, <1>1 DEF DoWakeAll, Finish, IInv, TypeOK, Waiters, Goto
<1>19. ASSUME NEW t \in Threads, EndRead(t) PROVE WaitwordsExact'
  BY <1>19, <1>1 DEF EndRead, DropRead, Release, IInv, TypeOK, Waiters, Goto
<1>20. ASSUME NEW t \in Threads, EndWrite(t) PROVE WaitwordsExact'
  BY <1>20, <1>1 DEF EndWrite, Release, IInv, TypeOK, Waiters, Goto
<1>21. ASSUME NEW t \in Threads, Downgrade(t) PROVE WaitwordsExact'
  BY <1>21, <1>1 DEF Downgrade, Release, IInv, TypeOK, Waiters, Goto
<1>22. ASSUME NEW t \in Threads, TryUpgrade(t) PROVE WaitwordsExact'
  BY <1>22, <1>1 DEF TryUpgrade, IInv, TypeOK, Waiters, Goto
<1>23. ASSUME NEW t \in Threads, Interrupt(t) PROVE WaitwordsExact'
  BY <1>23, <1>1 DEF Interrupt, IInv, TypeOK, Waiters, Goto
<1>24. ASSUME NEW t \in Threads, WakeGlobal(t) PROVE WaitwordsExact'
  BY <1>24, <1>1 DEF WakeGlobal, IInv, TypeOK, Waiters, Goto
<1> QED
  BY <1>2, <1>3, <1>4, <1>5, <1>6, <1>7, <1>8, <1>9, <1>10, <1>11, <1>12,
     <1>13, <1>14, <1>15, <1>16, <1>17, <1>18, <1>19, <1>20, <1>21, <1>22, <1>23, <1>24
  DEF Next, Step

-----------------------------------------------------------------------------

\* Every step of a thread preserves the inductive invariant.
LEMMA NextIInv == IInv /\ [Next]_vars => IInv'
BY TypeStep, HolderStep, WaitwordsStep DEF IInv

\* The inductive invariant holds of every reachable state of
\* Dee_shared_rwlock_t.
THEOREM Invariance == Spec => []IInv
BY InitIInv, NextIInv, PTL DEF Spec

\* Whatever mix of reads, writes, waits, timeouts, upgrades, downgrades and
\* interrupts the threads go through, a writer shares the lock with nobody.
THEOREM Safety == Spec => []Exclusion
<1>1. IInv => Exclusion
  BY DEF IInv
<1> QED BY Invariance, <1>1, PTL

\* The lock word always tells who holds the lock: the readers are counted
\* exactly, so the last endread is the one that finds the word 1.
THEOREM WordCorrect == Spec => []WordExact
<1>1. IInv => WordExact
  BY DEF IInv
<1> QED BY Invariance, <1>1, PTL

\* srw_rwaiting and srw_wwaiting count their waiting threads exactly: no error
\* path leaks an increment or ends a wait on the other kind's word.
THEOREM WaitwordsCorrect == Spec => []WaitwordsExact
<1>1. IInv => WaitwordsExact
  BY DEF IInv
<1> QED BY Invariance, <1>1, PTL

\* Every variable keeps its type: no waitword underflows and no reader count
\* drops below zero to be taken for a writer.
THEOREM TypeCorrect == Spec => []TypeOK
<1>1. IInv => TypeOK
  BY DEF IInv
<1> QED BY Invariance, <1>1, PTL

-----------------------------------------------------------------------------
(* Wake-ups *)

\* The functions that take the lock.  Dee_shared_rwlock_write_timed, whose loop may
\* wait on a word it did not find, is not called.
OnlyTake == \A o \in Ops : o.take /\ (o.mode = "write" => o.tmo # "finite")

TakeInv == \A t \in Threads : op[t].take /\ (op[t].mode = "write" => op[t].tmo # "finite")

\* What places in the code say: the futex holds only threads that went to sleep, an
\* error lives only until the wait has ended, the compare-exchange is a writer's, and
\* a thread sleeps only on a word that refused it.
PlaceInv == /\ \A t \in sleepers : pc[t] = "asleep"
            /\ \A t \in Threads : err[t] # 0 => pc[t] = "end"
            /\ \A t \in Threads : pc[t] \in {"cas", "recas"} => op[t].mode = "write"
            /\ \A t \in Threads : pc[t] \in {"start", "wait"} =>
                  /\ expected[t] # 0
                  /\ op[t].mode = "read" => expected[t] = Writing

\* While the lock is free and a writer sleeps, somebody is about to wake one or
\* contends for the lock.  A thread that only looks for readers does not count.
WriterRescue ==
    arw_lock = 0 /\ (\E t \in sleepers : op[t].mode = "write") =>
        \E t \in Threads : pc[t] \in {"wake", "wakew", "wakeone", "wakeall"} \/ t \in Contenders

\* While readers may enter and one sleeps, somebody is about to look for readers.  A
\* thread that has looked for them and now looks for writers does not count.
ReaderRescue ==
    arw_lock # Writing /\ (\E t \in sleepers : op[t].mode = "read") =>
        \E t \in Threads : pc[t] \in {"wake", "wakeone", "wakeread", "wakeall"}

WakeInv == TakeInv /\ PlaceInv /\ WriterRescue /\ ReaderRescue

\* The function that takes over takes the lock as well.
LEMMA DelegateTakes ==
    ASSUME NEW o \in Operations, o.take, o.mode = "write" => o.tmo # "finite"
    PROVE  /\ Delegate(o).take /\ Delegate(o).mode = o.mode
           /\ Delegate(o).mode = "write" => Delegate(o).tmo # "finite"
BY DEF Delegate, Operations

\* A refused thread remembers what refused it.
LEMMA RefusedTakes ==
    ASSUME TypeOK, TakeInv, NEW t \in Threads, NEW word \in Int, Refused(t, word)
    PROVE  TakeInv'
<1>1. op[t] \in Operations
  BY DEF TypeOK
<1>2. /\ Delegate(op[t]).take
      /\ Delegate(op[t]).mode = "write" => Delegate(op[t]).tmo # "finite"
  BY <1>1, DelegateTakes DEF TakeInv
<1> QED
  BY <1>2 DEF Refused, TakeInv, TypeOK

\* Every thread stays in a function that takes the lock.
LEMMA TakeStep == ASSUME OnlyTake, IInv, TakeInv, [Next]_vars PROVE TakeInv'
<1>1. CASE UNCHANGED vars
  BY <1>1 DEF vars, IInv, TypeOK, TakeInv
<1>2. ASSUME NEW t \in Threads, Call(t) PROVE TakeInv'
  BY <1>2 DEF Call, OnlyTake, IInv, TypeOK, TakeInv
<1>3. ASSUME NEW t \in Threads, TryRead(t) PROVE TakeInv'
  <2>1. CASE arw_lock # Writing
    BY <1>3, <2>1 DEF TryRead, TakeInv
  <2>2. CASE arw_lock = Writing
    BY <1>3, <2>2, RefusedTakes DEF TryRead, IInv
  <2> QED BY <2>1, <2>2
<1>4. ASSUME NEW t \in Threads, LoadWord(t) PROVE TakeInv'
  <2>1. CASE arw_lock = 0
    BY <1>4, <2>1 DEF LoadWord, TakeInv
  <2>2. CASE arw_lock # 0
    BY <1>4, <2>2, RefusedTakes DEF LoadWord, IInv, TypeOK
  <2> QED BY <2>1, <2>2
<1>5. ASSUME NEW t \in Threads, CmpXch(t) PROVE TakeInv'
  <2>1. CASE Refused(t, 0)
    BY <1>5, <2>1, RefusedTakes DEF IInv
  <2>2. CASE ~Refused(t, 0)
    BY <1>5, <2>2 DEF CmpXch, CmpXchElse, TakeInv
  <2> QED BY <2>1, <2>2
<1>6. ASSUME NEW t \in Threads, WaitingStart(t) PROVE TakeInv'
  BY <1>6 DEF WaitingStart, IInv, TypeOK, TakeInv
<1>7. ASSUME NEW t \in Threads, FutexWait(t) PROVE TakeInv'
  BY <1>7 DEF FutexWait, IInv, TypeOK, TakeInv
<1>8. ASSUME NEW t \in Threads, FutexInterrupted(t) PROVE TakeInv'
  BY <1>8 DEF FutexInterrupted, IInv, TypeOK, TakeInv
<1>9. ASSUME NEW t \in Threads, Woken(t) PROVE TakeInv'
  BY <1>9 DEF Woken, IInv, TypeOK, TakeInv
<1>10. ASSUME NEW t \in Threads, TimedOut(t) PROVE TakeInv'
  BY <1>10 DEF TimedOut, IInv, TypeOK, TakeInv
<1>11. ASSUME NEW t \in Threads, WaitingEnd(t) PROVE TakeInv'
  BY <1>11 DEF WaitingEnd, EndWait, IInv, TypeOK, TakeInv
<1>12. ASSUME NEW t \in Threads, UpgradeDrop(t) PROVE TakeInv'
  BY <1>12 DEF UpgradeDrop, IInv, TypeOK, TakeInv
<1>13. ASSUME NEW t \in Threads, Wake(t) PROVE TakeInv'
  BY <1>13 DEF Wake, IInv, TypeOK, TakeInv
<1>14. ASSUME NEW t \in Threads, WakeWriters(t) PROVE TakeInv'
  BY <1>14 DEF WakeWriters, Test, Finish, IInv, TypeOK, TakeInv
<1>15. ASSUME NEW t \in Threads, WakeRead(t) PROVE TakeInv'
  BY <1>15 DEF WakeRead, Test, Finish, IInv, TypeOK, TakeInv
<1>16. ASSUME NEW t \in Threads, DoWakeOne(t) PROVE TakeInv'
  BY <1>16 DEF DoWakeOne, WakeOne, IInv, TypeOK, TakeInv
<1>17. ASSUME NEW t \in Threads, DoWakeAll(t) PROVE TakeInv'
  BY <1>17 DEF DoWakeAll, Finish, IInv, TypeOK, TakeInv
<1>18. ASSUME NEW t \in Threads, EndRead(t) PROVE TakeInv'
  BY <1>18 DEF EndRead, DropRead, Release, IInv, TypeOK, TakeInv
<1>19. ASSUME NEW t \in Threads, EndWrite(t) PROVE TakeInv'
  BY <1>19 DEF EndWrite, Release, IInv, TypeOK, TakeInv
<1>20. ASSUME NEW t \in Threads, Downgrade(t) PROVE TakeInv'
  BY <1>20 DEF Downgrade, Release, IInv, TypeOK, TakeInv
<1>21. ASSUME NEW t \in Threads, TryUpgrade(t) PROVE TakeInv'
  BY <1>21 DEF TryUpgrade, IInv, TypeOK, TakeInv
<1>22. ASSUME NEW t \in Threads, Interrupt(t) PROVE TakeInv'
  BY <1>22 DEF Interrupt, IInv, TypeOK, TakeInv
<1>23. ASSUME NEW t \in Threads, WakeGlobal(t) PROVE TakeInv'
  BY <1>23 DEF WakeGlobal, IInv, TypeOK, TakeInv
<1> QED
  BY <1>1, <1>2, <1>3, <1>4, <1>5, <1>6, <1>7, <1>8, <1>9, <1>10, <1>11, <1>12,
     <1>13, <1>14, <1>15, <1>16, <1>17, <1>18, <1>19, <1>20, <1>21, <1>22, <1>23 DEF Next, Step

\* A refused thread that goes on to wait has another word than 0 to wait for.
LEMMA RefusedPlaces ==
    ASSUME TypeOK, PlaceInv, NEW t \in Threads, NEW word \in Int, Refused(t, word),
           UNCHANGED <<sleepers, err>>, pc[t] \in {"try", "retry", "cas", "recas"},
           \/ word # 0 /\ (op[t].mode = "read" => word = Writing)
           \/ op[t].tmo = "once"
    PROVE  PlaceInv'
<1>1. PICK label \in AfterRefused(t) : pc' = [pc EXCEPT ![t] = label]
  BY DEF Refused, Goto
<1>2. /\ label \in {"idle", "try", "start"}
      /\ op[t].tmo = "once" => label = "idle"
  BY <1>1 DEF AfterRefused
<1>3. \A u \in Threads : op'[u].mode = op[u].mode
  BY RefusedStep
<1>4. expected' = [expected EXCEPT ![t] = word]
  BY DEF Refused
<1> QED
  BY <1>1, <1>2, <1>3, <1>4 DEF PlaceInv, TypeOK

\* Every step keeps what places in the code say.
LEMMA PlaceStep == ASSUME IInv, TakeInv, PlaceInv, [Next]_vars PROVE PlaceInv'
<1>1. CASE UNCHANGED vars
  BY <1>1 DEF vars, PlaceInv, IInv, TypeOK, Goto
<1>2. ASSUME NEW t \in Threads, Call(t) PROVE PlaceInv'
  BY <1>2 DEF Call, PlaceInv, IInv, TypeOK, Goto
<1>3. ASSUME NEW t \in Threads, TryRead(t) PROVE PlaceInv'
  <2>1. CASE arw_lock # Writing
    BY <1>3, <2>1 DEF TryRead, PlaceInv, IInv, TypeOK, Goto
  <2>2. CASE arw_lock = Writing
    BY <1>3, <2>2, RefusedPlaces DEF TryRead, IInv
  <2> QED BY <2>1, <2>2
<1>4. ASSUME NEW t \in Threads, LoadWord(t) PROVE PlaceInv'
  <2>1. CASE arw_lock = 0
    BY <1>4, <2>1 DEF LoadWord, PlaceInv, IInv, TypeOK, Goto
  <2>2. CASE arw_lock # 0
    BY <1>4, <2>2, RefusedPlaces DEF LoadWord, IInv, TypeOK
  <2> QED BY <2>1, <2>2
<1>5. ASSUME NEW t \in Threads, CmpXch(t) PROVE PlaceInv'
  <2>1. CASE arw_lock = 0
    BY <1>5, <2>1 DEF CmpXch, CmpXchElse, PlaceInv, IInv, TypeOK, Goto
  <2>2. CASE arw_lock # 0 /\ op[t].tmo = "once"
    BY <1>5, <2>2, RefusedPlaces DEF CmpXch, CmpXchElse, IInv
  <2>3. CASE arw_lock # 0 /\ op[t].tmo # "once"
    <3>1. op[t].tmo # "finite"
      BY <1>5 DEF CmpXch, CmpXchElse, PlaceInv, TakeInv
    <3> QED
      BY <1>5, <2>3, <3>1 DEF CmpXch, CmpXchElse, PlaceInv, IInv, TypeOK, Goto
  <2> QED BY <2>1, <2>2, <2>3
<1>6. ASSUME NEW t \in Threads, WaitingStart(t) PROVE PlaceInv'
  BY <1>6 DEF WaitingStart, PlaceInv, IInv, TypeOK, Goto
<1>7. ASSUME NEW t \in Threads, FutexWait(t) PROVE PlaceInv'
  BY <1>7 DEF FutexWait, PlaceInv, IInv, TypeOK, Goto
<1>8. ASSUME NEW t \in Threads, FutexInterrupted(t) PROVE PlaceInv'
  BY <1>8 DEF FutexInterrupted, PlaceInv, IInv, TypeOK, Goto
<1>9. ASSUME NEW t \in Threads, Woken(t) PROVE PlaceInv'
  BY <1>9 DEF Woken, PlaceInv, IInv, TypeOK, Goto
<1>10. ASSUME NEW t \in Threads, TimedOut(t) PROVE PlaceInv'
  BY <1>10 DEF TimedOut, PlaceInv, IInv, TypeOK, Goto
<1>11. ASSUME NEW t \in Threads, WaitingEnd(t) PROVE PlaceInv'
  BY <1>11 DEF WaitingEnd, EndWait, PlaceInv, IInv, TypeOK, Goto
<1>12. ASSUME NEW t \in Threads, UpgradeDrop(t) PROVE PlaceInv'
  BY <1>12 DEF UpgradeDrop, PlaceInv, IInv, TypeOK, Goto
<1>13. ASSUME NEW t \in Threads, Wake(t) PROVE PlaceInv'
  BY <1>13 DEF Wake, PlaceInv, IInv, TypeOK, Goto
<1>14. ASSUME NEW t \in Threads, WakeWriters(t) PROVE PlaceInv'
  BY <1>14 DEF WakeWriters, Test, Finish, PlaceInv, IInv, TypeOK, Goto
<1>15. ASSUME NEW t \in Threads, WakeRead(t) PROVE PlaceInv'
  BY <1>15 DEF WakeRead, Test, Finish, PlaceInv, IInv, TypeOK, Goto
<1>16. ASSUME NEW t \in Threads, DoWakeOne(t) PROVE PlaceInv'
  BY <1>16 DEF DoWakeOne, WakeOne, PlaceInv, IInv, TypeOK, Goto
<1>17. ASSUME NEW t \in Threads, DoWakeAll(t) PROVE PlaceInv'
  BY <1>17 DEF DoWakeAll, Finish, PlaceInv, IInv, TypeOK, Goto
<1>18. ASSUME NEW t \in Threads, EndRead(t) PROVE PlaceInv'
  BY <1>18 DEF EndRead, DropRead, Release, PlaceInv, IInv, TypeOK, Goto
<1>19. ASSUME NEW t \in Threads, EndWrite(t) PROVE PlaceInv'
  BY <1>19 DEF EndWrite, Release, PlaceInv, IInv, TypeOK, Goto
<1>20. ASSUME NEW t \in Threads, Downgrade(t) PROVE PlaceInv'
  BY <1>20 DEF Downgrade, Release, PlaceInv, IInv, TypeOK, Goto
<1>21. ASSUME NEW t \in Threads, TryUpgrade(t) PROVE PlaceInv'
  BY <1>21 DEF TryUpgrade, PlaceInv, IInv, TypeOK, Goto
<1>22. ASSUME NEW t \in Threads, Interrupt(t) PROVE PlaceInv'
  BY <1>22 DEF Interrupt, PlaceInv, IInv, TypeOK, Goto
<1>23. ASSUME NEW t \in Threads, WakeGlobal(t) PROVE PlaceInv'
  BY <1>23 DEF WakeGlobal, PlaceInv, IInv, TypeOK, Goto
<1> QED
  BY <1>1, <1>2, <1>3, <1>4, <1>5, <1>6, <1>7, <1>8, <1>9, <1>10, <1>11, <1>12,
     <1>13, <1>14, <1>15, <1>16, <1>17, <1>18, <1>19, <1>20, <1>21, <1>22, <1>23 DEF Next, Step

\* A reader sleeps only on a writer's word.  Whoever ends or downgrades that write looks
\* for readers, finds the waitword counting this one, and wakes everybody.
LEMMA ReaderRescueStep ==
    ASSUME IInv, PlaceInv, ReaderRescue, [Next]_vars PROVE ReaderRescue'
<1> DEFINE Rescuers == {"wake", "wakeone", "wakeread", "wakeall"}
           Calm == /\ arw_lock' # Writing => arw_lock # Writing
                   /\ \A u \in sleepers' : op'[u].mode = "read" =>
                        u \in sleepers /\ op[u].mode = "read"
                   /\ \A u \in Threads : pc[u] \in Rescuers => pc'[u] \in Rescuers
           Kept == \/ Calm
                   \/ arw_lock' = Writing
                   \/ \A u \in sleepers' : op'[u].mode # "read"
                   \/ \E u \in Threads : pc'[u] \in Rescuers
<1>1. ASSUME UNCHANGED vars PROVE Kept
  BY <1>1 DEF vars, IInv, PlaceInv, TypeOK, Goto
<1>2. ASSUME NEW t \in Threads, Call(t) PROVE Kept
  BY <1>2 DEF Call, IInv, PlaceInv, TypeOK, Goto
<1>3. ASSUME NEW t \in Threads, TryRead(t) PROVE Kept
  <2>1. CASE arw_lock # Writing
    BY <1>3, <2>1 DEF TryRead, IInv, PlaceInv, TypeOK, Goto
  <2>2. CASE ~(arw_lock # Writing)
    BY <1>3, <2>2, RefusedStep DEF TryRead, IInv, PlaceInv, TypeOK, Goto
  <2> QED BY <2>1, <2>2
<1>4. ASSUME NEW t \in Threads, LoadWord(t) PROVE Kept
  <2>1. CASE arw_lock = 0
    BY <1>4, <2>1 DEF LoadWord, IInv, PlaceInv, TypeOK, Goto
  <2>2. CASE ~(arw_lock = 0)
    BY <1>4, <2>2, RefusedStep DEF LoadWord, IInv, PlaceInv, TypeOK, Goto
  <2> QED BY <2>1, <2>2
<1>5. ASSUME NEW t \in Threads, CmpXch(t) PROVE Kept
  <2>1. CASE ~Refused(t, 0)
    BY <1>5, <2>1 DEF CmpXch, CmpXchElse, IInv, PlaceInv, TypeOK, Goto
  <2>2. CASE ~(~Refused(t, 0))
    BY <1>5, <2>2, RefusedStep DEF CmpXch, CmpXchElse, IInv, PlaceInv, TypeOK, Goto
  <2> QED BY <2>1, <2>2
<1>6. ASSUME NEW t \in Threads, WaitingStart(t) PROVE Kept
  BY <1>6 DEF WaitingStart, IInv, PlaceInv, TypeOK, Goto
<1>7. ASSUME NEW t \in Threads, FutexWait(t) PROVE Kept
  BY <1>7 DEF FutexWait, IInv, PlaceInv, TypeOK, Goto
<1>8. ASSUME NEW t \in Threads, FutexInterrupted(t) PROVE Kept
  BY <1>8 DEF FutexInterrupted, IInv, PlaceInv, TypeOK, Goto
<1>9. ASSUME NEW t \in Threads, Woken(t) PROVE Kept
  BY <1>9 DEF Woken, IInv, PlaceInv, TypeOK, Goto
<1>10. ASSUME NEW t \in Threads, TimedOut(t) PROVE Kept
  BY <1>10 DEF TimedOut, IInv, PlaceInv, TypeOK, Goto
<1>11. ASSUME NEW t \in Threads, WaitingEnd(t) PROVE Kept
  BY <1>11 DEF WaitingEnd, EndWait, IInv, PlaceInv, TypeOK, Goto
<1>12. ASSUME NEW t \in Threads, UpgradeDrop(t) PROVE Kept
  <2>1. t \in Readers
    BY <1>12 DEF UpgradeDrop, Readers
  <2>2. arw_lock # Writing
    BY <2>1, ReaderCounted DEF IInv, TypeOK
  <2> QED BY <1>12, <2>2 DEF UpgradeDrop, IInv, PlaceInv, TypeOK, Goto
<1>13. ASSUME NEW t \in Threads, Wake(t) PROVE Kept
  <2>1. CASE waiting["read"] # 0
    BY <1>13, <2>1 DEF Wake, IInv, PlaceInv, TypeOK, Goto
  <2>2. CASE waiting["read"] = 0
    <3>1. \A u \in sleepers : op[u].mode # "read"
      BY <2>2, WaitingPositive DEF IInv, PlaceInv, TypeOK, Goto
    <3> QED BY <1>13, <3>1 DEF Wake
  <2> QED BY <2>1, <2>2
<1>14. ASSUME NEW t \in Threads, WakeWriters(t) PROVE Kept
  BY <1>14 DEF WakeWriters, Test, Finish, IInv, PlaceInv, TypeOK, Goto
<1>15. ASSUME NEW t \in Threads, WakeRead(t) PROVE Kept
  <2>1. CASE waiting["read"] # 0
    BY <1>15, <2>1 DEF WakeRead, Test, IInv, PlaceInv, TypeOK, Goto
  <2>2. CASE waiting["read"] = 0
    <3>1. \A u \in sleepers : op[u].mode # "read"
      BY <2>2, WaitingPositive DEF IInv, PlaceInv, TypeOK, Goto
    <3> QED BY <1>15, <3>1 DEF WakeRead, Test
  <2> QED BY <2>1, <2>2
<1>16. ASSUME NEW t \in Threads, DoWakeOne(t) PROVE Kept
  BY <1>16 DEF DoWakeOne, WakeOne, IInv, PlaceInv, TypeOK, Goto
<1>17. ASSUME NEW t \in Threads, DoWakeAll(t) PROVE Kept
  BY <1>17 DEF DoWakeAll, Finish, IInv, PlaceInv, TypeOK, Goto
<1>18. ASSUME NEW t \in Threads, EndRead(t) PROVE Kept
  <2>1. t \in Readers
    BY <1>18 DEF EndRead, Readers
  <2>2. arw_lock # Writing
    BY <2>1, ReaderCounted DEF IInv, TypeOK
  <2> QED BY <1>18, <2>2 DEF EndRead, DropRead, Release, IInv, PlaceInv, TypeOK, Goto
<1>19. ASSUME NEW t \in Threads, EndWrite(t) PROVE Kept
  BY <1>19 DEF EndWrite, Release, IInv, PlaceInv, TypeOK, Goto
<1>20. ASSUME NEW t \in Threads, Downgrade(t) PROVE Kept
  BY <1>20 DEF Downgrade, Release, IInv, PlaceInv, TypeOK, Goto
<1>21. ASSUME NEW t \in Threads, TryUpgrade(t) PROVE Kept
  BY <1>21 DEF TryUpgrade, IInv, PlaceInv, TypeOK, Goto
<1>22. ASSUME NEW t \in Threads, Interrupt(t) PROVE Kept
  BY <1>22 DEF Interrupt, IInv, PlaceInv, TypeOK, Goto
<1>23. ASSUME NEW t \in Threads, WakeGlobal(t) PROVE Kept
  BY <1>23 DEF WakeGlobal, IInv, PlaceInv, TypeOK, Goto
<1> HIDE DEF Calm, Kept
<1>24. Kept
  BY <1>1, <1>2, <1>3, <1>4, <1>5, <1>6, <1>7, <1>8, <1>9, <1>10, <1>11, <1>12,
     <1>13, <1>14, <1>15, <1>16, <1>17, <1>18, <1>19, <1>20, <1>21, <1>22, <1>23 DEF Next, Step
<1>25. sleepers \subseteq Threads
  BY DEF IInv, TypeOK
<1> QED
  BY <1>24, <1>25 DEF Kept, Calm, ReaderRescue

\* Nobody sleeps on a free lock.  Whoever frees it looks for writers, finds the waitword
\* counting this one, and wakes somebody who contends for the lock in turn; contenders
\* stop contending only when the lock is taken.
LEMMA WriterRescueStep ==
    ASSUME IInv, TakeInv, PlaceInv, WriterRescue, [Next]_vars PROVE WriterRescue'
<1> DEFINE Rescuers == {"wake", "wakew", "wakeone", "wakeall"}
           Calm == /\ arw_lock' = 0 => arw_lock = 0
                   /\ \A u \in sleepers' : op'[u].mode = "write" =>
                        u \in sleepers /\ op[u].mode = "write"
                   /\ \A u \in Threads : pc[u] \in Rescuers => pc'[u] \in Rescuers
                   /\ \A u \in Contenders : u \in Contenders'
           Kept == \/ Calm
                   \/ arw_lock' # 0
                   \/ \A u \in sleepers' : op'[u].mode # "write"
                   \/ \E u \in Threads : pc'[u] \in Rescuers \/ u \in Contenders'
<1>1. ASSUME UNCHANGED vars PROVE Kept
  BY <1>1 DEF vars, IInv, PlaceInv, TypeOK, Goto, Contenders
<1>2. ASSUME NEW t \in Threads, Call(t) PROVE Kept
  BY <1>2 DEF Call, IInv, PlaceInv, TypeOK, Goto, Contenders
<1>3. ASSUME NEW t \in Threads, TryRead(t) PROVE Kept
  BY <1>3 DEF TryRead, IInv, PlaceInv, TypeOK, Goto, Contenders
<1>4. ASSUME NEW t \in Threads, LoadWord(t) PROVE Kept
  BY <1>4 DEF LoadWord, IInv, PlaceInv, TypeOK, Goto, Contenders
<1>5. ASSUME NEW t \in Threads, CmpXch(t) PROVE Kept
  BY <1>5 DEF CmpXch, CmpXchElse, IInv, PlaceInv, TypeOK, Goto, Contenders
<1>6. ASSUME NEW t \in Threads, WaitingStart(t) PROVE Kept
  BY <1>6 DEF WaitingStart, IInv, PlaceInv, TypeOK, Goto, Contenders
<1>7. ASSUME NEW t \in Threads, FutexWait(t) PROVE Kept
  BY <1>7 DEF FutexWait, IInv, PlaceInv, TypeOK, Goto, Contenders
<1>8. ASSUME NEW t \in Threads, FutexInterrupted(t) PROVE Kept
  BY <1>8 DEF FutexInterrupted, IInv, PlaceInv, TypeOK, Goto, Contenders
<1>9. ASSUME NEW t \in Threads, Woken(t) PROVE Kept
  BY <1>9 DEF Woken, IInv, PlaceInv, TypeOK, Goto, Contenders
<1>10. ASSUME NEW t \in Threads, TimedOut(t) PROVE Kept
  BY <1>10 DEF TimedOut, IInv, PlaceInv, TypeOK, Goto, Contenders
<1>11. ASSUME NEW t \in Threads, WaitingEnd(t) PROVE Kept
  BY <1>11 DEF WaitingEnd, EndWait, IInv, PlaceInv, TypeOK, Goto, Contenders
<1>12. ASSUME NEW t \in Threads, UpgradeDrop(t) PROVE Kept
  BY <1>12 DEF UpgradeDrop, IInv, PlaceInv, TypeOK, Goto, Contenders
<1>13. ASSUME NEW t \in Threads, Wake(t) PROVE Kept
  BY <1>13 DEF Wake, IInv, PlaceInv, TypeOK, Goto, Contenders
<1>14. ASSUME NEW t \in Threads, WakeWriters(t) PROVE Kept
  <2>1. CASE waiting["write"] # 0
    BY <1>14, <2>1 DEF WakeWriters, Test, IInv, PlaceInv, TypeOK, Goto, Contenders
  <2>2. CASE waiting["write"] = 0
    <3>1. \A u \in sleepers : op[u].mode # "write"
      BY <2>2, WaitingPositive DEF IInv, PlaceInv, TypeOK, Goto, Contenders
    <3> QED BY <1>14, <3>1 DEF WakeWriters, Test
  <2> QED BY <2>1, <2>2
<1>15. ASSUME NEW t \in Threads, WakeRead(t) PROVE Kept
  BY <1>15 DEF WakeRead, Test, Finish, IInv, PlaceInv, TypeOK, Goto, Contenders
<1>16. ASSUME NEW t \in Threads, DoWakeOne(t) PROVE Kept
  <2>1. CASE sleepers = {}
    BY <1>16, <2>1 DEF DoWakeOne, WakeOne
  <2>2. CASE sleepers # {}
    <3>1. PICK u \in sleepers : sleepers' = sleepers \ {u}
      BY <1>16, <2>2 DEF DoWakeOne, WakeOne
    <3>2. u # t /\ u \in Threads /\ pc'[u] = "asleep" /\ op'[u].take
      BY <1>16, <3>1 DEF DoWakeOne, TakeInv, IInv, PlaceInv, TypeOK, Goto
    <3> QED BY <3>1, <3>2 DEF Contenders
  <2> QED BY <2>1, <2>2
<1>17. ASSUME NEW t \in Threads, DoWakeAll(t) PROVE Kept
  BY <1>17 DEF DoWakeAll, Finish, IInv, PlaceInv, TypeOK, Goto, Contenders
<1>18. ASSUME NEW t \in Threads, EndRead(t) PROVE Kept
  BY <1>18 DEF EndRead, DropRead, Release, IInv, PlaceInv, TypeOK, Goto, Contenders
<1>19. ASSUME NEW t \in Threads, EndWrite(t) PROVE Kept
  BY <1>19 DEF EndWrite, Release, IInv, PlaceInv, TypeOK, Goto, Contenders
<1>20. ASSUME NEW t \in Threads, Downgrade(t) PROVE Kept
  BY <1>20 DEF Downgrade, Release, IInv, PlaceInv, TypeOK, Goto, Contenders
<1>21. ASSUME NEW t \in Threads, TryUpgrade(t) PROVE Kept
  BY <1>21 DEF TryUpgrade, IInv, PlaceInv, TypeOK, Goto, Contenders
<1>22. ASSUME NEW t \in Threads, Interrupt(t) PROVE Kept
  BY <1>22 DEF Interrupt, IInv, PlaceInv, TypeOK, Goto, Contenders
<1>23. ASSUME NEW t \in Threads, WakeGlobal(t) PROVE Kept
  BY <1>23 DEF WakeGlobal, IInv, PlaceInv, TypeOK, Goto, Contenders
<1> HIDE DEF Calm, Kept
<1>24. Kept
  BY <1>1, <1>2, <1>3, <1>4, <1>5, <1>6, <1>7, <1>8, <1>9, <1>10, <1>11, <1>12,
     <1>13, <1>14, <1>15, <1>16, <1>17, <1>18, <1>19, <1>20, <1>21, <1>22, <1>23 DEF Next, Step
<1>25. sleepers \subseteq Threads
  BY DEF IInv, TypeOK
<1>26. Contenders \subseteq Threads /\ Contenders' \subseteq Threads
  BY DEF Contenders
<1> QED
  BY <1>24, <1>25, <1>26 DEF Kept, Calm, WriterRescue

\* No wake-up of the read/write lock is lost, however many threads share it: while it
\* is free and somebody sleeps on it, someone is about to wake sleepers or to contend
\* for it (_Dee_shared_rwlock_wake), and a sleeping reader is about to be woken as soon
\* as readers may enter (_Dee_shared_rwlock_wakeread).
THEOREM WakeupSafety == ASSUME OnlyTake PROVE Spec => []NoLostWakeup
<1>1. Init => WakeInv
  BY OpsAssumption DEF Init, OnlyTake, WakeInv, TakeInv, PlaceInv, WriterRescue, ReaderRescue
<1>2. IInv /\ WakeInv /\ [Next]_vars => WakeInv'
  BY TakeStep, PlaceStep, WriterRescueStep, ReaderRescueStep DEF WakeInv
<1>3. IInv /\ WakeInv => NoLostWakeup
  <2> SUFFICES ASSUME IInv, WakeInv PROVE NoLostWakeup
    OBVIOUS
  <2>1. \A t \in sleepers : op[t].mode \in {"read", "write"}
    BY DEF IInv, TypeOK, Operations
  <2> QED
    BY <2>1 DEF WakeInv, WriterRescue, ReaderRescue, NoLostWakeup, WakePCs
<1> QED
  BY <1>1, <1>2, <1>3, Invariance, PTL DEF Spec

=============================================================================
