---------------------------- MODULE Once_proofs -----------------------------
(***************************************************************************)
(* Proofs about Dee_once_t, for any finite set of threads and any          *)
(* threshold and bounds.                                                   *)
(***************************************************************************)
EXTENDS Once, FiniteSetTheorems, TLAPS

\* Threads that have incremented a completed word and not yet taken that back.
Late == {t \in Threads : pc[t] = "fix"}

\* What is too much in a completed word is due to late threads.
LateInv == committed => oc_didrun <= Completed + Cardinality(Late)
LateMeansDone == Late # {} => committed

\* What a thread that is to bring the word back to 2, or waits for it to change,
\* has found there: a word that others had incremented before.
StateInv == /\ \A t \in Threads : pc[t] = "cas" => state[t] \in 3 .. MaxWaiting
            /\ \A t \in Threads : pc[t] = "wait" => state[t] \in 2 .. Completed - 1

\* The inductive invariant of the controller.
IInv == /\ TypeOK
        /\ LateInv
        /\ LateMeansDone
        /\ StateInv
        /\ RunsOnce
        /\ WordExact
        /\ ZeroMeansDone
        /\ NoLostWakeup

-----------------------------------------------------------------------------

\* Late is a finite set with no more elements than there are threads.
LEMMA LateFinite ==
    /\ IsFiniteSet(Late)
    /\ Cardinality(Late) \in Nat
    /\ Cardinality(Threads) \in Nat
    /\ Cardinality(Late) <= Cardinality(Threads)
BY ThreadsAssumption, FS_Subset, FS_CardinalityType DEF Late

\* The threads that are late stay finite in number.
LEMMA LateFinitePrime ==
    /\ IsFiniteSet(Late')
    /\ Cardinality(Late') \in Nat
    /\ Cardinality(Late') <= Cardinality(Threads)
BY ThreadsAssumption, FS_Subset, FS_CardinalityType DEF Late

\* A thread that was not late and now is adds one, and late threads stay late
\* unless they go somewhere else.
LEMMA LateGrows ==
    ASSUME TypeOK, NEW t \in Threads, pc[t] # "fix", pc' = [pc EXCEPT ![t] = "fix"]
    PROVE  Cardinality(Late') = Cardinality(Late) + 1
<1>1. Late' = Late \cup {t} /\ t \notin Late
  BY DEF TypeOK, Late
<1> QED
  BY <1>1, LateFinite, FS_AddElement

\* Nobody has called yet.
LEMMA InitIInv == Init => IInv
<1> SUFFICES ASSUME Init PROVE IInv
  OBVIOUS
<1>1. TypeOK
  <2>1. committed \in BOOLEAN
    BY Zenon DEF Init
  <2> QED
    BY <2>1, OpsAssumption, BoundAssumption DEF Init, TypeOK, PCs, Nothing
<1>2. ~committed /\ Late = {} /\ Runners = {}
  BY DEF Init, Late, Runners
<1>3. LateInv /\ LateMeansDone /\ RunsOnce
  BY <1>2 DEF LateInv, LateMeansDone, RunsOnce
<1>4. StateInv /\ WordExact /\ ZeroMeansDone /\ NoLostWakeup
  BY <1>2, BoundAssumption DEF Init, StateInv, WordExact, ZeroMeansDone, NoLostWakeup, Nothing
<1> QED
  BY <1>1, <1>3, <1>4 DEF IInv

\* The invariant without what only counts late threads.
Core == /\ LateMeansDone
        /\ StateInv
        /\ RunsOnce
        /\ WordExact
        /\ ZeroMeansDone
        /\ NoLostWakeup

\* The variables keep their types.
LEMMA TypeStep == ASSUME IInv, [Next]_vars PROVE TypeOK'
<1> USE BoundAssumption, LateFinite DEF IInv, TypeOK, PCs, Nothing, Goto, Return, OthersRun, WakeAll
<1>1. CASE UNCHANGED vars
  BY <1>1 DEF vars
<1>2. ASSUME NEW t \in Threads, Call(t) PROVE TypeOK'
  BY <1>2 DEF Call
<1>3. ASSUME NEW t \in Threads, Read(t) PROVE TypeOK'
  BY <1>3 DEF Read
<1>4. ASSUME NEW t \in Threads, FetchInc(t) PROVE TypeOK'
  <2>1. CASE oc_didrun < Completed
    BY <1>4, <2>1 DEF FetchInc, FetchIncFrom
  <2>2. CASE oc_didrun >= Completed
    <3>1. pc' = [pc EXCEPT ![t] = "fix"] /\ pc[t] # "fix"
      BY <1>4, <2>2 DEF FetchInc, FetchIncFrom
    <3>2. Cardinality(Late') = Cardinality(Late) + 1
      BY <3>1, LateGrows
    <3>3. Cardinality(Late') <= Cardinality(Threads)
      BY LateFinitePrime
    <3>4. oc_didrun <= Completed + Cardinality(Late)
      BY <2>2 DEF WordExact, LateInv
    <3>5. oc_didrun' \in Completed .. Completed + Cardinality(Threads)
      BY <1>4, <2>2, <3>2, <3>3, <3>4 DEF FetchInc, FetchIncFrom
    <3> QED
      BY <1>4, <2>2, <3>1, <3>5 DEF FetchInc, FetchIncFrom
  <2> QED BY <2>1, <2>2
<1>5. ASSUME NEW t \in Threads, Fix(t) PROVE TypeOK'
  BY <1>5 DEF Fix
<1>6. ASSUME NEW t \in Threads, CmpXch(t) PROVE TypeOK'
  BY <1>6 DEF CmpXch
<1>7. ASSUME NEW t \in Threads, FutexWait(t) PROVE TypeOK'
  BY <1>7 DEF FutexWait
<1>8. ASSUME NEW t \in Threads, FutexInterrupted(t) PROVE TypeOK'
  BY <1>8 DEF FutexInterrupted
<1>9. ASSUME NEW t \in Threads, Woken(t) PROVE TypeOK'
  BY <1>9 DEF Woken
<1>10. ASSUME NEW t \in Threads, Reread(t) PROVE TypeOK'
  BY <1>10 DEF Reread, RereadDone
<1>11. ASSUME NEW t \in Threads, Commit(t) PROVE TypeOK'
  BY <1>11 DEF Commit, EndBlock
<1>12. ASSUME NEW t \in Threads, Abort(t) PROVE TypeOK'
  BY <1>12 DEF Abort, EndBlock
<1>13. ASSUME NEW t \in Threads, DoWakeAll(t) PROVE TypeOK'
  BY <1>13 DEF DoWakeAll
<1>14. ASSUME NEW t \in Threads, Interrupt(t) PROVE TypeOK'
  BY <1>14 DEF Interrupt
<1>15. ASSUME NEW t \in Threads, WakeGlobal(t) PROVE TypeOK'
  BY <1>15 DEF WakeGlobal
<1> QED
  BY <1>1, <1>2, <1>3, <1>4, <1>5, <1>6, <1>7, <1>8, <1>9, <1>10, <1>11, <1>12, <1>13, <1>14, <1>15 DEF Next, Step

\* The block is run once, the word tells the truth and nobody sleeps through the end.
LEMMA CoreStep == ASSUME IInv, [Next]_vars PROVE Core'
<1> USE BoundAssumption DEF IInv, Core, TypeOK, PCs, Goto, Return, OthersRun, WakeAll, LateMeansDone,
        Late, StateInv, RunsOnce, Runners, WordExact, ZeroMeansDone, NoLostWakeup, Nothing
<1>1. CASE UNCHANGED vars
  BY <1>1 DEF vars
<1>2. ASSUME NEW t \in Threads, Call(t) PROVE Core'
  BY <1>2 DEF Call
<1>3. ASSUME NEW t \in Threads, Read(t) PROVE Core'
  BY <1>3 DEF Read
<1>4. ASSUME NEW t \in Threads, FetchInc(t) PROVE Core'
  BY <1>4 DEF FetchInc, FetchIncFrom
<1>5. ASSUME NEW t \in Threads, Fix(t) PROVE Core'
  BY <1>5 DEF Fix
<1>6. ASSUME NEW t \in Threads, CmpXch(t) PROVE Core'
  BY <1>6 DEF CmpXch
<1>7. ASSUME NEW t \in Threads, FutexWait(t) PROVE Core'
  BY <1>7 DEF FutexWait
<1>8. ASSUME NEW t \in Threads, FutexInterrupted(t) PROVE Core'
  BY <1>8 DEF FutexInterrupted
<1>9. ASSUME NEW t \in Threads, Woken(t) PROVE Core'
  BY <1>9 DEF Woken
<1>10. ASSUME NEW t \in Threads, Reread(t) PROVE Core'
  BY <1>10 DEF Reread, RereadDone
<1>11. ASSUME NEW t \in Threads, Commit(t) PROVE Core'
  BY <1>11 DEF Commit, EndBlock
<1>12. ASSUME NEW t \in Threads, Abort(t) PROVE Core'
  BY <1>12 DEF Abort, EndBlock
<1>13. ASSUME NEW t \in Threads, DoWakeAll(t) PROVE Core'
  BY <1>13 DEF DoWakeAll
<1>14. ASSUME NEW t \in Threads, Interrupt(t) PROVE Core'
  BY <1>14 DEF Interrupt
<1>15. ASSUME NEW t \in Threads, WakeGlobal(t) PROVE Core'
  BY <1>15 DEF WakeGlobal
<1> QED
  BY <1>1, <1>2, <1>3, <1>4, <1>5, <1>6, <1>7, <1>8, <1>9, <1>10, <1>11, <1>12, <1>13, <1>14, <1>15 DEF Next, Step

\* Only late threads increment a completed word: any other step leaves the word and
\* the late threads alone, or brings the word down to Completed at least.
LEMMA LateStep == ASSUME IInv, [Next]_vars PROVE LateInv'
<1> DEFINE Quiet == \/ oc_didrun' <= Completed
                    \/ oc_didrun' = oc_didrun /\ Late' = Late /\ (committed' => committed)
<1> USE BoundAssumption DEF IInv, TypeOK, PCs, Goto, Return, OthersRun
<1>1. ASSUME UNCHANGED vars PROVE Quiet
  BY <1>1 DEF vars, Late
<1>2. ASSUME NEW t \in Threads, Call(t) PROVE Quiet
  BY <1>2 DEF Call, Late
<1>3. ASSUME NEW t \in Threads, Read(t) PROVE Quiet
  BY <1>3 DEF Read, Late
<1>4. ASSUME NEW t \in Threads, FetchInc(t) PROVE Quiet \/ LateInv'
  <2>1. CASE oc_didrun < Completed
    BY <1>4, <2>1 DEF FetchInc, FetchIncFrom
  <2>2. CASE oc_didrun >= Completed
    <3>1. pc' = [pc EXCEPT ![t] = "fix"] /\ pc[t] # "fix"
      BY <1>4, <2>2 DEF FetchInc, FetchIncFrom
    <3>2. Cardinality(Late') = Cardinality(Late) + 1
      BY <3>1, LateGrows
    <3>3. oc_didrun <= Completed + Cardinality(Late)
      BY <2>2 DEF WordExact, LateInv
    <3>4. oc_didrun' <= Completed + Cardinality(Late')
      BY <1>4, <3>2, <3>3, LateFinite DEF FetchInc, FetchIncFrom
    <3> QED
      BY <3>4 DEF LateInv
  <2> QED BY <2>1, <2>2
<1>5. ASSUME NEW t \in Threads, Fix(t) PROVE Quiet
  BY <1>5 DEF Fix
<1>6. ASSUME NEW t \in Threads, CmpXch(t) PROVE Quiet
  BY <1>6 DEF CmpXch, Late
<1>7. ASSUME NEW t \in Threads, FutexWait(t) PROVE Quiet
  BY <1>7 DEF FutexWait, Late
<1>8. ASSUME NEW t \in Threads, FutexInterrupted(t) PROVE Quiet
  BY <1>8 DEF FutexInterrupted, Late
<1>9. ASSUME NEW t \in Threads, Woken(t) PROVE Quiet
  BY <1>9 DEF Woken, Late
<1>10. ASSUME NEW t \in Threads, Reread(t) PROVE Quiet
  BY <1>10 DEF Reread, RereadDone, Late
<1>11. ASSUME NEW t \in Threads, Commit(t) PROVE Quiet
  BY <1>11 DEF Commit, EndBlock
<1>12. ASSUME NEW t \in Threads, Abort(t) PROVE Quiet
  BY <1>12 DEF Abort, EndBlock
<1>13. ASSUME NEW t \in Threads, DoWakeAll(t) PROVE Quiet
  BY <1>13 DEF DoWakeAll, Late
<1>14. ASSUME NEW t \in Threads, Interrupt(t) PROVE Quiet
  BY <1>14 DEF Interrupt, Late
<1>15. ASSUME NEW t \in Threads, WakeGlobal(t) PROVE Quiet
  BY <1>15 DEF WakeGlobal, Late
<1>16. ASSUME Quiet PROVE LateInv'
  <2>1. CASE oc_didrun' <= Completed
    <3>1. oc_didrun' \in Int
      BY TypeStep, LateFinite
    <3> QED
      BY <2>1, <3>1, LateFinitePrime DEF LateInv
  <2>2. CASE oc_didrun' = oc_didrun /\ Late' = Late /\ (committed' => committed)
    <3> SUFFICES ASSUME committed' PROVE oc_didrun' <= Completed + Cardinality(Late')
      BY DEF LateInv
    <3>1. committed
      BY <2>2
    <3>2. oc_didrun <= Completed + Cardinality(Late)
      BY <3>1 DEF LateInv
    <3> QED BY <2>2, <3>2
  <2> QED BY <1>16, <2>1, <2>2
<1> HIDE DEF Quiet
<1> QED
  BY <1>1, <1>2, <1>3, <1>4, <1>5, <1>6, <1>7, <1>8, <1>9, <1>10, <1>11, <1>12, <1>13, <1>14, <1>15, <1>16 DEF Next, Step

\* The invariant holds throughout.
LEMMA InvariantHolds == Spec => []IInv
<1>1. IInv /\ [Next]_vars => IInv'
  BY TypeStep, CoreStep, LateStep DEF IInv, Core
<1> QED
  BY <1>1, InitIInv, PTL DEF Spec

\* However many threads come late, the completed word stays within the number of
\* threads of the threshold, so that it never wraps around to 0.
THEOREM TypeCorrect == Spec => []TypeOK
<1>1. IInv => TypeOK
  BY DEF IInv
<1> QED
  BY <1>1, InvariantHolds, PTL

\* The block between Dee_once_begin and Dee_once_commit is run by one thread at a
\* time and never again after a commit, however often it was aborted before.
THEOREM Safety == Spec => []RunsOnce
<1>1. IInv => RunsOnce
  BY DEF IInv
<1> QED
  BY <1>1, InvariantHolds, PTL

\* The word says whether the block was run, is run or is still to be run.
THEOREM WordCorrect == Spec => []WordExact
<1>1. IInv => WordExact
  BY DEF IInv
<1> QED
  BY <1>1, InvariantHolds, PTL

\* A caller that is told 0 may rely on what the block has set up.
THEOREM DoneCorrect == Spec => []ZeroMeansDone
<1>1. IInv => ZeroMeansDone
  BY DEF IInv
<1> QED
  BY <1>1, InvariantHolds, PTL

\* Nobody sleeps through Dee_once_commit or Dee_once_abort.
THEOREM WakeupSafety == Spec => []NoLostWakeup
<1>1. IInv => NoLostWakeup
  BY DEF IInv
<1> QED
  BY <1>1, InvariantHolds, PTL

=============================================================================
