------------------------- MODULE ThreadState_proofs -------------------------
(***************************************************************************)
(* Proofs about the state word of threads, for any set of threads, any     *)
(* calls between them and any number of interrupts.                        *)
(***************************************************************************)
EXTENDS ThreadState, FiniteSetTheorems, SequenceTheorems, TLAPS

-----------------------------------------------------------------------------
(* The inductive invariant *)

\* The types, without the bound that Invoke puts on the number of interrupts.
TypeInv == /\ t_state \in [Threads -> SUBSET Flags]
           /\ frame \in [Threads -> Frames]
           /\ t_interrupt \in [Threads -> Seq(Nat)]
           /\ sent \in [Threads -> Nat]
           /\ taken \in [Threads -> Nat]
           /\ sleepers \subseteq Threads
           /\ \A t \in sleepers : pc(t) \in WaitPCs

\* The places within DeeThread_CheckInterruptSelf, within _DeeThread_WakeWaiting and on
\* the way to TERMINATING, and where each of them returns to.
CheckPCs == {"check", "bump", "clear", "pending", "acquire", "pop", "popped"}
WakePCs == {"wakeload", "wakeclear", "wakeall"}
TermPCs == {"term", "terming", "termed"}

CheckStacks == {<<"run">>, <<"main">>, <<"cleanup">>, <<"lock">>, <<"swait">>, <<"jwait">>}
PendingStacks == {<<"pending", "run">>, <<"pending", "main">>, <<"pending", "cleanup">>,
                  <<"pending", "lock">>, <<"pending", "swait">>, <<"pending", "jwait">>}
WakeStacks == {<<"run">>, <<"gone">>} \cup PendingStacks
TermStacks == {<<"cleanup">>, <<"check", "cleanup">>}

StackInv == \A t \in Threads :
    /\ pc(t) \in CheckPCs => frame[t].stack \in CheckStacks
    /\ pc(t) \in WakePCs => frame[t].stack \in WakeStacks
    /\ pc(t) \in TermPCs => frame[t].stack \in TermStacks
    /\ pc(t) \notin CheckPCs \cup WakePCs \cup TermPCs => frame[t].stack = <<>>

\* The thread is in the given wait, or handles interrupts within it.
Within(t, wait) ==
    \/ pc(t) = wait
    \/ pc(t) \in CheckPCs /\ frame[t].stack = <<wait>>
    \/ pc(t) \in WakePCs /\ frame[t].stack = <<"pending", wait>>

\* A thread that has not been started has at most one starter.
Starter(t, w) == pc(t) \in {"create", "abort"} /\ me(t) = w

StartInv ==
    /\ \A t \in Threads :
          pc(t) \in {"start", "create", "abort"} \/ Within(t, "swait") => me(t) \in Workers
    /\ \A w \in Workers : "STARTING" \notin t_state[w] => pc(w) = "new"
    /\ \A t, w \in Threads : Starter(t, w) => "STARTING" \in t_state[w] /\ pc(w) = "new"
    /\ \A t, u, w \in Threads : Starter(t, w) /\ Starter(u, w) => t = u

\* INTERRUPTING is a lock: LockExact without counting.
Holds(t, w) == \/ pc(t) \in HeldPCs /\ me(t) = w
               \/ t = w /\ pc(t) \in OwnPCs

LockInv == \A w \in Threads :
    /\ "INTERRUPTING" \in t_state[w] <=> \E t \in Threads : Holds(t, w)
    /\ \A t, u \in Threads : Holds(t, w) /\ Holds(u, w) => t = u

\* Once TERMINATING is set, whoever holds the lock of the thread is about to let go of
\* it; and where a thread is tells what it has set.
Ending(t) == \/ pc(t) \in {"termed", "cleanup", "terminated", "unflag", "gone"}
             \/ pc(t) \in CheckPCs /\ frame[t].stack = <<"cleanup">>
             \/ pc(t) \in WakePCs /\ frame[t].stack \in {<<"gone">>, <<"pending", "cleanup">>}

TermInv ==
    /\ \A t \in Threads : "TERMINATING" \in t_state[me(t)] =>
                          pc(t) \notin HeldPCs \ {"refuse"}
    /\ \A t \in Threads : Ending(t) => "TERMINATING" \in t_state[t]
    /\ \A t \in Threads : "TERMINATED" \in t_state[t] =>
          \/ pc(t) \in {"unflag", "gone"}
          \/ pc(t) \in WakePCs /\ frame[t].stack = <<"gone">>

\* The interrupts numbered from a + 1 to b.
Numbers(a, b) == [i \in 1 .. b - a |-> a + i]

\* What is pending, and who may rely on it.
PendingInv ==
    /\ \A w \in Threads : /\ taken[w] <= sent[w]
                          /\ \/ t_interrupt[w] = Numbers(taken[w], sent[w])
                             \/ "TERMINATING" \in t_state[w] /\ t_interrupt[w] = <<>>
    /\ \A w \in Threads : pc(w) \in {"acquire", "pop"} => t_interrupt[w] # <<>>
    /\ \A w \in Threads : pc(w) = "terminated" \/ "TERMINATED" \in t_state[w] =>
                          t_interrupt[w] = <<>>

\* Nobody waits on a word that has what he waits for, and who waits for the end of a
\* thread waits on a word that says so.
WordInv == \A t \in Threads :
    /\ pc(t) \in {"tmark", "twait"} \/ Within(t, "swait") => "STARTED" \notin frame[t].state
    /\ pc(t) = "jmark" \/ Within(t, "jwait") => "TERMINATED" \notin frame[t].state
    /\ Within(t, "jwait") => "WAITING" \in frame[t].state

\* While somebody sleeps until the end of a thread, its word says so, or else everyone
\* is about to be woken.
MarkedInv == \A t \in sleepers : pc(t) = "jwait" =>
    \/ "WAITING" \in t_state[me(t)]
    \/ \E u \in Threads : pc(u) = "wakeall" /\ Waited(u) = me(t)

IInv == /\ TypeInv /\ StackInv /\ StartInv /\ LockInv /\ TermInv /\ PendingInv
        /\ Announced /\ WordInv /\ MarkedInv /\ NoLostWakeup

-----------------------------------------------------------------------------
(* Operators *)

USE DEF pc, me, Set, Clear, pending

\* A wait is left for the statement before it.
LEMMA BackValues ==
    /\ WaitPCs = {"swait", "twait", "jwait", "iwait"}
    /\ Back["swait"] = "start" /\ Back["twait"] = "starting"
    /\ Back["jwait"] = "join" /\ Back["iwait"] = "icheck"
BY DEF WaitPCs, Back

\* A mark is followed by its wait.
LEMMA MarkedValues ==
    /\ DOMAIN Marked = {"tmark", "jmark", "imark"}
    /\ Marked["tmark"] = "twait" /\ Marked["jmark"] = "jwait" /\ Marked["imark"] = "iwait"
BY DEF Marked

\* The labels are places in the code.
LEMMA Labels ==
    /\ "new" \in PCs /\ "entry" \in PCs /\ "entrywake" \in PCs /\ "run" \in PCs
    /\ "gone" \in PCs /\ "term" \in PCs /\ "cleanup" \in PCs /\ "terminated" \in PCs
    /\ "unflag" \in PCs /\ "start" \in PCs /\ "create" \in PCs /\ "starting" \in PCs
    /\ "tmark" \in PCs /\ "abort" \in PCs /\ "lock" \in PCs /\ "join" \in PCs
    /\ "jmark" \in PCs /\ "check" \in PCs /\ "bump" \in PCs /\ "clear" \in PCs
    /\ "pending" \in PCs /\ "acquire" \in PCs /\ "wakeload" \in PCs /\ "wakeclear" \in PCs
    /\ "wakeall" \in PCs /\ "swait" \in PCs /\ "twait" \in PCs /\ "jwait" \in PCs
    /\ "iwait" \in PCs /\ "locked" \in PCs /\ "append" \in PCs /\ "refuse" \in PCs
    /\ "yield" \in PCs /\ "noroom" \in PCs /\ "unlock" \in PCs /\ "version" \in PCs
    /\ "flag" \in PCs /\ "iread" \in PCs /\ "imark" \in PCs /\ "icheck" \in PCs
    /\ "pop" \in PCs /\ "popped" \in PCs /\ "terming" \in PCs /\ "termed" \in PCs
BY BackValues DEF PCs, HeldPCs, UnannouncedPCs, WatchPCs, OwnPCs

\* What is pushed on the stack comes off it again.
LEMMA StackValues ==
    /\ \A l \in PCs \cup {"main"} :
          /\ <<l>> \in Seq(PCs \cup {"main"})
          /\ Head(<<l>>) = l /\ Tail(<<l>>) = <<>>
          /\ <<l>> \o <<>> = <<l>>
    /\ \A l \in {"run", "main", "cleanup", "lock", "swait", "jwait"} :
          /\ <<"pending">> \o <<l>> = <<"pending", l>>
          /\ <<"pending", l>> \in Seq(PCs \cup {"main"})
          /\ Head(<<"pending", l>>) = "pending" /\ Tail(<<"pending", l>>) = <<l>>
    /\ <<"check", "cleanup">> \in Seq(PCs \cup {"main"})
    /\ Head(<<"check", "cleanup">>) = "check" /\ Tail(<<"check", "cleanup">>) = <<"cleanup">>
<1>1. ASSUME NEW l \in PCs \cup {"main"}
      PROVE  /\ <<l>> \in Seq(PCs \cup {"main"})
             /\ Head(<<l>>) = l /\ Tail(<<l>>) = <<>>
             /\ <<l>> \o <<>> = <<l>>
  OBVIOUS
<1>2. ASSUME NEW l \in {"run", "main", "cleanup", "lock", "swait", "jwait"}
      PROVE  /\ <<"pending">> \o <<l>> = <<"pending", l>>
             /\ <<"pending", l>> \in Seq(PCs \cup {"main"})
             /\ Head(<<"pending", l>>) = "pending" /\ Tail(<<"pending", l>>) = <<l>>
  <2>1. "pending" \in PCs \cup {"main"} /\ l \in PCs \cup {"main"}
    BY Labels
  <2>2. <<"pending", l>> \in Seq(PCs \cup {"main"})
    BY <2>1
  <2>3. <<"pending">> \o <<l>> = <<"pending", l>>
    <3> DEFINE S == PCs \cup {"main"}
    <3>1. /\ <<"pending">> \in Seq(S) /\ <<l>> \in Seq(S) /\ <<"pending", l>> \in Seq(S)
          /\ Len(<<"pending">>) = 1 /\ Len(<<l>>) = 1 /\ Len(<<"pending", l>>) = 2
      BY <2>1
    <3>2. /\ <<"pending">> \o <<l>> \in Seq(S)
          /\ Len(<<"pending">> \o <<l>>) = 2
          /\ (<<"pending">> \o <<l>>)[1] = "pending"
          /\ (<<"pending">> \o <<l>>)[2] = l
      BY <3>1, ConcatProperties
    <3>3. \A i \in 1 .. 2 : (<<"pending">> \o <<l>>)[i] = <<"pending", l>>[i]
      <4> SUFFICES ASSUME NEW i \in 1 .. 2
                   PROVE  (<<"pending">> \o <<l>>)[i] = <<"pending", l>>[i]
        OBVIOUS
      <4>1. i = 1 \/ i = 2
        OBVIOUS
      <4> QED BY <3>2, <4>1
    <3> HIDE DEF S
    <3> QED BY <3>1, <3>2, <3>3, SeqEqual
  <2>4. Head(<<"pending", l>>) = "pending"
    BY <2>2
  <2>5. Tail(<<"pending", l>>) = <<l>>
    BY <2>1
  <2> QED BY <2>2, <2>3, <2>4, <2>5
<1> QED
  BY <1>1, <1>2, Labels

-----------------------------------------------------------------------------
(* What a step does to the threads *)

\* A step of a thread, given as the disjuncts of Next.
Act(t) == \/ Step(t) \/ TimedOut(t) \/ Acquire(t) \/ UserCheck(t) \/ Finish(t)
          \/ \E w \in Threads : Invoke(t, w)

\* What may happen to another thread: it is got up from its sleep, or created.
Passive(t, u) ==
    /\ frame'[u].stack = frame[u].stack
    /\ frame'[u].me = me(u)
    /\ \/ /\ frame'[u].pc = pc(u)
          /\ frame'[u].state = frame[u].state
          /\ u \in sleepers' <=> u \in sleepers
       \/ /\ u \in sleepers /\ u \notin sleepers'
          /\ frame'[u].pc = Back[pc(u)]
       \/ /\ pc(t) = "create" /\ frame'[t].pc = "starting" /\ u = me(t)
          /\ pc(u) = "new" /\ frame'[u].pc = "entry"
          /\ u \notin sleepers /\ u \notin sleepers'

\* Those who are woken get up, all others stay as they are.
LEMMA WakeAllPassive ==
    ASSUME TypeInv, NEW t \in Threads, NEW w, NEW f, WakeAllThen(t, w, f)
    PROVE  /\ frame'[t] = f /\ DOMAIN frame' = Threads
           /\ \A u \in Threads \ {t} : Passive(t, u)
           /\ \A u \in sleepers' : u \in sleepers /\ me(u) # w
<1>1. frame'[t] = f /\ DOMAIN frame' = Threads
  BY DEF WakeAllThen
<1>2. ASSUME NEW u \in Threads \ {t} PROVE Passive(t, u)
  <2>1. CASE u \in sleepers /\ me(u) = w
    <3>1. frame'[u] = Up(frame[u]) /\ u \notin sleepers'
      BY <1>2, <2>1 DEF WakeAllThen
    <3>2. frame[u] \in Frames
      BY DEF TypeInv
    <3> QED BY <2>1, <3>1, <3>2 DEF Up, Frames, Passive
  <2>2. CASE ~(u \in sleepers /\ me(u) = w)
    BY <1>2, <2>2 DEF WakeAllThen, Passive
  <2> QED BY <2>1, <2>2
<1>3. \A u \in sleepers' : u \in sleepers /\ me(u) # w
  BY DEF WakeAllThen
<1> QED BY <1>1, <1>2, <1>3

\* A thread moves on its own, but for those it wakes and the one it creates.
LEMMA Bystanders ==
    ASSUME TypeInv, StartInv, NEW t \in Threads, Act(t)
    PROVE  \A u \in Threads \ {t} : Passive(t, u)
<1>1. CASE FutexWait(t)
  BY <1>1 DEF FutexWait, Up, TypeInv, Frames, Passive
<1>2. CASE FutexInterrupted(t)
  BY <1>2, WakeAllPassive DEF FutexInterrupted
<1>3. CASE WakeLoad(t)
  BY <1>3 DEF WakeLoad, Return, Returned, At, TypeInv, Frames, Passive, Goto
<1>4. CASE WakeClear(t)
  BY <1>4 DEF WakeClear, TypeInv, Frames, Passive, Goto
<1>5. CASE WakeSleepers(t)
  BY <1>5, WakeAllPassive DEF WakeSleepers
<1>6. CASE Mark(t)
  BY <1>6 DEF Mark, MarkExpecting, TypeInv, Frames, Passive
<1>7. CASE Start(t)
  BY <1>7 DEF Start, Leave, At, TypeInv, Frames, Passive, Goto
<1>8. CASE Create(t)
  <2>1. /\ me(t) \in Threads /\ pc(me(t)) = "new" /\ pc(t) = "create"
        /\ me(t) \notin sleepers
    BY <1>8, BackValues DEF Create, TypeInv, Frames, StartInv, Starter
  <2> SUFFICES ASSUME NEW u \in Threads \ {t} PROVE Passive(t, u)
    OBVIOUS
  <2>2. frame[u] \in Frames /\ frame[t] \in Frames
    BY DEF TypeInv
  <2>3. /\ sleepers' = sleepers
        /\ \/ frame'[u] = frame[u]
           \/ /\ u = me(t) /\ frame'[u] = [frame[u] EXCEPT !.pc = "entry"]
              /\ frame'[t] = [frame[t] EXCEPT !.pc = "starting"]
    BY <1>8, <2>1 DEF Create, Goto, TypeInv
  <2> QED
    BY <2>1, <2>2, <2>3 DEF Frames, Passive
<1>9. CASE Starting(t)
  BY <1>9 DEF Starting, Look, Leave, At, TypeInv, Frames, Passive
<1>10. CASE Abort(t)
  BY <1>10 DEF Abort, Call, TypeInv, Frames, Passive
<1>11. CASE Check(t)
  BY <1>11 DEF Check, Return, Returned, At, TypeInv, Frames, Passive
<1>12. CASE Bump(t)
  <2> SUFFICES ASSUME NEW u \in Threads \ {t} PROVE Passive(t, u)
    OBVIOUS
  <2>1. frame[u] \in Frames
    BY DEF TypeInv
  <2>2. /\ frame'[u] = [frame[u] EXCEPT !.moved = @ \/ (me(u) = t /\ pc(u) \in WatchPCs)]
        /\ sleepers' = sleepers
    BY <1>12 DEF Bump
  <2> QED BY <2>1, <2>2 DEF Frames, Passive
<1>13. CASE ClearFlag(t)
  BY <1>13 DEF ClearFlag, TypeInv, Frames, Passive
<1>14. CASE Pending(t)
  BY <1>14 DEF Pending, TypeInv, Frames, Passive, Goto
<1>15. CASE Pop(t)
  BY <1>15 DEF Pop, PopAnnouncing, TypeInv, Frames, Passive, Goto
<1>16. CASE ReleaseOwn(t)
  BY <1>16 DEF ReleaseOwn, Return, Returned, Leave, At, TypeInv, Frames, Passive, Goto
<1>17. CASE Lock(t)
  BY <1>17 DEF Lock, LockIf, Leave, At, TypeInv, Frames, Passive, Goto
<1>18. CASE Locked(t)
  BY <1>18 DEF Locked, TypeInv, Frames, Passive, Goto
<1>19. CASE Schedule(t)
  BY <1>19 DEF Schedule, ScheduleAs, TypeInv, Frames, Passive, Goto
<1>20. CASE Release(t)
  BY <1>20 DEF Release, Leave, Call, At, TypeInv, Frames, Passive
<1>21. CASE Version(t)
  BY <1>21 DEF Version, TypeInv, Frames, Passive, Goto
<1>22. CASE Flag(t)
  BY <1>22 DEF Flag, Leave, At, TypeInv, Frames, Passive, Goto
<1>23. CASE ReadFlag(t)
  BY <1>23 DEF ReadFlag, Look, Leave, At, TypeInv, Frames, Passive
<1>24. CASE CheckVersion(t)
  BY <1>24 DEF CheckVersion, Leave, At, TypeInv, Frames, Passive, Goto
<1>25. CASE Join(t)
  BY <1>25 DEF Join, Look, Leave, At, TypeInv, Frames, Passive
<1>26. CASE Entry(t)
  BY <1>26 DEF Entry, TypeInv, Frames, Passive, Goto
<1>27. CASE EntryWake(t)
  BY <1>27, WakeAllPassive DEF EntryWake
<1>28. CASE Terming(t)
  BY <1>28 DEF Terming, TypeInv, Frames, Passive, Goto
<1>29. CASE Cleanup(t)
  BY <1>29 DEF Cleanup, TypeInv, Frames, Passive, Goto
<1>30. CASE Terminate(t)
  BY <1>30 DEF Terminate, TypeInv, Frames, Passive, Goto
<1>31. CASE Unflag(t)
  BY <1>31 DEF Unflag, Call, TypeInv, Frames, Passive
<1>32. CASE TimedOut(t)
  BY <1>32 DEF TimedOut, Leave, At, Up, TypeInv, Frames, Passive
<1>33. CASE Acquire(t)
  BY <1>33 DEF Acquire, AcquireIf, TypeInv, Frames, Passive, Goto
<1>34. CASE UserCheck(t)
  BY <1>34 DEF UserCheck, Call, TypeInv, Frames, Passive
<1>35. CASE Finish(t)
  BY <1>35 DEF Finish, TypeInv, Frames, Passive
<1>36. ASSUME NEW w \in Threads, Invoke(t, w) PROVE \A u \in Threads \ {t} : Passive(t, u)
  BY <1>36 DEF Invoke, TypeInv, Frames, Passive
<1> QED
  BY <1>1, <1>2, <1>3, <1>4, <1>5, <1>6, <1>7, <1>8, <1>9, <1>10, <1>11,
     <1>12, <1>13, <1>14, <1>15, <1>16, <1>17, <1>18, <1>19, <1>20, <1>21,
     <1>22, <1>23, <1>24, <1>25, <1>26, <1>27, <1>28, <1>29, <1>30, <1>31,
     <1>32, <1>33, <1>34, <1>35, <1>36 DEF Act, Step

\* Where a call within a call returns to, according to what has called it.
LEMMA CheckReturn ==
    ASSUME NEW f \in Frames, f.stack \in CheckStacks, NEW t \in Threads
    PROVE  \/ f.stack \in {<<"run">>, <<"main">>} /\ Returned(f, t) = At(t, "run")
           \/ \E l \in {"cleanup", "lock", "swait", "jwait"} :
                f.stack = <<l>> /\ Returned(f, t) = [f EXCEPT !.pc = l, !.stack = <<>>]
<1>1. CASE f.stack \in {<<"run">>, <<"main">>}
  BY <1>1, StackValues, Labels DEF Returned
<1>2. ASSUME NEW l \in {"cleanup", "lock", "swait", "jwait"}, f.stack = <<l>>
      PROVE  Returned(f, t) = [f EXCEPT !.pc = l, !.stack = <<>>]
  <2>1. Head(f.stack) = l /\ Tail(f.stack) = <<>>
    BY <1>2, StackValues, Labels
  <2> QED BY <1>2, <2>1 DEF Returned
<1> QED BY <1>1, <1>2 DEF CheckStacks

\* Where _DeeThread_WakeWaiting returns to.
LEMMA WakeReturn ==
    ASSUME NEW f \in Frames, f.stack \in WakeStacks, NEW t \in Threads
    PROVE  \/ f.stack = <<"run">> /\ Returned(f, t) = At(t, "run")
           \/ f.stack = <<"gone">> /\ Returned(f, t) = [f EXCEPT !.pc = "gone", !.stack = <<>>]
           \/ \E l \in {"run", "main", "cleanup", "lock", "swait", "jwait"} :
                /\ f.stack = <<"pending", l>>
                /\ Returned(f, t) = [f EXCEPT !.pc = "pending", !.stack = <<l>>]
<1>1. CASE f.stack = <<"run">>
  BY <1>1, StackValues, Labels DEF Returned
<1>2. CASE f.stack = <<"gone">>
  <2>1. Head(f.stack) = "gone" /\ Tail(f.stack) = <<>>
    BY <1>2, StackValues, Labels
  <2> QED BY <1>2, <2>1 DEF Returned
<1>3. ASSUME NEW l \in {"run", "main", "cleanup", "lock", "swait", "jwait"},
             f.stack = <<"pending", l>>
      PROVE  Returned(f, t) = [f EXCEPT !.pc = "pending", !.stack = <<l>>]
  <2>1. Head(f.stack) = "pending" /\ Tail(f.stack) = <<l>>
    BY <1>3, StackValues
  <2> QED BY <2>1 DEF Returned
<1> QED BY <1>1, <1>2, <1>3 DEF WakeStacks, PendingStacks

\* Where the way to TERMINATING leads.
LEMMA TermReturn ==
    ASSUME NEW f \in Frames, f.stack \in TermStacks, NEW t \in Threads
    PROVE  \/ f.stack = <<"cleanup">>
              /\ Returned(f, t) = [f EXCEPT !.pc = "cleanup", !.stack = <<>>]
           \/ f.stack = <<"check", "cleanup">>
              /\ Returned(f, t) = [f EXCEPT !.pc = "check", !.stack = <<"cleanup">>]
<1>1. CASE f.stack = <<"cleanup">>
  <2>1. Head(f.stack) = "cleanup" /\ Tail(f.stack) = <<>>
    BY <1>1, StackValues, Labels
  <2> QED BY <1>1, <2>1 DEF Returned
<1>2. CASE f.stack = <<"check", "cleanup">>
  <2>1. Head(f.stack) = "check" /\ Tail(f.stack) = <<"cleanup">>
    BY <1>2, StackValues
  <2> QED BY <1>2, <2>1 DEF Returned
<1> QED BY <1>1, <1>2 DEF TermStacks

\* A fresh frame is well-formed.
LEMMA AtFrame == \A t \in Threads : /\ At(t, "run") \in Frames /\ At(t, "term") \in Frames
                                    /\ At(t, "check") \in Frames /\ At(t, "new") \in Frames
BY Labels DEF At, Frames

\* A fresh frame with something on its stack is well-formed.
LEMMA PushedFrame ==
    ASSUME NEW t \in Threads
    PROVE  /\ [At(t, "check") EXCEPT !.stack = <<"main">>] \in Frames
           /\ [At(t, "term") EXCEPT !.stack = <<"cleanup">>] \in Frames
<1>1. ASSUME NEW f \in Frames, NEW k \in Seq(PCs \cup {"main"})
      PROVE  [f EXCEPT !.stack = k] \in Frames
  BY DEF Frames
<1>2. /\ <<"main">> \in Seq(PCs \cup {"main"})
      /\ <<"cleanup">> \in Seq(PCs \cup {"main"})
  BY Labels
<1> QED BY <1>1, <1>2, AtFrame

\* So are the frames that the steps make of a frame.
LEMMA UpdatedFrame ==
    ASSUME NEW f \in Frames, NEW l \in PCs
    PROVE  /\ [f EXCEPT !.pc = l] \in Frames
           /\ [f EXCEPT !.pc = l, !.desc = TRUE] \in Frames
           /\ [f EXCEPT !.pc = l, !.desc = FALSE] \in Frames
           /\ \A w \in Threads : [f EXCEPT !.pc = l, !.me = w] \in Frames
           /\ \A word \in SUBSET Flags :
                 /\ [f EXCEPT !.pc = l, !.state = word] \in Frames
                 /\ [f EXCEPT !.state = word, !.pc = l] \in Frames
                 /\ [f EXCEPT !.pc = l, !.seen = word] \in Frames
           /\ \A k \in Seq(PCs \cup {"main"}) :
                 /\ [f EXCEPT !.pc = l, !.stack = k] \in Frames
                 /\ [f EXCEPT !.pc = l, !.seen = {}, !.stack = k] \in Frames
<1>1. [f EXCEPT !.pc = l] \in Frames
  BY DEF Frames
<1>2. ASSUME NEW w \in Threads PROVE [f EXCEPT !.pc = l, !.me = w] \in Frames
  BY DEF Frames
<1>3. ASSUME NEW word \in SUBSET Flags
      PROVE  /\ [f EXCEPT !.pc = l, !.state = word] \in Frames
             /\ [f EXCEPT !.state = word, !.pc = l] \in Frames
             /\ [f EXCEPT !.pc = l, !.seen = word] \in Frames
  <2>1. [f EXCEPT !.pc = l, !.state = word] \in Frames
    BY DEF Frames
  <2>2. [f EXCEPT !.state = word, !.pc = l] \in Frames
    BY DEF Frames
  <2>3. [f EXCEPT !.pc = l, !.seen = word] \in Frames
    BY DEF Frames
  <2> QED BY <2>1, <2>2, <2>3
<1>4. ASSUME NEW k \in Seq(PCs \cup {"main"})
      PROVE  /\ [f EXCEPT !.pc = l, !.stack = k] \in Frames
             /\ [f EXCEPT !.pc = l, !.seen = {}, !.stack = k] \in Frames
  <2>1. [f EXCEPT !.pc = l, !.stack = k] \in Frames
    BY DEF Frames
  <2>2. [f EXCEPT !.pc = l, !.seen = {}, !.stack = k] \in Frames
    BY DEF Frames
  <2> QED BY <2>1, <2>2
<1>5. [f EXCEPT !.pc = l, !.desc = TRUE] \in Frames
  BY DEF Frames
<1>6. [f EXCEPT !.pc = l, !.desc = FALSE] \in Frames
  BY DEF Frames
<1> QED BY <1>1, <1>2, <1>3, <1>4, <1>5, <1>6

\* So is the frame of a thread that returns.
LEMMA ReturnFrame ==
    ASSUME NEW f \in Frames, NEW t \in Threads,
           f.stack \in CheckStacks \cup WakeStacks \cup TermStacks
    PROVE  Returned(f, t) \in Frames
<1>1. CASE f.stack \in CheckStacks
  <2>1. CASE Returned(f, t) = At(t, "run")
    BY <2>1, AtFrame
  <2>2. ASSUME NEW l \in {"cleanup", "lock", "swait", "jwait"},
               Returned(f, t) = [f EXCEPT !.pc = l, !.stack = <<>>]
        PROVE  Returned(f, t) \in Frames
    <3>1. l \in PCs /\ <<>> \in Seq(PCs \cup {"main"})
      BY Labels
    <3>2. [f EXCEPT !.pc = l, !.stack = <<>>] \in Frames
      BY <3>1, UpdatedFrame
    <3> QED BY <2>2, <3>2
  <2> QED BY <1>1, <2>1, <2>2, CheckReturn
<1>2. CASE f.stack \in WakeStacks
  <2>1. CASE Returned(f, t) = At(t, "run")
    BY <2>1, AtFrame
  <2>2. CASE Returned(f, t) = [f EXCEPT !.pc = "gone", !.stack = <<>>]
    <3>1. "gone" \in PCs /\ <<>> \in Seq(PCs \cup {"main"})
      BY Labels
    <3>2. [f EXCEPT !.pc = "gone", !.stack = <<>>] \in Frames
      BY <3>1, UpdatedFrame
    <3> QED BY <2>2, <3>2
  <2>3. ASSUME NEW l \in {"run", "main", "cleanup", "lock", "swait", "jwait"},
               Returned(f, t) = [f EXCEPT !.pc = "pending", !.stack = <<l>>]
        PROVE  Returned(f, t) \in Frames
    <3>1. "pending" \in PCs /\ <<l>> \in Seq(PCs \cup {"main"})
      BY Labels
    <3>2. [f EXCEPT !.pc = "pending", !.stack = <<l>>] \in Frames
      BY <3>1, UpdatedFrame
    <3> QED BY <2>3, <3>2
  <2> QED BY <1>2, <2>1, <2>2, <2>3, WakeReturn
<1>3. CASE f.stack \in TermStacks
  <2>1. "cleanup" \in PCs /\ <<>> \in Seq(PCs \cup {"main"})
    BY Labels
  <2>2. "check" \in PCs /\ <<"cleanup">> \in Seq(PCs \cup {"main"})
    BY Labels
  <2>3. [f EXCEPT !.pc = "cleanup", !.stack = <<>>] \in Frames
    BY <2>1, UpdatedFrame
  <2>4. [f EXCEPT !.pc = "check", !.stack = <<"cleanup">>] \in Frames
    BY <2>2, UpdatedFrame
  <2> QED BY <1>3, <2>3, <2>4, TermReturn
<1> QED BY <1>1, <1>2, <1>3


\* Where the thread that moves is afterwards.
Own(t, l, w, word, k) ==
    /\ frame'[t] \in Frames
    /\ frame'[t].pc = l /\ frame'[t].me = w /\ frame'[t].state = word /\ frame'[t].stack = k

\* A step whose new frame is known.
LEMMA OwnIs ==
    ASSUME NEW t \in Threads, NEW f \in Frames, frame'[t] = f
    PROVE  Own(t, f.pc, f.me, f.state, f.stack)
BY DEF Own

\* A step to another place keeps the rest of the frame.
LEMMA GotoOwn ==
    ASSUME TypeInv, NEW t \in Threads, NEW l \in PCs, Goto(t, l)
    PROVE  Own(t, l, me(t), frame[t].state, frame[t].stack)
<1>1. frame \in [Threads -> Frames] /\ frame[t] \in Frames
  BY DEF TypeInv
<1>2. frame'[t] = [frame[t] EXCEPT !.pc = l]
  BY <1>1 DEF Goto
<1>3. [frame[t] EXCEPT !.pc = l] \in Frames
  BY <1>1, UpdatedFrame
<1> QED BY <1>1, <1>2, <1>3 DEF Frames, Own

\* A call of the thread's own code ends: the frame is fresh.
LEMMA LeaveOwn ==
    ASSUME TypeInv, NEW t \in Threads, Leave(t)
    PROVE  Own(t, "run", t, {}, <<>>)
<1>1. frame'[t] = At(t, "run")
  BY DEF Leave, TypeInv
<1>2. At(t, "run") \in Frames
  BY AtFrame
<1> QED BY <1>1, <1>2 DEF At, Own

\* A call pushes the place to return to.
LEMMA CallOwn ==
    ASSUME TypeInv, NEW t \in Threads, NEW l \in PCs, NEW b \in PCs, Call(t, l, b),
           frame[t].stack = <<>>
    PROVE  Own(t, l, me(t), frame[t].state, <<b>>)
<1>1. frame \in [Threads -> Frames] /\ frame[t] \in Frames
  BY DEF TypeInv
<1>2. <<b>> \in Seq(PCs \cup {"main"}) /\ <<b>> \o <<>> = <<b>>
  BY StackValues
<1>3. frame'[t] = [frame[t] EXCEPT !.pc = l, !.stack = <<b>>]
  BY <1>1, <1>2 DEF Call
<1>4. [frame[t] EXCEPT !.pc = l, !.stack = <<b>>] \in Frames
  BY <1>1, <1>2, UpdatedFrame
<1> QED BY <1>1, <1>3, <1>4 DEF Frames, Own

\* A look at the word takes it along, to the wait or to the mark before it.
LEMMA LookOwn ==
    ASSUME TypeInv, NEW t \in Threads, NEW mark \in PCs, NEW wait \in PCs,
           Look(t, mark, wait)
    PROVE  Own(t, IF "WAITING" \in t_state[me(t)] THEN wait ELSE mark,
               me(t), t_state[me(t)], frame[t].stack)
<1> DEFINE word == t_state[me(t)]
           l == IF "WAITING" \in word THEN wait ELSE mark
<1>1. frame \in [Threads -> Frames] /\ frame[t] \in Frames
  BY DEF TypeInv
<1>2. me(t) \in Threads /\ word \in SUBSET Flags /\ l \in PCs
  BY <1>1 DEF Frames, TypeInv
<1>3. frame'[t] = [frame[t] EXCEPT !.state = word, !.pc = l]
  BY <1>1 DEF Look
<1> HIDE DEF word, l
<1>4. [frame[t] EXCEPT !.state = word, !.pc = l] \in Frames
  BY <1>1, <1>2, UpdatedFrame
<1>5. Own(t, l, me(t), word, frame[t].stack)
  BY <1>1, <1>3, <1>4 DEF Frames, Own
<1> QED BY <1>5 DEF word, l

\* The moves that occur again and again: to another place, out of the call, and out of
\* a call within a call.
To(t, l) == Own(t, l, me(t), frame[t].state, frame[t].stack)
Home(t) == Own(t, "run", t, {}, <<>>)
Back1(t, l, k) == Own(t, l, me(t), frame[t].state, k)

CheckReturned(t) ==
    \/ frame[t].stack \in {<<"run">>, <<"main">>} /\ Home(t)
    \/ \E l \in {"cleanup", "lock", "swait", "jwait"} :
          frame[t].stack = <<l>> /\ Back1(t, l, <<>>)

WakeReturned(t) ==
    \/ frame[t].stack = <<"run">> /\ Home(t)
    \/ frame[t].stack = <<"gone">> /\ Back1(t, "gone", <<>>)
    \/ \E l \in {"run", "main", "cleanup", "lock", "swait", "jwait"} :
          frame[t].stack = <<"pending", l>> /\ Back1(t, "pending", <<l>>)

TermReturned(t) ==
    \/ frame[t].stack = <<"cleanup">> /\ Back1(t, "cleanup", <<>>)
    \/ frame[t].stack = <<"check", "cleanup">> /\ Back1(t, "check", <<"cleanup">>)

\* A thread returns to where it was called from.
LEMMA ReturnedOwn ==
    ASSUME TypeInv, NEW t \in Threads, frame'[t] = Returned(frame[t], t)
    PROVE  /\ frame[t].stack \in CheckStacks => CheckReturned(t)
           /\ frame[t].stack \in WakeStacks => WakeReturned(t)
           /\ frame[t].stack \in TermStacks => TermReturned(t)
<1>1. frame[t] \in Frames
  BY DEF TypeInv
<1>2. ASSUME frame'[t] = At(t, "run") PROVE Home(t)
  <2>1. frame'[t] \in Frames
    BY <1>2, AtFrame
  <2> QED BY <1>2, <2>1 DEF Home, Own, At
<1>3. ASSUME NEW l, NEW k, frame'[t] = [frame[t] EXCEPT !.pc = l, !.stack = k],
             frame'[t] \in Frames
      PROVE  Back1(t, l, k)
  BY <1>1, <1>3 DEF Back1, Own, Frames
<1>4. ASSUME frame[t].stack \in CheckStacks PROVE CheckReturned(t)
  <2>1. frame'[t] \in Frames
    BY <1>1, <1>4, ReturnFrame
  <2> QED BY <1>1, <1>2, <1>3, <1>4, <2>1, CheckReturn DEF CheckReturned
<1>5. ASSUME frame[t].stack \in WakeStacks PROVE WakeReturned(t)
  <2>1. frame'[t] \in Frames
    BY <1>1, <1>5, ReturnFrame
  <2>2. CASE frame[t].stack = <<"run">> /\ Returned(frame[t], t) = At(t, "run")
    BY <1>2, <2>2 DEF WakeReturned
  <2>3. CASE /\ frame[t].stack = <<"gone">>
             /\ Returned(frame[t], t) = [frame[t] EXCEPT !.pc = "gone", !.stack = <<>>]
    BY <1>3, <2>1, <2>3 DEF WakeReturned
  <2>4. ASSUME NEW l \in {"run", "main", "cleanup", "lock", "swait", "jwait"},
               frame[t].stack = <<"pending", l>>,
               Returned(frame[t], t) = [frame[t] EXCEPT !.pc = "pending", !.stack = <<l>>]
        PROVE  WakeReturned(t)
    <3>1. Back1(t, "pending", <<l>>)
      BY <1>3, <2>1, <2>4
    <3> QED BY <2>4, <3>1 DEF WakeReturned
  <2> QED BY <1>1, <1>5, <2>2, <2>3, <2>4, WakeReturn
<1>6. ASSUME frame[t].stack \in TermStacks PROVE TermReturned(t)
  <2>1. frame'[t] \in Frames
    BY <1>1, <1>6, ReturnFrame
  <2> QED BY <1>1, <1>3, <1>6, <2>1, TermReturn DEF TermReturned
<1> QED BY <1>4, <1>5, <1>6

-----------------------------------------------------------------------------
(* The steps one by one: where each takes the thread that takes it, in terms of the
   parts of its frame, and what else it changes *)

\* A futex wait: the thread sleeps, or comes back at once.
LEMMA MoveFutexWait ==
    ASSUME TypeInv, StackInv, StartInv, NEW t \in Threads, FutexWait(t)
    PROVE  /\ pc(t) \in WaitPCs /\ t \notin sleepers
           /\ \/ frame' = frame /\ sleepers' = sleepers \cup {t} /\ t_state[me(t)] = frame[t].state
              \/ Own(t, Back[pc(t)], me(t), {}, <<>>) /\ sleepers' = sleepers
           /\ UNCHANGED <<t_state, pending>>
<1>0. /\ frame \in [Threads -> Frames] /\ frame[t] \in Frames
      /\ t_state \in [Threads -> SUBSET Flags]
  BY DEF TypeInv
<1>1. \/ frame' = frame /\ sleepers' = sleepers \cup {t} /\ t_state[me(t)] = frame[t].state
      \/ Own(t, Back[pc(t)], me(t), {}, <<>>) /\ sleepers' = sleepers
  <2>1. CASE t_state[me(t)] = frame[t].state
    BY <2>1 DEF FutexWait
  <2>2. CASE t_state[me(t)] # frame[t].state
    <3>1. frame'[t] = [frame[t] EXCEPT !.pc = Back[pc(t)], !.state = {}]
      BY <1>0, <2>2 DEF FutexWait, Up
    <3>2. Back[pc(t)] \in PCs /\ frame[t].stack = <<>>
      BY BackValues, Labels DEF FutexWait, StackInv, CheckPCs, WakePCs, TermPCs
    <3>3. [frame[t] EXCEPT !.pc = Back[pc(t)], !.state = {}] \in Frames
      BY <1>0, <3>2, UpdatedFrame
    <3>4. Own(t, Back[pc(t)], me(t), {}, <<>>)
      BY <1>0, <3>1, <3>2, <3>3 DEF Own, Frames
    <3> QED BY <2>2, <3>4 DEF FutexWait
  <2> QED BY <2>1, <2>2
<1>2. /\ pc(t) \in WaitPCs /\ t \notin sleepers
      /\ UNCHANGED <<t_state, pending>>
  BY DEF FutexWait
<1> QED BY <1>1, <1>2

\* An interruptible wait goes on to handle interrupts, and wakes all others first.
LEMMA MoveFutexInterrupted ==
    ASSUME TypeInv, StackInv, StartInv, NEW t \in Threads, FutexInterrupted(t)
    PROVE  /\ pc(t) \in {"swait", "jwait"}
           /\ Back1(t, "check", <<pc(t)>>)
           /\ \A u \in sleepers' : u \in sleepers /\ me(u) # me(t)
           /\ UNCHANGED <<t_state, pending>>
<1>0. /\ frame \in [Threads -> Frames] /\ frame[t] \in Frames
      /\ t_state \in [Threads -> SUBSET Flags]
  BY DEF TypeInv
<1>1. Back1(t, "check", <<pc(t)>>)
  <2>1. frame'[t] = [frame[t] EXCEPT !.pc = "check", !.stack = <<pc(t)>> \o @]
    BY WakeAllPassive DEF FutexInterrupted
  <2>2. pc(t) \in {"swait", "jwait"} /\ frame[t].stack = <<>>
    BY DEF FutexInterrupted, IntPCs, StackInv, CheckPCs, WakePCs, TermPCs
  <2>3. <<pc(t)>> \o <<>> = <<pc(t)>> /\ <<pc(t)>> \in Seq(PCs \cup {"main"})
    BY <2>2, Labels, StackValues
  <2>4. frame'[t] = [frame[t] EXCEPT !.pc = "check", !.stack = <<pc(t)>>]
    BY <2>1, <2>2, <2>3
  <2>5. [frame[t] EXCEPT !.pc = "check", !.stack = <<pc(t)>>] \in Frames
    BY <1>0, <2>3, Labels, UpdatedFrame
  <2> QED BY <1>0, <2>4, <2>5 DEF Own, Back1, Frames
<1>2. /\ pc(t) \in {"swait", "jwait"}
      /\ \A u \in sleepers' : u \in sleepers /\ me(u) # me(t)
      /\ UNCHANGED <<t_state, pending>>
  BY WakeAllPassive DEF FutexInterrupted, IntPCs
<1> QED BY <1>1, <1>2

\* The look at WAITING, and the return if it is not set.
LEMMA MoveWakeLoad ==
    ASSUME TypeInv, StackInv, StartInv, NEW t \in Threads, WakeLoad(t)
    PROVE  /\ pc(t) = "wakeload"
           /\ IF "WAITING" \in t_state[Waited(t)] THEN To(t, "wakeclear") ELSE WakeReturned(t)
           /\ UNCHANGED <<t_state, sleepers, pending>>
<1>0. /\ frame \in [Threads -> Frames] /\ frame[t] \in Frames
      /\ t_state \in [Threads -> SUBSET Flags]
  BY DEF TypeInv
<1>1. IF "WAITING" \in t_state[Waited(t)] THEN To(t, "wakeclear") ELSE WakeReturned(t)
  <2>1. frame[t].stack \in WakeStacks
    BY DEF WakeLoad, StackInv, WakePCs
  <2>2. CASE "WAITING" \in t_state[Waited(t)]
    BY <2>2, GotoOwn, Labels DEF WakeLoad, To
  <2>3. CASE "WAITING" \notin t_state[Waited(t)]
    <3>1. frame'[t] = Returned(frame[t], t)
      BY <1>0, <2>3 DEF WakeLoad, Return
    <3> QED BY <2>1, <2>3, <3>1, ReturnedOwn
  <2> QED BY <2>2, <2>3
<1>2. /\ pc(t) = "wakeload"
      /\ UNCHANGED <<t_state, sleepers, pending>>
  BY DEF WakeLoad
<1> QED BY <1>1, <1>2

\* WAITING is cleared.
LEMMA MoveWakeClear ==
    ASSUME TypeInv, StackInv, StartInv, NEW t \in Threads, WakeClear(t)
    PROVE  /\ pc(t) = "wakeclear"
           /\ To(t, "wakeall")
           /\ t_state' = [t_state EXCEPT ![Waited(t)] = @ \ {"WAITING"}]
           /\ UNCHANGED <<sleepers, pending>>
<1>0. /\ frame \in [Threads -> Frames] /\ frame[t] \in Frames
      /\ t_state \in [Threads -> SUBSET Flags]
  BY DEF TypeInv
<1>1. To(t, "wakeall")
  BY <1>0, GotoOwn, LeaveOwn, Labels DEF WakeClear, To, Home
<1>2. /\ pc(t) = "wakeclear"
      /\ t_state' = [t_state EXCEPT ![Waited(t)] = @ \ {"WAITING"}]
      /\ UNCHANGED <<sleepers, pending>>
  BY DEF WakeClear
<1> QED BY <1>1, <1>2

\* Everyone asleep on the word is woken, and the call returns.
LEMMA MoveWakeSleepers ==
    ASSUME TypeInv, StackInv, StartInv, NEW t \in Threads, WakeSleepers(t)
    PROVE  /\ pc(t) = "wakeall"
           /\ WakeReturned(t)
           /\ \A u \in sleepers' : u \in sleepers /\ me(u) # Waited(t)
           /\ UNCHANGED <<t_state, pending>>
<1>0. /\ frame \in [Threads -> Frames] /\ frame[t] \in Frames
      /\ t_state \in [Threads -> SUBSET Flags]
  BY DEF TypeInv
<1>1. WakeReturned(t)
  <2>1. frame[t].stack \in WakeStacks
    BY DEF WakeSleepers, StackInv, WakePCs
  <2>2. frame'[t] = Returned(frame[t], t)
    BY WakeAllPassive DEF WakeSleepers
  <2> QED BY <2>1, <2>2, ReturnedOwn
<1>2. /\ pc(t) = "wakeall"
      /\ \A u \in sleepers' : u \in sleepers /\ me(u) # Waited(t)
      /\ UNCHANGED <<t_state, pending>>
  BY WakeAllPassive DEF WakeSleepers
<1> QED BY <1>1, <1>2

\* WAITING is set, and expected.
LEMMA MoveMark ==
    ASSUME TypeInv, StackInv, StartInv, NEW t \in Threads, Mark(t)
    PROVE  /\ pc(t) \in {"tmark", "jmark", "imark"}
           /\ Own(t, Marked[pc(t)], me(t), frame[t].state \cup {"WAITING"}, frame[t].stack)
           /\ t_state' = [t_state EXCEPT ![me(t)] = @ \cup {"WAITING"}]
           /\ UNCHANGED <<sleepers, pending>>
<1>0. /\ frame \in [Threads -> Frames] /\ frame[t] \in Frames
      /\ t_state \in [Threads -> SUBSET Flags]
  BY DEF TypeInv
<1>1. Own(t, Marked[pc(t)], me(t), frame[t].state \cup {"WAITING"}, frame[t].stack)
  <2>1. frame'[t] = [frame[t] EXCEPT !.pc = Marked[pc(t)], !.state = frame[t].state \cup {"WAITING"}]
    BY <1>0 DEF Mark, MarkExpecting
  <2>2. Marked[pc(t)] \in PCs /\ frame[t].state \cup {"WAITING"} \in SUBSET Flags
    BY <1>0, Labels, MarkedValues DEF Mark, MarkExpecting, Frames, Flags
  <2>3. [frame[t] EXCEPT !.pc = Marked[pc(t)], !.state = frame[t].state \cup {"WAITING"}] \in Frames
    BY <1>0, <2>2, UpdatedFrame
  <2> QED BY <1>0, <2>1, <2>3 DEF Own, To, Back1, Frames
<1>2. /\ pc(t) \in {"tmark", "jmark", "imark"}
      /\ t_state' = [t_state EXCEPT ![me(t)] = @ \cup {"WAITING"}]
      /\ UNCHANGED <<sleepers, pending>>
  BY MarkedValues DEF Mark, MarkExpecting
<1> QED BY <1>1, <1>2

\* STARTING is set, by the one starter, by a late one or by one that waits.
LEMMA MoveStart ==
    ASSUME TypeInv, StackInv, StartInv, NEW t \in Threads, Start(t)
    PROVE  /\ pc(t) = "start"
           /\ IF "STARTING" \notin t_state[me(t)] THEN To(t, "create")
              ELSE IF "STARTED" \in t_state[me(t)] THEN Home(t)
              ELSE Own(t, "swait", me(t), t_state[me(t)], frame[t].stack)
           /\ t_state' = [t_state EXCEPT ![me(t)] = @ \cup {"STARTING"}]
           /\ UNCHANGED <<sleepers, pending>>
<1>0. /\ frame \in [Threads -> Frames] /\ frame[t] \in Frames
      /\ t_state \in [Threads -> SUBSET Flags]
  BY DEF TypeInv
<1>1. IF "STARTING" \notin t_state[me(t)] THEN To(t, "create")
      ELSE IF "STARTED" \in t_state[me(t)] THEN Home(t)
      ELSE Own(t, "swait", me(t), t_state[me(t)], frame[t].stack)
  <2>1. CASE "STARTING" \notin t_state[me(t)]
    BY <2>1, GotoOwn, Labels DEF Start, To
  <2>2. CASE "STARTING" \in t_state[me(t)] /\ "STARTED" \in t_state[me(t)]
    BY <2>2, LeaveOwn DEF Start, Home
  <2>3. CASE "STARTING" \in t_state[me(t)] /\ "STARTED" \notin t_state[me(t)]
    <3>1. frame'[t] = [frame[t] EXCEPT !.pc = "swait", !.state = t_state[me(t)]]
      BY <1>0, <2>3 DEF Start
    <3>2. me(t) \in Threads /\ t_state[me(t)] \in SUBSET Flags
      BY <1>0 DEF Frames
    <3>3. [frame[t] EXCEPT !.pc = "swait", !.state = t_state[me(t)]] \in Frames
      BY <1>0, <3>2, Labels, UpdatedFrame
    <3> QED BY <1>0, <2>3, <3>1, <3>3 DEF Own, Frames
  <2> QED BY <2>1, <2>2, <2>3
<1>2. /\ pc(t) = "start"
      /\ t_state' = [t_state EXCEPT ![me(t)] = @ \cup {"STARTING"}]
      /\ UNCHANGED <<sleepers, pending>>
  BY DEF Start
<1> QED BY <1>1, <1>2

\* The thread is created or not.
LEMMA MoveCreate ==
    ASSUME TypeInv, StackInv, StartInv, NEW t \in Threads, Create(t)
    PROVE  /\ pc(t) = "create"
           /\ To(t, "starting") \/ To(t, "abort")
           /\ UNCHANGED <<t_state, sleepers, pending>>
<1>0. /\ frame \in [Threads -> Frames] /\ frame[t] \in Frames
      /\ t_state \in [Threads -> SUBSET Flags]
  BY DEF TypeInv
<1>1. To(t, "starting") \/ To(t, "abort")
  <2>1. t # me(t)
    BY DEF Create, StartInv, Starter, TypeInv, Frames
  <2>2. CASE Goto(t, "abort")
    BY <2>2, GotoOwn, Labels DEF To
  <2>3. CASE ~Goto(t, "abort")
    <3>1. frame'[t] = [frame[t] EXCEPT !.pc = "starting"]
      BY <1>0, <2>1, <2>3 DEF Create
    <3>2. [frame[t] EXCEPT !.pc = "starting"] \in Frames
      BY <1>0, Labels, UpdatedFrame
    <3> QED BY <1>0, <3>1, <3>2 DEF Own, To, Frames
  <2> QED BY <2>2, <2>3
<1>2. /\ pc(t) = "create"
      /\ UNCHANGED <<t_state, sleepers, pending>>
  BY DEF Create
<1> QED BY <1>1, <1>2

\* The starter has seen STARTED, or waits for it.
LEMMA MoveStarting ==
    ASSUME TypeInv, StackInv, StartInv, NEW t \in Threads, Starting(t)
    PROVE  /\ pc(t) = "starting"
           /\ IF "STARTED" \in t_state[me(t)] THEN Home(t)
              ELSE Own(t, IF "WAITING" \in t_state[me(t)] THEN "twait" ELSE "tmark",
                       me(t), t_state[me(t)], frame[t].stack)
           /\ UNCHANGED <<t_state, sleepers, pending>>
<1>0. /\ frame \in [Threads -> Frames] /\ frame[t] \in Frames
      /\ t_state \in [Threads -> SUBSET Flags]
  BY DEF TypeInv
<1>1. IF "STARTED" \in t_state[me(t)] THEN Home(t)
      ELSE Own(t, IF "WAITING" \in t_state[me(t)] THEN "twait" ELSE "tmark",
               me(t), t_state[me(t)], frame[t].stack)
  BY LeaveOwn, LookOwn, Labels DEF Starting, Home
<1>2. /\ pc(t) = "starting"
      /\ UNCHANGED <<t_state, sleepers, pending>>
  BY DEF Starting
<1> QED BY <1>1, <1>2

\* The starter takes STARTING back.
LEMMA MoveAbort ==
    ASSUME TypeInv, StackInv, StartInv, NEW t \in Threads, Abort(t)
    PROVE  /\ pc(t) = "abort"
           /\ Back1(t, "wakeload", <<"run">>)
           /\ t_state' = [t_state EXCEPT ![me(t)] = @ \ {"STARTING"}]
           /\ UNCHANGED <<sleepers, pending>>
<1>0. /\ frame \in [Threads -> Frames] /\ frame[t] \in Frames
      /\ t_state \in [Threads -> SUBSET Flags]
  BY DEF TypeInv
<1>1. Back1(t, "wakeload", <<"run">>)
  <2>1. frame[t].stack = <<>>
    BY DEF Abort, StackInv, CheckPCs, WakePCs, TermPCs
  <2> QED BY <2>1, CallOwn, Labels DEF Abort, Back1
<1>2. /\ pc(t) = "abort"
      /\ t_state' = [t_state EXCEPT ![me(t)] = @ \ {"STARTING"}]
      /\ UNCHANGED <<sleepers, pending>>
  BY DEF Abort
<1> QED BY <1>1, <1>2

\* The look at INTERRUPTED, and the return if it is not set.
LEMMA MoveCheck ==
    ASSUME TypeInv, StackInv, StartInv, NEW t \in Threads, Check(t)
    PROVE  /\ pc(t) = "check"
           /\ IF "INTERRUPTED" \in t_state[t] THEN To(t, "bump") ELSE CheckReturned(t)
           /\ UNCHANGED <<t_state, sleepers, pending>>
<1>0. /\ frame \in [Threads -> Frames] /\ frame[t] \in Frames
      /\ t_state \in [Threads -> SUBSET Flags]
  BY DEF TypeInv
<1>1. IF "INTERRUPTED" \in t_state[t] THEN To(t, "bump") ELSE CheckReturned(t)
  <2>1. frame[t].stack \in CheckStacks
    BY DEF Check, StackInv, CheckPCs
  <2>2. CASE "INTERRUPTED" \in t_state[t]
    <3>1. frame'[t] = [frame[t] EXCEPT !.pc = "bump", !.seen = t_state[t]]
      BY <1>0, <2>2 DEF Check
    <3>2. [frame[t] EXCEPT !.pc = "bump", !.seen = t_state[t]] \in Frames
      BY <1>0, Labels, UpdatedFrame
    <3> QED BY <1>0, <2>2, <3>1, <3>2 DEF Own, To, Frames
  <2>3. CASE "INTERRUPTED" \notin t_state[t]
    <3>1. frame'[t] = Returned(frame[t], t)
      BY <1>0, <2>3 DEF Check, Return
    <3> QED BY <2>1, <2>3, <3>1, ReturnedOwn
  <2> QED BY <2>2, <2>3
<1>2. /\ pc(t) = "check"
      /\ UNCHANGED <<t_state, sleepers, pending>>
  BY DEF Check
<1> QED BY <1>1, <1>2

\* The version is counted up.
LEMMA MoveBump ==
    ASSUME TypeInv, StackInv, StartInv, NEW t \in Threads, Bump(t)
    PROVE  /\ pc(t) = "bump"
           /\ To(t, "clear")
           /\ UNCHANGED <<t_state, sleepers, pending>>
<1>0. /\ frame \in [Threads -> Frames] /\ frame[t] \in Frames
      /\ t_state \in [Threads -> SUBSET Flags]
  BY DEF TypeInv
<1>1. To(t, "clear")
  <2>1. frame'[t] = [frame[t] EXCEPT !.pc = "clear"]
    BY DEF Bump
  <2>2. [frame[t] EXCEPT !.pc = "clear"] \in Frames
    BY <1>0, Labels, UpdatedFrame
  <2> QED BY <1>0, <2>1, <2>2 DEF Own, To, Frames
<1>2. /\ pc(t) = "bump"
      /\ UNCHANGED <<t_state, sleepers, pending>>
  BY DEF Bump
<1> QED BY <1>1, <1>2

\* INTERRUPTED is cleared, unless the word has changed.
LEMMA MoveClearFlag ==
    ASSUME TypeInv, StackInv, StartInv, NEW t \in Threads, ClearFlag(t)
    PROVE  /\ pc(t) = "clear"
           /\ \/ /\ t_state' = [t_state EXCEPT ![t] = @ \ {"INTERRUPTED"}]
                 /\ \E l \in {"run", "main", "cleanup", "lock", "swait", "jwait"} :
                       frame[t].stack = <<l>> /\ Back1(t, "wakeload", <<"pending", l>>)
              \/ To(t, "check") /\ t_state' = t_state
           /\ UNCHANGED <<sleepers, pending>>
<1>0. /\ frame \in [Threads -> Frames] /\ frame[t] \in Frames
      /\ t_state \in [Threads -> SUBSET Flags]
  BY DEF TypeInv
<1>1. \/ /\ t_state' = [t_state EXCEPT ![t] = @ \ {"INTERRUPTED"}]
         /\ \E l \in {"run", "main", "cleanup", "lock", "swait", "jwait"} :
               frame[t].stack = <<l>> /\ Back1(t, "wakeload", <<"pending", l>>)
      \/ To(t, "check") /\ t_state' = t_state
  <2>1. CASE t_state[t] = frame[t].seen
    <3>1. PICK l \in {"run", "main", "cleanup", "lock", "swait", "jwait"} : frame[t].stack = <<l>>
      BY DEF ClearFlag, StackInv, CheckPCs, CheckStacks
    <3>2. /\ <<"pending">> \o <<l>> = <<"pending", l>>
          /\ <<"pending", l>> \in Seq(PCs \cup {"main"})
      BY StackValues
    <3> DEFINE k == <<"pending">> \o frame[t].stack
    <3>0. k = <<"pending", l>>
      BY <3>1, <3>2
    <3>6. frame' = [frame EXCEPT ![t].pc = "wakeload", ![t].seen = {}, ![t].stack = k]
      BY <2>1 DEF ClearFlag
    <3> HIDE DEF k
    <3>3. frame'[t] = [frame[t] EXCEPT !.pc = "wakeload", !.seen = {}, !.stack = <<"pending", l>>]
      BY <1>0, <3>0, <3>6
    <3>4. [frame[t] EXCEPT !.pc = "wakeload", !.seen = {}, !.stack = <<"pending", l>>] \in Frames
      BY <1>0, <3>2, Labels, UpdatedFrame
    <3>5. Back1(t, "wakeload", <<"pending", l>>)
      BY <1>0, <3>3, <3>4 DEF Own, Back1, Frames
    <3> QED BY <2>1, <3>1, <3>5 DEF ClearFlag
  <2>2. CASE t_state[t] # frame[t].seen
    <3>1. frame'[t] = [frame[t] EXCEPT !.pc = "check", !.seen = {}]
      BY <1>0, <2>2 DEF ClearFlag
    <3>2. [frame[t] EXCEPT !.pc = "check", !.seen = {}] \in Frames
      BY <1>0, Labels, UpdatedFrame
    <3>3. To(t, "check")
      BY <1>0, <3>1, <3>2 DEF Own, To, Frames
    <3> QED BY <2>2, <3>3 DEF ClearFlag
  <2> QED BY <2>1, <2>2
<1>2. /\ pc(t) = "clear"
      /\ UNCHANGED <<sleepers, pending>>
  BY DEF ClearFlag
<1> QED BY <1>1, <1>2

\* The look at the list of interrupts.
LEMMA MovePending ==
    ASSUME TypeInv, StackInv, StartInv, NEW t \in Threads, Pending(t)
    PROVE  /\ pc(t) = "pending"
           /\ To(t, IF t_interrupt[t] # <<>> THEN "acquire" ELSE "check")
           /\ UNCHANGED <<t_state, sleepers, pending>>
<1>0. /\ frame \in [Threads -> Frames] /\ frame[t] \in Frames
      /\ t_state \in [Threads -> SUBSET Flags]
  BY DEF TypeInv
<1>1. To(t, IF t_interrupt[t] # <<>> THEN "acquire" ELSE "check")
  BY <1>0, GotoOwn, LeaveOwn, Labels DEF Pending, To, Home
<1>2. /\ pc(t) = "pending"
      /\ UNCHANGED <<t_state, sleepers, pending>>
  BY DEF Pending
<1> QED BY <1>1, <1>2

\* The first interrupt is taken.
LEMMA MovePop ==
    ASSUME TypeInv, StackInv, StartInv, NEW t \in Threads, Pop(t)
    PROVE  /\ pc(t) = "pop"
           /\ To(t, "popped")
           /\ t_interrupt' = [t_interrupt EXCEPT ![t] = Tail(@)]
           /\ taken' = [taken EXCEPT ![t] = Head(t_interrupt[t])]
           /\ IF Len(t_interrupt[t]) > 1 THEN t_state' = [t_state EXCEPT ![t] = @ \cup {"INTERRUPTED"}]
                                          ELSE t_state' = t_state
           /\ UNCHANGED <<sleepers, sent>>
<1>0. /\ frame \in [Threads -> Frames] /\ frame[t] \in Frames
      /\ t_state \in [Threads -> SUBSET Flags]
  BY DEF TypeInv
<1>1. To(t, "popped")
  BY <1>0, GotoOwn, LeaveOwn, Labels DEF Pop, PopAnnouncing, To, Home
<1>2. /\ pc(t) = "pop"
      /\ t_interrupt' = [t_interrupt EXCEPT ![t] = Tail(@)]
      /\ taken' = [taken EXCEPT ![t] = Head(t_interrupt[t])]
      /\ IF Len(t_interrupt[t]) > 1 THEN t_state' = [t_state EXCEPT ![t] = @ \cup {"INTERRUPTED"}]
                                     ELSE t_state' = t_state
      /\ UNCHANGED <<sleepers, sent>>
  BY DEF Pop, PopAnnouncing
<1> QED BY <1>1, <1>2

\* The thread lets go of its own lock.
LEMMA MoveReleaseOwn ==
    ASSUME TypeInv, StackInv, StartInv, NEW t \in Threads, ReleaseOwn(t)
    PROVE  /\ t_state' = [t_state EXCEPT ![t] = @ \ {"INTERRUPTING"}]
           /\ \/ pc(t) = "termed" /\ TermReturned(t)
              \/ pc(t) = "popped" /\ To(t, "check")
              \/ pc(t) = "popped" /\ Own(t, "term", t, {}, <<"cleanup">>)
              \/ pc(t) = "popped" /\ Home(t)
           /\ UNCHANGED <<sleepers, pending>>
<1>0. /\ frame \in [Threads -> Frames] /\ frame[t] \in Frames
      /\ t_state \in [Threads -> SUBSET Flags]
  BY DEF TypeInv
<1>1. \/ pc(t) = "termed" /\ TermReturned(t)
      \/ pc(t) = "popped" /\ To(t, "check")
      \/ pc(t) = "popped" /\ Own(t, "term", t, {}, <<"cleanup">>)
      \/ pc(t) = "popped" /\ Home(t)
  <2>1. CASE pc(t) = "termed" /\ Return(t)
    <3>1. frame[t].stack \in TermStacks
      BY <2>1 DEF StackInv, TermPCs
    <3>2. frame'[t] = Returned(frame[t], t)
      BY <1>0, <2>1 DEF Return
    <3> QED BY <2>1, <3>1, <3>2, ReturnedOwn
  <2>2. CASE pc(t) = "popped" /\ Goto(t, "check")
    BY <2>2, GotoOwn, Labels DEF To
  <2>3. CASE pc(t) = "popped" /\ Leave(t)
    BY <2>3, LeaveOwn DEF Home
  <2>4. CASE /\ pc(t) = "popped"
             /\ frame' = [frame EXCEPT ![t] = [At(t, "term") EXCEPT !.stack = <<"cleanup">>]]
    <3>1. frame'[t] = [At(t, "term") EXCEPT !.stack = <<"cleanup">>]
      BY <1>0, <2>4
    <3>2. frame'[t] \in Frames
      BY <3>1, PushedFrame
    <3>3. Own(t, "term", t, {}, <<"cleanup">>)
      BY <3>1, <3>2 DEF At, Own
    <3> QED BY <2>4, <3>3
  <2> QED BY <2>1, <2>2, <2>3, <2>4 DEF ReleaseOwn
<1>2. /\ t_state' = [t_state EXCEPT ![t] = @ \ {"INTERRUPTING"}]
      /\ UNCHANGED <<sleepers, pending>>
  BY DEF ReleaseOwn
<1> QED BY <1>1, <1>2

\* A sender takes the lock, or gives up.
LEMMA MoveLock ==
    ASSUME TypeInv, StackInv, StartInv, NEW t \in Threads, Lock(t)
    PROVE  /\ pc(t) = "lock"
           /\ \/ /\ "INTERRUPTING" \notin t_state[me(t)]
                 /\ t_state' = [t_state EXCEPT ![me(t)] = @ \cup {"INTERRUPTING"}]
                 /\ To(t, IF "TERMINATING" \in t_state[me(t)] THEN "refuse" ELSE "locked")
              \/ Home(t) /\ t_state' = t_state
           /\ UNCHANGED <<sleepers, pending>>
<1>0. /\ frame \in [Threads -> Frames] /\ frame[t] \in Frames
      /\ t_state \in [Threads -> SUBSET Flags]
  BY DEF TypeInv
<1>1. \/ /\ "INTERRUPTING" \notin t_state[me(t)]
         /\ t_state' = [t_state EXCEPT ![me(t)] = @ \cup {"INTERRUPTING"}]
         /\ To(t, IF "TERMINATING" \in t_state[me(t)] THEN "refuse" ELSE "locked")
      \/ Home(t) /\ t_state' = t_state
  BY <1>0, GotoOwn, LeaveOwn, Labels DEF Lock, LockIf, To, Home
<1>2. /\ pc(t) = "lock"
      /\ UNCHANGED <<sleepers, pending>>
  BY DEF Lock, LockIf
<1> QED BY <1>1, <1>2

\* A sender that has the lock looks at its own interrupts.
LEMMA MoveLocked ==
    ASSUME TypeInv, StackInv, StartInv, NEW t \in Threads, Locked(t)
    PROVE  /\ pc(t) = "locked"
           /\ To(t, "yield") \/ To(t, "append")
           /\ UNCHANGED <<t_state, sleepers, pending>>
<1>0. /\ frame \in [Threads -> Frames] /\ frame[t] \in Frames
      /\ t_state \in [Threads -> SUBSET Flags]
  BY DEF TypeInv
<1>1. To(t, "yield") \/ To(t, "append")
  BY <1>0, GotoOwn, LeaveOwn, Labels DEF Locked, To, Home
<1>2. /\ pc(t) = "locked"
      /\ UNCHANGED <<t_state, sleepers, pending>>
  BY DEF Locked
<1> QED BY <1>1, <1>2

\* An interrupt is appended, or needs a descriptor.
LEMMA MoveSchedule ==
    ASSUME TypeInv, StackInv, StartInv, NEW t \in Threads, Schedule(t)
    PROVE  /\ pc(t) = "append"
           /\ \/ /\ To(t, "unlock")
                 /\ t_interrupt' = [t_interrupt EXCEPT ![me(t)] = Append(@, sent[me(t)] + 1)]
                 /\ sent' = [sent EXCEPT ![me(t)] = @ + 1]
              \/ To(t, "noroom") /\ t_interrupt' = t_interrupt /\ sent' = sent
           /\ UNCHANGED <<t_state, sleepers, taken>>
<1>0. /\ frame \in [Threads -> Frames] /\ frame[t] \in Frames
      /\ t_state \in [Threads -> SUBSET Flags]
  BY DEF TypeInv
<1>1. \/ /\ To(t, "unlock")
         /\ t_interrupt' = [t_interrupt EXCEPT ![me(t)] = Append(@, sent[me(t)] + 1)]
         /\ sent' = [sent EXCEPT ![me(t)] = @ + 1]
      \/ To(t, "noroom") /\ t_interrupt' = t_interrupt /\ sent' = sent
  BY <1>0, GotoOwn, LeaveOwn, Labels DEF Schedule, ScheduleAs, To, Home
<1>2. /\ pc(t) = "append"
      /\ UNCHANGED <<t_state, sleepers, taken>>
  BY DEF Schedule, ScheduleAs
<1> QED BY <1>1, <1>2

\* A sender lets go of the lock.
LEMMA MoveRelease ==
    ASSUME TypeInv, StackInv, StartInv, NEW t \in Threads, Release(t)
    PROVE  /\ t_state' = [t_state EXCEPT ![me(t)] = @ \ {"INTERRUPTING"}]
           /\ \/ pc(t) \in {"refuse", "noroom"} /\ Home(t)
              \/ pc(t) = "yield" /\ Back1(t, "check", <<"lock">>)
              \/ pc(t) = "noroom" /\ To(t, "lock")
              \/ pc(t) = "unlock" /\ To(t, "version")
           /\ UNCHANGED <<sleepers, pending>>
<1>0. /\ frame \in [Threads -> Frames] /\ frame[t] \in Frames
      /\ t_state \in [Threads -> SUBSET Flags]
  BY DEF TypeInv
<1>1. \/ pc(t) \in {"refuse", "noroom"} /\ Home(t)
      \/ pc(t) = "yield" /\ Back1(t, "check", <<"lock">>)
      \/ pc(t) = "noroom" /\ To(t, "lock")
      \/ pc(t) = "unlock" /\ To(t, "version")
  <2>1. CASE pc(t) \in {"refuse", "noroom"} /\ Leave(t)
    BY <2>1, LeaveOwn DEF Home
  <2>2. CASE pc(t) = "yield" /\ Call(t, "check", "lock")
    <3>1. frame[t].stack = <<>>
      BY <2>2 DEF StackInv, CheckPCs, WakePCs, TermPCs
    <3> QED BY <2>2, <3>1, CallOwn, Labels DEF Back1
  <2>3. CASE pc(t) = "noroom" /\ frame' = [frame EXCEPT ![t].pc = "lock", ![t].desc = TRUE]
    <3>1. frame'[t] = [frame[t] EXCEPT !.pc = "lock", !.desc = TRUE]
      BY <1>0, <2>3
    <3>2. [frame[t] EXCEPT !.pc = "lock", !.desc = TRUE] \in Frames
      BY <1>0, Labels, UpdatedFrame
    <3>3. To(t, "lock")
      BY <1>0, <3>1, <3>2 DEF Own, To, Frames
    <3> QED BY <2>3, <3>3
  <2>4. CASE pc(t) = "unlock" /\ frame' = [frame EXCEPT ![t].pc = "version", ![t].desc = FALSE]
    <3>1. frame'[t] = [frame[t] EXCEPT !.pc = "version", !.desc = FALSE]
      BY <1>0, <2>4
    <3>2. [frame[t] EXCEPT !.pc = "version", !.desc = FALSE] \in Frames
      BY <1>0, Labels, UpdatedFrame
    <3>3. To(t, "version")
      BY <1>0, <3>1, <3>2 DEF Own, To, Frames
    <3> QED BY <2>4, <3>3
  <2> QED BY <2>1, <2>2, <2>3, <2>4 DEF Release
<1>2. /\ t_state' = [t_state EXCEPT ![me(t)] = @ \ {"INTERRUPTING"}]
      /\ UNCHANGED <<sleepers, pending>>
  BY DEF Release
<1> QED BY <1>1, <1>2

\* The sender has read the version.
LEMMA MoveVersion ==
    ASSUME TypeInv, StackInv, StartInv, NEW t \in Threads, Version(t)
    PROVE  /\ pc(t) = "version"
           /\ To(t, "flag")
           /\ UNCHANGED <<t_state, sleepers, pending>>
<1>0. /\ frame \in [Threads -> Frames] /\ frame[t] \in Frames
      /\ t_state \in [Threads -> SUBSET Flags]
  BY DEF TypeInv
<1>1. To(t, "flag")
  BY <1>0, GotoOwn, LeaveOwn, Labels DEF Version, To, Home
<1>2. /\ pc(t) = "version"
      /\ UNCHANGED <<t_state, sleepers, pending>>
  BY DEF Version
<1> QED BY <1>1, <1>2

\* The sender sets INTERRUPTED.
LEMMA MoveFlag ==
    ASSUME TypeInv, StackInv, StartInv, NEW t \in Threads, Flag(t)
    PROVE  /\ pc(t) = "flag"
           /\ Home(t) \/ To(t, "iread")
           /\ t_state' = [t_state EXCEPT ![me(t)] = @ \cup {"INTERRUPTED"}]
           /\ UNCHANGED <<sleepers, pending>>
<1>0. /\ frame \in [Threads -> Frames] /\ frame[t] \in Frames
      /\ t_state \in [Threads -> SUBSET Flags]
  BY DEF TypeInv
<1>1. Home(t) \/ To(t, "iread")
  BY <1>0, GotoOwn, LeaveOwn, Labels DEF Flag, To, Home
<1>2. /\ pc(t) = "flag"
      /\ t_state' = [t_state EXCEPT ![me(t)] = @ \cup {"INTERRUPTED"}]
      /\ UNCHANGED <<sleepers, pending>>
  BY DEF Flag
<1> QED BY <1>1, <1>2

\* The sender has seen that INTERRUPTED is cleared, or waits for it.
LEMMA MoveReadFlag ==
    ASSUME TypeInv, StackInv, StartInv, NEW t \in Threads, ReadFlag(t)
    PROVE  /\ pc(t) = "iread"
           /\ \/ Home(t)
              \/ Own(t, IF "WAITING" \in t_state[me(t)] THEN "iwait" ELSE "imark",
                     me(t), t_state[me(t)], frame[t].stack)
           /\ UNCHANGED <<t_state, sleepers, pending>>
<1>0. /\ frame \in [Threads -> Frames] /\ frame[t] \in Frames
      /\ t_state \in [Threads -> SUBSET Flags]
  BY DEF TypeInv
<1>1. \/ Home(t)
      \/ Own(t, IF "WAITING" \in t_state[me(t)] THEN "iwait" ELSE "imark",
             me(t), t_state[me(t)], frame[t].stack)
  BY LeaveOwn, LookOwn, Labels DEF ReadFlag, Home
<1>2. /\ pc(t) = "iread"
      /\ UNCHANGED <<t_state, sleepers, pending>>
  BY DEF ReadFlag
<1> QED BY <1>1, <1>2

\* The sender compares versions.
LEMMA MoveCheckVersion ==
    ASSUME TypeInv, StackInv, StartInv, NEW t \in Threads, CheckVersion(t)
    PROVE  /\ pc(t) = "icheck"
           /\ Home(t) \/ To(t, "iread")
           /\ UNCHANGED <<t_state, sleepers, pending>>
<1>0. /\ frame \in [Threads -> Frames] /\ frame[t] \in Frames
      /\ t_state \in [Threads -> SUBSET Flags]
  BY DEF TypeInv
<1>1. Home(t) \/ To(t, "iread")
  BY <1>0, GotoOwn, LeaveOwn, Labels DEF CheckVersion, To, Home
<1>2. /\ pc(t) = "icheck"
      /\ UNCHANGED <<t_state, sleepers, pending>>
  BY DEF CheckVersion
<1> QED BY <1>1, <1>2

\* The end of the thread has been seen, or is waited for, or there is no time left.
LEMMA MoveJoin ==
    ASSUME TypeInv, StackInv, StartInv, NEW t \in Threads, Join(t)
    PROVE  /\ pc(t) = "join"
           /\ \/ Home(t)
              \/ /\ "TERMINATED" \notin t_state[me(t)]
                 /\ Own(t, IF "WAITING" \in t_state[me(t)] THEN "jwait" ELSE "jmark",
                        me(t), t_state[me(t)], frame[t].stack)
           /\ UNCHANGED <<t_state, sleepers, pending>>
<1>0. /\ frame \in [Threads -> Frames] /\ frame[t] \in Frames
      /\ t_state \in [Threads -> SUBSET Flags]
  BY DEF TypeInv
<1>1. \/ Home(t)
      \/ /\ "TERMINATED" \notin t_state[me(t)]
         /\ Own(t, IF "WAITING" \in t_state[me(t)] THEN "jwait" ELSE "jmark",
                me(t), t_state[me(t)], frame[t].stack)
  BY LeaveOwn, LookOwn, Labels DEF Join, Home
<1>2. /\ pc(t) = "join"
      /\ UNCHANGED <<t_state, sleepers, pending>>
  BY DEF Join
<1> QED BY <1>1, <1>2

\* A new thread sets STARTED.
LEMMA MoveEntry ==
    ASSUME TypeInv, StackInv, StartInv, NEW t \in Threads, Entry(t)
    PROVE  /\ pc(t) = "entry"
           /\ To(t, "entrywake")
           /\ t_state' = [t_state EXCEPT ![t] = @ \cup {"STARTED"}]
           /\ UNCHANGED <<sleepers, pending>>
<1>0. /\ frame \in [Threads -> Frames] /\ frame[t] \in Frames
      /\ t_state \in [Threads -> SUBSET Flags]
  BY DEF TypeInv
<1>1. To(t, "entrywake")
  BY <1>0, GotoOwn, LeaveOwn, Labels DEF Entry, To, Home
<1>2. /\ pc(t) = "entry"
      /\ t_state' = [t_state EXCEPT ![t] = @ \cup {"STARTED"}]
      /\ UNCHANGED <<sleepers, pending>>
  BY DEF Entry
<1> QED BY <1>1, <1>2

\* A new thread wakes its starters.
LEMMA MoveEntryWake ==
    ASSUME TypeInv, StackInv, StartInv, NEW t \in Threads, EntryWake(t)
    PROVE  /\ pc(t) = "entrywake"
           /\ Own(t, "check", t, {}, <<"main">>)
           /\ \A u \in sleepers' : u \in sleepers /\ me(u) # t
           /\ UNCHANGED <<t_state, pending>>
<1>0. /\ frame \in [Threads -> Frames] /\ frame[t] \in Frames
      /\ t_state \in [Threads -> SUBSET Flags]
  BY DEF TypeInv
<1>1. Own(t, "check", t, {}, <<"main">>)
  <2>1. frame'[t] = [At(t, "check") EXCEPT !.stack = <<"main">>]
    BY WakeAllPassive DEF EntryWake
  <2>2. frame'[t] \in Frames
    BY <2>1, PushedFrame
  <2> QED BY <2>1, <2>2 DEF At, Own
<1>2. /\ pc(t) = "entrywake"
      /\ \A u \in sleepers' : u \in sleepers /\ me(u) # t
      /\ UNCHANGED <<t_state, pending>>
  BY WakeAllPassive DEF EntryWake
<1> QED BY <1>1, <1>2

\* A thread sets TERMINATING.
LEMMA MoveTerming ==
    ASSUME TypeInv, StackInv, StartInv, NEW t \in Threads, Terming(t)
    PROVE  /\ pc(t) = "terming"
           /\ To(t, "termed")
           /\ t_state' = [t_state EXCEPT ![t] = @ \cup {"TERMINATING"}]
           /\ UNCHANGED <<sleepers, pending>>
<1>0. /\ frame \in [Threads -> Frames] /\ frame[t] \in Frames
      /\ t_state \in [Threads -> SUBSET Flags]
  BY DEF TypeInv
<1>1. To(t, "termed")
  BY <1>0, GotoOwn, LeaveOwn, Labels DEF Terming, To, Home
<1>2. /\ pc(t) = "terming"
      /\ t_state' = [t_state EXCEPT ![t] = @ \cup {"TERMINATING"}]
      /\ UNCHANGED <<sleepers, pending>>
  BY DEF Terming
<1> QED BY <1>1, <1>2

\* A thread discards its interrupts.
LEMMA MoveCleanup ==
    ASSUME TypeInv, StackInv, StartInv, NEW t \in Threads, Cleanup(t)
    PROVE  /\ pc(t) = "cleanup"
           /\ To(t, "terminated")
           /\ t_interrupt' = [t_interrupt EXCEPT ![t] = <<>>]
           /\ UNCHANGED <<t_state, sleepers, sent, taken>>
<1>0. /\ frame \in [Threads -> Frames] /\ frame[t] \in Frames
      /\ t_state \in [Threads -> SUBSET Flags]
  BY DEF TypeInv
<1>1. To(t, "terminated")
  BY <1>0, GotoOwn, LeaveOwn, Labels DEF Cleanup, To, Home
<1>2. /\ pc(t) = "cleanup"
      /\ t_interrupt' = [t_interrupt EXCEPT ![t] = <<>>]
      /\ UNCHANGED <<t_state, sleepers, sent, taken>>
  BY DEF Cleanup
<1> QED BY <1>1, <1>2

\* A thread sets TERMINATED.
LEMMA MoveTerminate ==
    ASSUME TypeInv, StackInv, StartInv, NEW t \in Threads, Terminate(t)
    PROVE  /\ pc(t) = "terminated"
           /\ To(t, "unflag")
           /\ t_state' = [t_state EXCEPT ![t] = @ \cup {"TERMINATED"}]
           /\ UNCHANGED <<sleepers, pending>>
<1>0. /\ frame \in [Threads -> Frames] /\ frame[t] \in Frames
      /\ t_state \in [Threads -> SUBSET Flags]
  BY DEF TypeInv
<1>1. To(t, "unflag")
  BY <1>0, GotoOwn, LeaveOwn, Labels DEF Terminate, To, Home
<1>2. /\ pc(t) = "terminated"
      /\ t_state' = [t_state EXCEPT ![t] = @ \cup {"TERMINATED"}]
      /\ UNCHANGED <<sleepers, pending>>
  BY DEF Terminate
<1> QED BY <1>1, <1>2

\* A terminated thread clears INTERRUPTED.
LEMMA MoveUnflag ==
    ASSUME TypeInv, StackInv, StartInv, NEW t \in Threads, Unflag(t)
    PROVE  /\ pc(t) = "unflag"
           /\ Back1(t, "wakeload", <<"gone">>)
           /\ t_state' = [t_state EXCEPT ![t] = @ \ {"INTERRUPTED"}]
           /\ UNCHANGED <<sleepers, pending>>
<1>0. /\ frame \in [Threads -> Frames] /\ frame[t] \in Frames
      /\ t_state \in [Threads -> SUBSET Flags]
  BY DEF TypeInv
<1>1. Back1(t, "wakeload", <<"gone">>)
  <2>1. frame[t].stack = <<>>
    BY DEF Unflag, StackInv, CheckPCs, WakePCs, TermPCs
  <2> QED BY <2>1, CallOwn, Labels DEF Unflag, Back1
<1>2. /\ pc(t) = "unflag"
      /\ t_state' = [t_state EXCEPT ![t] = @ \ {"INTERRUPTED"}]
      /\ UNCHANGED <<sleepers, pending>>
  BY DEF Unflag
<1> QED BY <1>1, <1>2

\* A wait ends with its timeout.
LEMMA MoveTimedOut ==
    ASSUME TypeInv, StackInv, StartInv, NEW t \in Threads, TimedOut(t)
    PROVE  /\ sleepers' = sleepers \ {t}
           /\ \/ pc(t) = "jwait" /\ Home(t)
              \/ pc(t) = "iwait" /\ Own(t, "icheck", me(t), {}, frame[t].stack)
           /\ UNCHANGED <<t_state, pending>>
<1>0. /\ frame \in [Threads -> Frames] /\ frame[t] \in Frames
      /\ t_state \in [Threads -> SUBSET Flags]
  BY DEF TypeInv
<1>1. \/ pc(t) = "jwait" /\ Home(t)
      \/ pc(t) = "iwait" /\ Own(t, "icheck", me(t), {}, frame[t].stack)
  <2>1. CASE pc(t) = "jwait" /\ Leave(t)
    BY <2>1, LeaveOwn DEF Home
  <2>2. CASE pc(t) = "iwait" /\ frame' = [frame EXCEPT ![t] = Up(@)]
    <3>1. frame'[t] = [frame[t] EXCEPT !.pc = "icheck", !.state = {}]
      BY <1>0, <2>2, BackValues DEF Up
    <3>2. [frame[t] EXCEPT !.pc = "icheck", !.state = {}] \in Frames
      BY <1>0, Labels, UpdatedFrame
    <3> QED BY <1>0, <2>2, <3>1, <3>2 DEF Own, Frames
  <2> QED BY <2>1, <2>2 DEF TimedOut
<1>2. /\ sleepers' = sleepers \ {t}
      /\ UNCHANGED <<t_state, pending>>
  BY DEF TimedOut
<1> QED BY <1>1, <1>2

\* The thread takes its own lock.
LEMMA MoveAcquire ==
    ASSUME TypeInv, StackInv, StartInv, NEW t \in Threads, Acquire(t)
    PROVE  /\ pc(t) \in {"acquire", "term"}
           /\ To(t, IF pc(t) = "acquire" THEN "pop" ELSE "terming")
           /\ "INTERRUPTING" \notin t_state[t]
           /\ t_state' = [t_state EXCEPT ![t] = @ \cup {"INTERRUPTING"}]
           /\ UNCHANGED <<sleepers, pending>>
<1>0. /\ frame \in [Threads -> Frames] /\ frame[t] \in Frames
      /\ t_state \in [Threads -> SUBSET Flags]
  BY DEF TypeInv
<1>1. To(t, IF pc(t) = "acquire" THEN "pop" ELSE "terming")
  BY <1>0, GotoOwn, LeaveOwn, Labels DEF Acquire, AcquireIf, To, Home
<1>2. /\ pc(t) \in {"acquire", "term"}
      /\ "INTERRUPTING" \notin t_state[t]
      /\ t_state' = [t_state EXCEPT ![t] = @ \cup {"INTERRUPTING"}]
      /\ UNCHANGED <<sleepers, pending>>
  BY DEF Acquire, AcquireIf
<1> QED BY <1>1, <1>2

\* The code of a thread looks for interrupts.
LEMMA MoveUserCheck ==
    ASSUME TypeInv, StackInv, StartInv, NEW t \in Threads, UserCheck(t)
    PROVE  /\ pc(t) = "run"
           /\ Back1(t, "check", <<"run">>)
           /\ UNCHANGED <<t_state, sleepers, pending>>
<1>0. /\ frame \in [Threads -> Frames] /\ frame[t] \in Frames
      /\ t_state \in [Threads -> SUBSET Flags]
  BY DEF TypeInv
<1>1. Back1(t, "check", <<"run">>)
  <2>1. frame[t].stack = <<>>
    BY DEF UserCheck, StackInv, CheckPCs, WakePCs, TermPCs
  <2> QED BY <2>1, CallOwn, Labels DEF UserCheck, Back1
<1>2. /\ pc(t) = "run"
      /\ UNCHANGED <<t_state, sleepers, pending>>
  BY DEF UserCheck
<1> QED BY <1>1, <1>2

\* The code of a thread ends.
LEMMA MoveFinish ==
    ASSUME TypeInv, StackInv, StartInv, NEW t \in Threads, Finish(t)
    PROVE  /\ pc(t) = "run"
           /\ Back1(t, "term", <<"check", "cleanup">>) \/ Back1(t, "term", <<"cleanup">>)
           /\ UNCHANGED <<t_state, sleepers, pending>>
<1>0. /\ frame \in [Threads -> Frames] /\ frame[t] \in Frames
      /\ t_state \in [Threads -> SUBSET Flags]
  BY DEF TypeInv
<1>1. Back1(t, "term", <<"check", "cleanup">>) \/ Back1(t, "term", <<"cleanup">>)
  <2>1. PICK k \in {<<"check", "cleanup">>, <<"cleanup">>} :
           frame' = [frame EXCEPT ![t].pc = "term", ![t].stack = k]
    BY DEF Finish
  <2>2. k \in Seq(PCs \cup {"main"})
    BY <2>1, StackValues, Labels
  <2>3. frame'[t] = [frame[t] EXCEPT !.pc = "term", !.stack = k]
    BY <1>0, <2>1
  <2>4. [frame[t] EXCEPT !.pc = "term", !.stack = k] \in Frames
    BY <1>0, <2>2, Labels, UpdatedFrame
  <2>5. Back1(t, "term", k)
    BY <1>0, <2>3, <2>4 DEF Own, Back1, Frames
  <2> QED BY <2>1, <2>5
<1>2. /\ pc(t) = "run"
      /\ UNCHANGED <<t_state, sleepers, pending>>
  BY DEF Finish
<1> QED BY <1>1, <1>2

\* The code of a thread calls a function.
LEMMA MoveInvoke ==
    ASSUME TypeInv, StackInv, StartInv, NEW t \in Threads, NEW w \in Threads, Invoke(t, w)
    PROVE  /\ pc(t) = "run"
           /\ \/ Own(t, "start", w, frame[t].state, frame[t].stack) /\ w \in Workers
              \/ Own(t, "lock", w, frame[t].state, frame[t].stack)
              \/ Own(t, "join", w, frame[t].state, frame[t].stack)
           /\ UNCHANGED <<t_state, sleepers, pending>>
<1>0. /\ frame \in [Threads -> Frames] /\ frame[t] \in Frames
      /\ t_state \in [Threads -> SUBSET Flags]
  BY DEF TypeInv
<1>1. \/ Own(t, "start", w, frame[t].state, frame[t].stack) /\ w \in Workers
      \/ Own(t, "lock", w, frame[t].state, frame[t].stack)
      \/ Own(t, "join", w, frame[t].state, frame[t].stack)
  <2>1. ASSUME NEW l \in {"start", "lock", "join"},
               frame' = [frame EXCEPT ![t].pc = l, ![t].me = w]
        PROVE  Own(t, l, w, frame[t].state, frame[t].stack)
    <3>1. frame'[t] = [frame[t] EXCEPT !.pc = l, !.me = w]
      BY <1>0, <2>1
    <3>2. [frame[t] EXCEPT !.pc = l, !.me = w] \in Frames
      BY <1>0, Labels, UpdatedFrame
    <3> QED BY <1>0, <3>1, <3>2 DEF Own, Frames
  <2>2. <<"start", t, w>> \in Calls => w \in Workers
    BY CallsAssumption
  <2> QED BY <2>1, <2>2 DEF Invoke
<1>2. /\ pc(t) = "run"
      /\ UNCHANGED <<t_state, sleepers, pending>>
  BY DEF Invoke
<1> QED BY <1>1, <1>2

-----------------------------------------------------------------------------
(* Every step keeps the invariant *)

\* The frame of the thread that moves stays well-formed.
LEMMA OwnFrame ==
    ASSUME TypeInv, StackInv, StartInv, NEW t \in Threads, Act(t)
    PROVE  frame'[t] \in Frames
<1>1. CASE FutexWait(t)
  BY <1>1, MoveFutexWait DEF TypeInv, Own, To, Home, Back1
<1>2. CASE FutexInterrupted(t)
  BY <1>2, MoveFutexInterrupted DEF Own, To, Home, Back1
<1>3. CASE WakeLoad(t)
  BY <1>3, MoveWakeLoad DEF WakeReturned, Own, To, Home, Back1
<1>4. CASE WakeClear(t)
  BY <1>4, MoveWakeClear DEF Own, To, Home, Back1
<1>5. CASE WakeSleepers(t)
  BY <1>5, MoveWakeSleepers DEF WakeReturned, Own, To, Home, Back1
<1>6. CASE Mark(t)
  BY <1>6, MoveMark DEF Own, To, Home, Back1
<1>7. CASE Start(t)
  BY <1>7, MoveStart DEF Own, To, Home, Back1
<1>8. CASE Create(t)
  BY <1>8, MoveCreate DEF Own, To, Home, Back1
<1>9. CASE Starting(t)
  BY <1>9, MoveStarting DEF Own, To, Home, Back1
<1>10. CASE Abort(t)
  BY <1>10, MoveAbort DEF Own, To, Home, Back1
<1>11. CASE Check(t)
  BY <1>11, MoveCheck DEF CheckReturned, Own, To, Home, Back1
<1>12. CASE Bump(t)
  BY <1>12, MoveBump DEF Own, To, Home, Back1
<1>13. CASE ClearFlag(t)
  BY <1>13, MoveClearFlag DEF Own, To, Home, Back1
<1>14. CASE Pending(t)
  BY <1>14, MovePending DEF Own, To, Home, Back1
<1>15. CASE Pop(t)
  BY <1>15, MovePop DEF Own, To, Home, Back1
<1>16. CASE ReleaseOwn(t)
  BY <1>16, MoveReleaseOwn DEF TermReturned, Own, To, Home, Back1
<1>17. CASE Lock(t)
  BY <1>17, MoveLock DEF Own, To, Home, Back1
<1>18. CASE Locked(t)
  BY <1>18, MoveLocked DEF Own, To, Home, Back1
<1>19. CASE Schedule(t)
  BY <1>19, MoveSchedule DEF Own, To, Home, Back1
<1>20. CASE Release(t)
  BY <1>20, MoveRelease DEF Own, To, Home, Back1
<1>21. CASE Version(t)
  BY <1>21, MoveVersion DEF Own, To, Home, Back1
<1>22. CASE Flag(t)
  BY <1>22, MoveFlag DEF Own, To, Home, Back1
<1>23. CASE ReadFlag(t)
  BY <1>23, MoveReadFlag DEF Own, To, Home, Back1
<1>24. CASE CheckVersion(t)
  BY <1>24, MoveCheckVersion DEF Own, To, Home, Back1
<1>25. CASE Join(t)
  BY <1>25, MoveJoin DEF Own, To, Home, Back1
<1>26. CASE Entry(t)
  BY <1>26, MoveEntry DEF Own, To, Home, Back1
<1>27. CASE EntryWake(t)
  BY <1>27, MoveEntryWake DEF Own, To, Home, Back1
<1>28. CASE Terming(t)
  BY <1>28, MoveTerming DEF Own, To, Home, Back1
<1>29. CASE Cleanup(t)
  BY <1>29, MoveCleanup DEF Own, To, Home, Back1
<1>30. CASE Terminate(t)
  BY <1>30, MoveTerminate DEF Own, To, Home, Back1
<1>31. CASE Unflag(t)
  BY <1>31, MoveUnflag DEF Own, To, Home, Back1
<1>32. CASE TimedOut(t)
  BY <1>32, MoveTimedOut DEF Own, To, Home, Back1
<1>33. CASE Acquire(t)
  BY <1>33, MoveAcquire DEF Own, To, Home, Back1
<1>34. CASE UserCheck(t)
  BY <1>34, MoveUserCheck DEF Own, To, Home, Back1
<1>35. CASE Finish(t)
  BY <1>35, MoveFinish DEF Own, To, Home, Back1
<1>36. ASSUME NEW w \in Threads, Invoke(t, w) PROVE frame'[t] \in Frames
  BY <1>36, MoveInvoke DEF Own, To, Home, Back1
<1> QED
  BY <1>1, <1>2, <1>3, <1>4, <1>5, <1>6, <1>7, <1>8, <1>9, <1>10, <1>11,
     <1>12, <1>13, <1>14, <1>15, <1>16, <1>17, <1>18, <1>19, <1>20, <1>21,
     <1>22, <1>23, <1>24, <1>25, <1>26, <1>27, <1>28, <1>29, <1>30, <1>31,
     <1>32, <1>33, <1>34, <1>35, <1>36 DEF Act, Step

\* The frames of all threads stay well-formed.
LEMMA FrameStep ==
    ASSUME TypeInv, StackInv, StartInv, NEW t \in Threads, Act(t)
    PROVE  frame' \in [Threads -> Frames]
<1> DEFINE Goal == /\ frame' = [u \in Threads |-> frame'[u]]
                   /\ \A u \in Threads \ {t} : frame'[u] \in Frames
<1>0. frame \in [Threads -> Frames]
  BY DEF TypeInv
<1>90. ASSUME NEW w, NEW f, WakeAllThen(t, w, f) PROVE Goal
  <2>1. frame' = [u \in Threads |-> frame'[u]]
    BY <1>90 DEF WakeAllThen
  <2>2. ASSUME NEW u \in Threads \ {t} PROVE frame'[u] \in Frames
    <3>1. CASE u \in sleepers /\ me(u) = w
      <4>1. frame'[u] = [frame[u] EXCEPT !.pc = Back[pc(u)], !.state = {}]
        BY <1>90, <2>2, <3>1 DEF WakeAllThen, Up
      <4>2. Back[pc(u)] \in PCs
        BY <3>1, BackValues, Labels DEF TypeInv
      <4>3. [frame[u] EXCEPT !.pc = Back[pc(u)], !.state = {}] \in Frames
        BY <1>0, <4>2, UpdatedFrame
      <4> QED BY <4>1, <4>3
    <3>2. CASE ~(u \in sleepers /\ me(u) = w)
      BY <1>0, <1>90, <2>2, <3>2 DEF WakeAllThen
    <3> QED BY <3>1, <3>2
  <2> QED BY <2>1, <2>2
<1>1. ASSUME FutexWait(t) PROVE Goal
  BY <1>1, <1>0 DEF FutexWait, Up
<1>2. ASSUME FutexInterrupted(t) PROVE Goal
  BY <1>2, <1>90 DEF FutexInterrupted
<1>3. ASSUME WakeLoad(t) PROVE Goal
  BY <1>3, <1>0 DEF WakeLoad, Return, Returned, At, Goto
<1>4. ASSUME WakeClear(t) PROVE Goal
  BY <1>4, <1>0 DEF WakeClear, Goto
<1>5. ASSUME WakeSleepers(t) PROVE Goal
  BY <1>5, <1>90 DEF WakeSleepers
<1>6. ASSUME Mark(t) PROVE Goal
  BY <1>6, <1>0 DEF Mark, MarkExpecting
<1>7. ASSUME Start(t) PROVE Goal
  BY <1>7, <1>0 DEF Start, Leave, At, Goto
<1>8. ASSUME Create(t) PROVE Goal
  <2>1. CASE Goto(t, "abort")
    BY <1>0, <2>1 DEF Goto
  <2>2. CASE ~Goto(t, "abort")
    <3>1. frame' = [frame EXCEPT ![t].pc = "starting", ![me(t)].pc = "entry"]
      BY <1>8, <2>2 DEF Create
    <3>2. me(t) \in Threads /\ me(t) # t
      BY <1>8 DEF Create, StartInv, Starter, TypeInv, Frames
    <3>3. [frame[me(t)] EXCEPT !.pc = "entry"] \in Frames
      BY <1>0, <3>2, Labels, UpdatedFrame
    <3>4. frame'[me(t)] = [frame[me(t)] EXCEPT !.pc = "entry"]
      BY <1>0, <3>1, <3>2
    <3>5. \A u \in Threads \ {t, me(t)} : frame'[u] = frame[u]
      BY <1>0, <3>1
    <3> QED BY <1>0, <3>1, <3>3, <3>4, <3>5
  <2> QED BY <2>1, <2>2
<1>9. ASSUME Starting(t) PROVE Goal
  BY <1>9, <1>0 DEF Starting, Look, Leave, At
<1>10. ASSUME Abort(t) PROVE Goal
  BY <1>10, <1>0 DEF Abort, Call
<1>11. ASSUME Check(t) PROVE Goal
  BY <1>11, <1>0 DEF Check, Return, Returned, At
<1>12. ASSUME Bump(t) PROVE Goal
  <2>1. ASSUME NEW u \in Threads \ {t} PROVE frame'[u] \in Frames
    <3>1. frame'[u] = [frame[u] EXCEPT !.moved = @ \/ (me(u) = t /\ pc(u) \in WatchPCs)]
      BY <1>12, <2>1 DEF Bump
    <3>2. ASSUME NEW f \in Frames, NEW b \in BOOLEAN PROVE [f EXCEPT !.moved = b] \in Frames
      BY DEF Frames
    <3>3. frame[u].moved \in BOOLEAN
      BY <1>0 DEF Frames
    <3> DEFINE b == frame[u].moved \/ (me(u) = t /\ pc(u) \in WatchPCs)
    <3>4. b \in BOOLEAN
      BY <3>3
    <3> HIDE DEF b
    <3>5. [frame[u] EXCEPT !.moved = b] \in Frames
      BY <1>0, <3>2, <3>4
    <3> QED BY <3>1, <3>5 DEF b
  <2> QED BY <1>12, <2>1 DEF Bump
<1>13. ASSUME ClearFlag(t) PROVE Goal
  BY <1>13, <1>0 DEF ClearFlag
<1>14. ASSUME Pending(t) PROVE Goal
  BY <1>14, <1>0 DEF Pending, Goto
<1>15. ASSUME Pop(t) PROVE Goal
  BY <1>15, <1>0 DEF Pop, PopAnnouncing, Goto
<1>16. ASSUME ReleaseOwn(t) PROVE Goal
  BY <1>16, <1>0 DEF ReleaseOwn, Return, Returned, Leave, At, Goto
<1>17. ASSUME Lock(t) PROVE Goal
  BY <1>17, <1>0 DEF Lock, LockIf, Leave, At, Goto
<1>18. ASSUME Locked(t) PROVE Goal
  BY <1>18, <1>0 DEF Locked, Goto
<1>19. ASSUME Schedule(t) PROVE Goal
  BY <1>19, <1>0 DEF Schedule, ScheduleAs, Goto
<1>20. ASSUME Release(t) PROVE Goal
  BY <1>20, <1>0 DEF Release, Leave, Call, At
<1>21. ASSUME Version(t) PROVE Goal
  BY <1>21, <1>0 DEF Version, Goto
<1>22. ASSUME Flag(t) PROVE Goal
  BY <1>22, <1>0 DEF Flag, Leave, At, Goto
<1>23. ASSUME ReadFlag(t) PROVE Goal
  BY <1>23, <1>0 DEF ReadFlag, Look, Leave, At
<1>24. ASSUME CheckVersion(t) PROVE Goal
  BY <1>24, <1>0 DEF CheckVersion, Leave, At, Goto
<1>25. ASSUME Join(t) PROVE Goal
  BY <1>25, <1>0 DEF Join, Look, Leave, At
<1>26. ASSUME Entry(t) PROVE Goal
  BY <1>26, <1>0 DEF Entry, Goto
<1>27. ASSUME EntryWake(t) PROVE Goal
  BY <1>27, <1>90 DEF EntryWake
<1>28. ASSUME Terming(t) PROVE Goal
  BY <1>28, <1>0 DEF Terming, Goto
<1>29. ASSUME Cleanup(t) PROVE Goal
  BY <1>29, <1>0 DEF Cleanup, Goto
<1>30. ASSUME Terminate(t) PROVE Goal
  BY <1>30, <1>0 DEF Terminate, Goto
<1>31. ASSUME Unflag(t) PROVE Goal
  BY <1>31, <1>0 DEF Unflag, Call
<1>32. ASSUME TimedOut(t) PROVE Goal
  BY <1>32, <1>0 DEF TimedOut, Leave, At, Up
<1>33. ASSUME Acquire(t) PROVE Goal
  BY <1>33, <1>0 DEF Acquire, AcquireIf, Goto
<1>34. ASSUME UserCheck(t) PROVE Goal
  BY <1>34, <1>0 DEF UserCheck, Call
<1>35. ASSUME Finish(t) PROVE Goal
  BY <1>35, <1>0 DEF Finish
<1>36. ASSUME NEW w \in Threads, Invoke(t, w) PROVE Goal
  BY <1>36, <1>0 DEF Invoke
<1> HIDE DEF Goal
<1>91. Goal
  BY <1>1, <1>2, <1>3, <1>4, <1>5, <1>6, <1>7, <1>8, <1>9, <1>10, <1>11,
     <1>12, <1>13, <1>14, <1>15, <1>16, <1>17, <1>18, <1>19, <1>20, <1>21,
     <1>22, <1>23, <1>24, <1>25, <1>26, <1>27, <1>28, <1>29, <1>30, <1>31,
     <1>32, <1>33, <1>34, <1>35, <1>36 DEF Act, Step
<1>92. frame'[t] \in Frames
  BY OwnFrame
<1> QED BY <1>91, <1>92 DEF Goal

\* The stack of a thread fits its place in the code.
StackOK(t) ==
    /\ pc(t) \in CheckPCs => frame[t].stack \in CheckStacks
    /\ pc(t) \in WakePCs => frame[t].stack \in WakeStacks
    /\ pc(t) \in TermPCs => frame[t].stack \in TermStacks
    /\ pc(t) \notin CheckPCs \cup WakePCs \cup TermPCs => frame[t].stack = <<>>

\* The stack of the thread that moves fits the place it moves to.
LEMMA OwnStack ==
    ASSUME TypeInv, StackInv, StartInv, NEW t \in Threads, Act(t)
    PROVE  StackOK(t)'
<1> USE DEF StackOK, CheckPCs, WakePCs, TermPCs
<1>1. CASE FutexWait(t)
  BY <1>1, MoveFutexWait, BackValues DEF Own, To, Home, Back1, StackInv
<1>2. CASE FutexInterrupted(t)
  BY <1>2, MoveFutexInterrupted DEF CheckStacks, Own, To, Home, Back1, StackInv
<1>3. CASE WakeLoad(t)
  BY <1>3, MoveWakeLoad DEF WakeReturned, CheckStacks, Own, To, Home, Back1, StackInv
<1>4. CASE WakeClear(t)
  BY <1>4, MoveWakeClear DEF Own, To, Home, Back1, StackInv
<1>5. CASE WakeSleepers(t)
  BY <1>5, MoveWakeSleepers DEF WakeReturned, CheckStacks, Own, To, Home, Back1, StackInv
<1>6. CASE Mark(t)
  BY <1>6, MoveMark, MarkedValues DEF Own, To, Home, Back1, StackInv
<1>7. CASE Start(t)
  BY <1>7, MoveStart DEF Own, To, Home, Back1, StackInv
<1>8. CASE Create(t)
  BY <1>8, MoveCreate DEF Own, To, Home, Back1, StackInv
<1>9. CASE Starting(t)
  BY <1>9, MoveStarting DEF Own, To, Home, Back1, StackInv
<1>10. CASE Abort(t)
  BY <1>10, MoveAbort DEF WakeStacks, Own, To, Home, Back1, StackInv
<1>11. CASE Check(t)
  BY <1>11, MoveCheck DEF CheckReturned, Own, To, Home, Back1, StackInv
<1>12. CASE Bump(t)
  BY <1>12, MoveBump DEF Own, To, Home, Back1, StackInv
<1>13. CASE ClearFlag(t)
  BY <1>13, MoveClearFlag DEF WakeStacks, PendingStacks, Own, To, Home, Back1, StackInv
<1>14. CASE Pending(t)
  BY <1>14, MovePending DEF Own, To, Home, Back1, StackInv
<1>15. CASE Pop(t)
  BY <1>15, MovePop DEF Own, To, Home, Back1, StackInv
<1>16. CASE ReleaseOwn(t)
  BY <1>16, MoveReleaseOwn DEF TermReturned, TermStacks, CheckStacks, Own, To, Home, Back1, StackInv
<1>17. CASE Lock(t)
  BY <1>17, MoveLock DEF Own, To, Home, Back1, StackInv
<1>18. CASE Locked(t)
  BY <1>18, MoveLocked DEF Own, To, Home, Back1, StackInv
<1>19. CASE Schedule(t)
  BY <1>19, MoveSchedule DEF Own, To, Home, Back1, StackInv
<1>20. CASE Release(t)
  BY <1>20, MoveRelease DEF CheckStacks, Own, To, Home, Back1, StackInv
<1>21. CASE Version(t)
  BY <1>21, MoveVersion DEF Own, To, Home, Back1, StackInv
<1>22. CASE Flag(t)
  BY <1>22, MoveFlag DEF Own, To, Home, Back1, StackInv
<1>23. CASE ReadFlag(t)
  BY <1>23, MoveReadFlag DEF Own, To, Home, Back1, StackInv
<1>24. CASE CheckVersion(t)
  BY <1>24, MoveCheckVersion DEF Own, To, Home, Back1, StackInv
<1>25. CASE Join(t)
  BY <1>25, MoveJoin DEF Own, To, Home, Back1, StackInv
<1>26. CASE Entry(t)
  BY <1>26, MoveEntry DEF Own, To, Home, Back1, StackInv
<1>27. CASE EntryWake(t)
  BY <1>27, MoveEntryWake DEF CheckStacks, Own, To, Home, Back1, StackInv
<1>28. CASE Terming(t)
  BY <1>28, MoveTerming DEF Own, To, Home, Back1, StackInv
<1>29. CASE Cleanup(t)
  BY <1>29, MoveCleanup DEF Own, To, Home, Back1, StackInv
<1>30. CASE Terminate(t)
  BY <1>30, MoveTerminate DEF Own, To, Home, Back1, StackInv
<1>31. CASE Unflag(t)
  BY <1>31, MoveUnflag DEF WakeStacks, Own, To, Home, Back1, StackInv
<1>32. CASE TimedOut(t)
  BY <1>32, MoveTimedOut DEF Own, To, Home, Back1, StackInv
<1>33. CASE Acquire(t)
  BY <1>33, MoveAcquire DEF Own, To, Home, Back1, StackInv
<1>34. CASE UserCheck(t)
  BY <1>34, MoveUserCheck DEF CheckStacks, Own, To, Home, Back1, StackInv
<1>35. CASE Finish(t)
  BY <1>35, MoveFinish DEF TermStacks, Own, To, Home, Back1, StackInv
<1>36. ASSUME NEW w \in Threads, Invoke(t, w) PROVE StackOK(t)'
  BY <1>36, MoveInvoke DEF Own, To, Home, Back1, StackInv
<1> QED
  BY <1>1, <1>2, <1>3, <1>4, <1>5, <1>6, <1>7, <1>8, <1>9, <1>10, <1>11,
     <1>12, <1>13, <1>14, <1>15, <1>16, <1>17, <1>18, <1>19, <1>20, <1>21,
     <1>22, <1>23, <1>24, <1>25, <1>26, <1>27, <1>28, <1>29, <1>30, <1>31,
     <1>32, <1>33, <1>34, <1>35, <1>36 DEF Act, Step

\* Every thread keeps a stack that fits its place in the code.
LEMMA StackStep ==
    ASSUME TypeInv, StackInv, StartInv, NEW t \in Threads, Act(t) PROVE StackInv'
<1>1. StackOK(t)'
  BY OwnStack
<1>2. ASSUME NEW u \in Threads \ {t} PROVE StackOK(u)'
  <2>1. Passive(t, u)
    BY Bystanders
  <2> QED BY <1>2, <2>1, BackValues
          DEF Passive, TypeInv, StackInv, StackOK, CheckPCs, WakePCs, TermPCs
<1> QED BY <1>1, <1>2 DEF StackInv, StackOK

\* _DeeThread_WakeWaiting is about a thread.
LEMMA WaitedThread == ASSUME TypeInv, NEW t \in Threads PROVE Waited(t) \in Threads
BY DEF TypeInv, Frames, Waited

\* The words stay sets of flags, and nobody is in the futex but those who wait there.
LEMMA WordStep ==
    ASSUME TypeInv, StackInv, StartInv, NEW t \in Threads, Act(t)
    PROVE  /\ t_state' \in [Threads -> SUBSET Flags]
           /\ sleepers' \subseteq Threads
           /\ t \in sleepers' => frame'[t].pc \in WaitPCs
<1> DEFINE Goal == /\ t_state' \in [Threads -> SUBSET Flags]
                   /\ sleepers' \subseteq Threads
                   /\ t \in sleepers' => frame'[t].pc \in WaitPCs
<1>0. /\ t_state \in [Threads -> SUBSET Flags] /\ me(t) \in Threads /\ Waited(t) \in Threads
      /\ sleepers \subseteq Threads /\ (t \in sleepers => pc(t) \in WaitPCs)
  BY WaitedThread DEF TypeInv, Frames
<1>1. ASSUME FutexWait(t) PROVE Goal
  BY <1>1, MoveFutexWait, <1>0, BackValues DEF Flags
<1>2. ASSUME FutexInterrupted(t) PROVE Goal
  BY <1>2, MoveFutexInterrupted, <1>0, BackValues DEF Flags
<1>3. ASSUME WakeLoad(t) PROVE Goal
  BY <1>3, MoveWakeLoad, <1>0, BackValues DEF WakeReturned, Flags
<1>4. ASSUME WakeClear(t) PROVE Goal
  BY <1>4, MoveWakeClear, <1>0, BackValues DEF Flags
<1>5. ASSUME WakeSleepers(t) PROVE Goal
  BY <1>5, MoveWakeSleepers, <1>0, BackValues DEF WakeReturned, Flags
<1>6. ASSUME Mark(t) PROVE Goal
  <2>1. /\ pc(t) \in {"tmark", "jmark", "imark"} /\ sleepers' = sleepers
        /\ t_state' = [t_state EXCEPT ![me(t)] = @ \cup {"WAITING"}]
    BY <1>6, MoveMark
  <2>2. t \notin sleepers
    BY <1>0, <2>1, BackValues
  <2> QED BY <1>0, <2>1, <2>2 DEF Flags
<1>7. ASSUME Start(t) PROVE Goal
  BY <1>7, MoveStart, <1>0, BackValues DEF Flags
<1>8. ASSUME Create(t) PROVE Goal
  BY <1>8, MoveCreate, <1>0, BackValues DEF Flags
<1>9. ASSUME Starting(t) PROVE Goal
  BY <1>9, MoveStarting, <1>0, BackValues DEF Flags
<1>10. ASSUME Abort(t) PROVE Goal
  BY <1>10, MoveAbort, <1>0, BackValues DEF Flags
<1>11. ASSUME Check(t) PROVE Goal
  BY <1>11, MoveCheck, <1>0, BackValues DEF CheckReturned, Flags
<1>12. ASSUME Bump(t) PROVE Goal
  BY <1>12, MoveBump, <1>0, BackValues DEF Flags
<1>13. ASSUME ClearFlag(t) PROVE Goal
  BY <1>13, MoveClearFlag, <1>0, BackValues DEF Flags
<1>14. ASSUME Pending(t) PROVE Goal
  BY <1>14, MovePending, <1>0, BackValues DEF Flags
<1>15. ASSUME Pop(t) PROVE Goal
  BY <1>15, MovePop, <1>0, BackValues DEF Flags
<1>16. ASSUME ReleaseOwn(t) PROVE Goal
  BY <1>16, MoveReleaseOwn, <1>0, BackValues DEF Flags
<1>17. ASSUME Lock(t) PROVE Goal
  BY <1>17, MoveLock, <1>0, BackValues DEF Flags
<1>18. ASSUME Locked(t) PROVE Goal
  BY <1>18, MoveLocked, <1>0, BackValues DEF Flags
<1>19. ASSUME Schedule(t) PROVE Goal
  BY <1>19, MoveSchedule, <1>0, BackValues DEF Flags
<1>20. ASSUME Release(t) PROVE Goal
  BY <1>20, MoveRelease, <1>0, BackValues DEF Flags
<1>21. ASSUME Version(t) PROVE Goal
  BY <1>21, MoveVersion, <1>0, BackValues DEF Flags
<1>22. ASSUME Flag(t) PROVE Goal
  BY <1>22, MoveFlag, <1>0, BackValues DEF Flags
<1>23. ASSUME ReadFlag(t) PROVE Goal
  BY <1>23, MoveReadFlag, <1>0, BackValues DEF Flags
<1>24. ASSUME CheckVersion(t) PROVE Goal
  BY <1>24, MoveCheckVersion, <1>0, BackValues DEF Flags
<1>25. ASSUME Join(t) PROVE Goal
  BY <1>25, MoveJoin, <1>0, BackValues DEF Flags
<1>26. ASSUME Entry(t) PROVE Goal
  BY <1>26, MoveEntry, <1>0, BackValues DEF Flags
<1>27. ASSUME EntryWake(t) PROVE Goal
  BY <1>27, MoveEntryWake, <1>0, BackValues DEF Flags
<1>28. ASSUME Terming(t) PROVE Goal
  BY <1>28, MoveTerming, <1>0, BackValues DEF Flags
<1>29. ASSUME Cleanup(t) PROVE Goal
  BY <1>29, MoveCleanup, <1>0, BackValues DEF Flags
<1>30. ASSUME Terminate(t) PROVE Goal
  BY <1>30, MoveTerminate, <1>0, BackValues DEF Flags
<1>31. ASSUME Unflag(t) PROVE Goal
  BY <1>31, MoveUnflag, <1>0, BackValues DEF Flags
<1>32. ASSUME TimedOut(t) PROVE Goal
  BY <1>32, MoveTimedOut, <1>0, BackValues DEF Flags
<1>33. ASSUME Acquire(t) PROVE Goal
  BY <1>33, MoveAcquire, <1>0, BackValues DEF Flags
<1>34. ASSUME UserCheck(t) PROVE Goal
  BY <1>34, MoveUserCheck, <1>0, BackValues DEF Flags
<1>35. ASSUME Finish(t) PROVE Goal
  BY <1>35, MoveFinish, <1>0, BackValues DEF Flags
<1>36. ASSUME NEW w \in Threads, Invoke(t, w) PROVE Goal
  BY <1>36, MoveInvoke, <1>0, BackValues DEF Flags
<1> QED
  BY <1>1, <1>2, <1>3, <1>4, <1>5, <1>6, <1>7, <1>8, <1>9, <1>10, <1>11,
     <1>12, <1>13, <1>14, <1>15, <1>16, <1>17, <1>18, <1>19, <1>20, <1>21,
     <1>22, <1>23, <1>24, <1>25, <1>26, <1>27, <1>28, <1>29, <1>30, <1>31,
     <1>32, <1>33, <1>34, <1>35, <1>36 DEF Act, Step

\* Only three steps touch what is pending.
LEMMA OthersPending ==
    ASSUME NEW t \in Threads, Act(t), ~(Pop(t) \/ Schedule(t) \/ Cleanup(t))
    PROVE  UNCHANGED pending
BY DEF Act, Step, FutexWait, FutexInterrupted, WakeLoad, WakeClear, WakeSleepers, Mark,
       MarkExpecting, Start, Create, Starting, Abort, Check, Bump, ClearFlag, Pending,
       ReleaseOwn, Lock, LockIf, Locked, Release, Version, Flag, ReadFlag, CheckVersion, Join,
       Entry, EntryWake, Terming, Terminate, Unflag, TimedOut, Acquire, AcquireIf, UserCheck,
       Finish, Invoke

\* The types.
LEMMA TypeStep ==
    ASSUME IInv, NEW t \in Threads, Act(t) PROVE TypeInv'
<1>1. TypeInv /\ StackInv /\ StartInv
  BY DEF IInv
<1>2. frame' \in [Threads -> Frames]
  BY <1>1, FrameStep
<1>3. ASSUME NEW u \in sleepers' PROVE frame'[u].pc \in WaitPCs
  <2>1. u \in Threads
    BY <1>1, WordStep
  <2>2. CASE u = t
    BY <1>1, <1>3, <2>2, WordStep
  <2>3. CASE u # t
    <3>1. Passive(t, u)
      BY <1>1, <2>1, <2>3, Bystanders
    <3> QED BY <1>1, <1>3, <3>1 DEF Passive, TypeInv
  <2> QED BY <2>2, <2>3
<1>4. /\ t_interrupt' \in [Threads -> Seq(Nat)]
      /\ sent' \in [Threads -> Nat] /\ taken' \in [Threads -> Nat]
  <2>1. /\ t_interrupt \in [Threads -> Seq(Nat)] /\ me(t) \in Threads
        /\ sent \in [Threads -> Nat] /\ taken \in [Threads -> Nat]
    BY <1>1 DEF TypeInv, Frames
  <2>2. CASE Pop(t)
    <3>1. t_interrupt[t] \in Seq(Nat) /\ t_interrupt[t] # <<>>
      BY <1>1, <2>1, <2>2, MovePop DEF IInv, PendingInv
    <3>2. Tail(t_interrupt[t]) \in Seq(Nat) /\ Head(t_interrupt[t]) \in Nat
      BY <3>1, HeadTailProperties
    <3>3. /\ t_interrupt' = [t_interrupt EXCEPT ![t] = Tail(@)]
          /\ taken' = [taken EXCEPT ![t] = Head(t_interrupt[t])] /\ sent' = sent
      BY <1>1, <2>2, MovePop
    <3> QED BY <2>1, <3>2, <3>3
  <2>3. CASE Schedule(t)
    <3> DEFINE list == Append(t_interrupt[me(t)], sent[me(t)] + 1)
    <3>1. list \in Seq(Nat)
      BY <2>1
    <3>2. /\ \/ /\ t_interrupt' = [t_interrupt EXCEPT ![me(t)] = list]
                /\ sent' = [sent EXCEPT ![me(t)] = @ + 1]
             \/ t_interrupt' = t_interrupt /\ sent' = sent
          /\ taken' = taken
      BY <1>1, <2>3, MoveSchedule
    <3> HIDE DEF list
    <3>3. t_interrupt' \in [Threads -> Seq(Nat)]
      BY <2>1, <3>1, <3>2
    <3>4. sent' \in [Threads -> Nat] /\ taken' \in [Threads -> Nat]
      <4>1. /\ sent \in [Threads -> Nat] /\ taken \in [Threads -> Nat]
            /\ me(t) \in Threads /\ sent[me(t)] + 1 \in Nat
        BY <2>1
      <4>2. /\ sent' = [sent EXCEPT ![me(t)] = @ + 1] \/ sent' = sent
            /\ taken' = taken
        BY <3>2
      <4> QED BY <4>1, <4>2
    <3> QED BY <3>3, <3>4
  <2>4. CASE Cleanup(t)
    <3>1. <<>> \in Seq(Nat)
      OBVIOUS
    <3> QED BY <1>1, <2>1, <2>4, <3>1, MoveCleanup
  <2>5. CASE ~(Pop(t) \/ Schedule(t) \/ Cleanup(t))
    BY <2>1, <2>5, OthersPending
  <2> QED BY <2>2, <2>3, <2>4, <2>5
<1> QED BY <1>1, <1>2, <1>3, <1>4, WordStep DEF TypeInv

\* Who starts a thread starts a worker.
WorkerOK(t) == pc(t) \in {"start", "create", "abort"} \/ Within(t, "swait") => me(t) \in Workers

\* The thread that moves starts workers only.
LEMMA OwnWorker ==
    ASSUME TypeInv, StackInv, StartInv, NEW t \in Threads, Act(t)
    PROVE  WorkerOK(t)'
<1> USE DEF WorkerOK, Within, CheckPCs, WakePCs
<1>0. WorkerOK(t)
  BY DEF StartInv
<1>1. CASE FutexWait(t)
  BY <1>1, MoveFutexWait, <1>0, BackValues DEF Own, To, Home, Back1
<1>2. CASE FutexInterrupted(t)
  BY <1>2, MoveFutexInterrupted, <1>0 DEF Own, To, Home, Back1
<1>3. CASE WakeLoad(t)
  BY <1>3, MoveWakeLoad, <1>0 DEF WakeReturned, Own, To, Home, Back1
<1>4. CASE WakeClear(t)
  BY <1>4, MoveWakeClear, <1>0 DEF Own, To, Home, Back1
<1>5. CASE WakeSleepers(t)
  BY <1>5, MoveWakeSleepers, <1>0 DEF WakeReturned, Own, To, Home, Back1
<1>6. CASE Mark(t)
  BY <1>6, MoveMark, <1>0, MarkedValues DEF Own, To, Home, Back1
<1>7. CASE Start(t)
  BY <1>7, MoveStart, <1>0 DEF Own, To, Home, Back1
<1>8. CASE Create(t)
  BY <1>8, MoveCreate, <1>0 DEF Own, To, Home, Back1
<1>9. CASE Starting(t)
  BY <1>9, MoveStarting, <1>0 DEF Own, To, Home, Back1
<1>10. CASE Abort(t)
  BY <1>10, MoveAbort, <1>0 DEF Own, To, Home, Back1
<1>11. CASE Check(t)
  BY <1>11, MoveCheck, <1>0 DEF CheckReturned, Own, To, Home, Back1
<1>12. CASE Bump(t)
  BY <1>12, MoveBump, <1>0 DEF Own, To, Home, Back1
<1>13. CASE ClearFlag(t)
  BY <1>13, MoveClearFlag, <1>0 DEF Own, To, Home, Back1
<1>14. CASE Pending(t)
  BY <1>14, MovePending, <1>0 DEF Own, To, Home, Back1
<1>15. CASE Pop(t)
  BY <1>15, MovePop, <1>0 DEF Own, To, Home, Back1
<1>16. CASE ReleaseOwn(t)
  BY <1>16, MoveReleaseOwn, <1>0 DEF TermReturned, Own, To, Home, Back1
<1>17. CASE Lock(t)
  BY <1>17, MoveLock, <1>0 DEF Own, To, Home, Back1
<1>18. CASE Locked(t)
  BY <1>18, MoveLocked, <1>0 DEF Own, To, Home, Back1
<1>19. CASE Schedule(t)
  BY <1>19, MoveSchedule, <1>0 DEF Own, To, Home, Back1
<1>20. CASE Release(t)
  BY <1>20, MoveRelease, <1>0 DEF Own, To, Home, Back1
<1>21. CASE Version(t)
  BY <1>21, MoveVersion, <1>0 DEF Own, To, Home, Back1
<1>22. CASE Flag(t)
  BY <1>22, MoveFlag, <1>0 DEF Own, To, Home, Back1
<1>23. CASE ReadFlag(t)
  BY <1>23, MoveReadFlag, <1>0 DEF Own, To, Home, Back1
<1>24. CASE CheckVersion(t)
  BY <1>24, MoveCheckVersion, <1>0 DEF Own, To, Home, Back1
<1>25. CASE Join(t)
  BY <1>25, MoveJoin, <1>0 DEF Own, To, Home, Back1
<1>26. CASE Entry(t)
  BY <1>26, MoveEntry, <1>0 DEF Own, To, Home, Back1
<1>27. CASE EntryWake(t)
  BY <1>27, MoveEntryWake, <1>0 DEF Own, To, Home, Back1
<1>28. CASE Terming(t)
  BY <1>28, MoveTerming, <1>0 DEF Own, To, Home, Back1
<1>29. CASE Cleanup(t)
  BY <1>29, MoveCleanup, <1>0 DEF Own, To, Home, Back1
<1>30. CASE Terminate(t)
  BY <1>30, MoveTerminate, <1>0 DEF Own, To, Home, Back1
<1>31. CASE Unflag(t)
  BY <1>31, MoveUnflag, <1>0 DEF Own, To, Home, Back1
<1>32. CASE TimedOut(t)
  BY <1>32, MoveTimedOut, <1>0 DEF Own, To, Home, Back1
<1>33. CASE Acquire(t)
  BY <1>33, MoveAcquire, <1>0 DEF Own, To, Home, Back1
<1>34. CASE UserCheck(t)
  BY <1>34, MoveUserCheck, <1>0 DEF Own, To, Home, Back1
<1>35. CASE Finish(t)
  BY <1>35, MoveFinish, <1>0 DEF Own, To, Home, Back1
<1>36. ASSUME NEW w \in Threads, Invoke(t, w) PROVE WorkerOK(t)'
  BY <1>36, MoveInvoke, <1>0 DEF Own, To, Home, Back1
<1> QED
  BY <1>1, <1>2, <1>3, <1>4, <1>5, <1>6, <1>7, <1>8, <1>9, <1>10, <1>11,
     <1>12, <1>13, <1>14, <1>15, <1>16, <1>17, <1>18, <1>19, <1>20, <1>21,
     <1>22, <1>23, <1>24, <1>25, <1>26, <1>27, <1>28, <1>29, <1>30, <1>31,
     <1>32, <1>33, <1>34, <1>35, <1>36 DEF Act, Step

\* A step that neither takes nor gives back STARTING, nor creates a thread.
NoStart(t) == /\ \A w \in Threads : "STARTING" \in t_state'[w] <=> "STARTING" \in t_state[w]
              /\ pc(t) \notin {"new", "create", "abort"}
              /\ frame'[t].pc \notin {"new", "create", "abort"}

\* All steps but those of DeeThread_Start leave STARTING alone.
LEMMA NoStartSteps ==
    ASSUME TypeInv, StackInv, StartInv, NEW t \in Threads, Act(t),
           ~(Start(t) \/ Create(t) \/ Abort(t))
    PROVE  NoStart(t)
<1>0. t_state \in [Threads -> SUBSET Flags] /\ me(t) \in Threads /\ Waited(t) \in Threads
  BY WaitedThread DEF TypeInv, Frames
<1>1. CASE FutexWait(t)
  BY <1>1, MoveFutexWait, <1>0, BackValues DEF Own, To, Home, Back1, NoStart
<1>2. CASE FutexInterrupted(t)
  BY <1>2, MoveFutexInterrupted, <1>0 DEF Own, To, Home, Back1, NoStart
<1>3. CASE WakeLoad(t)
  BY <1>3, MoveWakeLoad, <1>0 DEF WakeReturned, Own, To, Home, Back1, NoStart
<1>4. CASE WakeClear(t)
  BY <1>4, MoveWakeClear, <1>0 DEF Own, To, Home, Back1, NoStart
<1>5. CASE WakeSleepers(t)
  BY <1>5, MoveWakeSleepers, <1>0 DEF WakeReturned, Own, To, Home, Back1, NoStart
<1>6. CASE Mark(t)
  BY <1>6, MoveMark, <1>0, MarkedValues DEF Own, To, Home, Back1, NoStart
<1>7. CASE Start(t)
  BY <1>7
<1>8. CASE Create(t)
  BY <1>8
<1>9. CASE Starting(t)
  BY <1>9, MoveStarting, <1>0 DEF Own, To, Home, Back1, NoStart
<1>10. CASE Abort(t)
  BY <1>10
<1>11. CASE Check(t)
  BY <1>11, MoveCheck, <1>0 DEF CheckReturned, Own, To, Home, Back1, NoStart
<1>12. CASE Bump(t)
  BY <1>12, MoveBump, <1>0 DEF Own, To, Home, Back1, NoStart
<1>13. CASE ClearFlag(t)
  BY <1>13, MoveClearFlag, <1>0 DEF Own, To, Home, Back1, NoStart
<1>14. CASE Pending(t)
  BY <1>14, MovePending, <1>0 DEF Own, To, Home, Back1, NoStart
<1>15. CASE Pop(t)
  BY <1>15, MovePop, <1>0 DEF Own, To, Home, Back1, NoStart
<1>16. CASE ReleaseOwn(t)
  BY <1>16, MoveReleaseOwn, <1>0 DEF TermReturned, Own, To, Home, Back1, NoStart
<1>17. CASE Lock(t)
  BY <1>17, MoveLock, <1>0 DEF Own, To, Home, Back1, NoStart
<1>18. CASE Locked(t)
  BY <1>18, MoveLocked, <1>0 DEF Own, To, Home, Back1, NoStart
<1>19. CASE Schedule(t)
  BY <1>19, MoveSchedule, <1>0 DEF Own, To, Home, Back1, NoStart
<1>20. CASE Release(t)
  BY <1>20, MoveRelease, <1>0 DEF Own, To, Home, Back1, NoStart
<1>21. CASE Version(t)
  BY <1>21, MoveVersion, <1>0 DEF Own, To, Home, Back1, NoStart
<1>22. CASE Flag(t)
  BY <1>22, MoveFlag, <1>0 DEF Own, To, Home, Back1, NoStart
<1>23. CASE ReadFlag(t)
  BY <1>23, MoveReadFlag, <1>0 DEF Own, To, Home, Back1, NoStart
<1>24. CASE CheckVersion(t)
  BY <1>24, MoveCheckVersion, <1>0 DEF Own, To, Home, Back1, NoStart
<1>25. CASE Join(t)
  BY <1>25, MoveJoin, <1>0 DEF Own, To, Home, Back1, NoStart
<1>26. CASE Entry(t)
  BY <1>26, MoveEntry, <1>0 DEF Own, To, Home, Back1, NoStart
<1>27. CASE EntryWake(t)
  BY <1>27, MoveEntryWake, <1>0 DEF Own, To, Home, Back1, NoStart
<1>28. CASE Terming(t)
  BY <1>28, MoveTerming, <1>0 DEF Own, To, Home, Back1, NoStart
<1>29. CASE Cleanup(t)
  BY <1>29, MoveCleanup, <1>0 DEF Own, To, Home, Back1, NoStart
<1>30. CASE Terminate(t)
  BY <1>30, MoveTerminate, <1>0 DEF Own, To, Home, Back1, NoStart
<1>31. CASE Unflag(t)
  BY <1>31, MoveUnflag, <1>0 DEF Own, To, Home, Back1, NoStart
<1>32. CASE TimedOut(t)
  BY <1>32, MoveTimedOut, <1>0 DEF Own, To, Home, Back1, NoStart
<1>33. CASE Acquire(t)
  BY <1>33, MoveAcquire, <1>0 DEF Own, To, Home, Back1, NoStart
<1>34. CASE UserCheck(t)
  BY <1>34, MoveUserCheck, <1>0 DEF Own, To, Home, Back1, NoStart
<1>35. CASE Finish(t)
  BY <1>35, MoveFinish, <1>0 DEF Own, To, Home, Back1, NoStart
<1>36. ASSUME NEW w \in Threads, Invoke(t, w) PROVE NoStart(t)
  BY <1>36, MoveInvoke, <1>0 DEF Own, To, Home, Back1, NoStart
<1> QED
  BY <1>1, <1>2, <1>3, <1>4, <1>5, <1>6, <1>7, <1>8, <1>9, <1>10, <1>11,
     <1>12, <1>13, <1>14, <1>15, <1>16, <1>17, <1>18, <1>19, <1>20, <1>21,
     <1>22, <1>23, <1>24, <1>25, <1>26, <1>27, <1>28, <1>29, <1>30, <1>31,
     <1>32, <1>33, <1>34, <1>35, <1>36 DEF Act, Step

\* A thread has one starter, who has set STARTING; nobody else creates it.
LEMMA StartStep ==
    ASSUME IInv, NEW t \in Threads, Act(t) PROVE StartInv'
<1>1. TypeInv /\ StackInv /\ StartInv
  BY DEF IInv
<1>2. \A u \in Threads \ {t} : Passive(t, u)
  BY <1>1, Bystanders
<1>3. ASSUME NEW u \in Threads PROVE WorkerOK(u)'
  <2>1. CASE u = t
    BY <1>1, <2>1, OwnWorker
  <2>2. CASE u # t
    BY <1>1, <1>2, <2>2, BackValues
       DEF Passive, TypeInv, StartInv, WorkerOK, Within, CheckPCs, WakePCs
  <2> QED BY <2>1, <2>2
<1> DEFINE Rest == /\ \A w \in Workers : "STARTING" \notin t_state'[w] => frame'[w].pc = "new"
                   /\ \A u, w \in Threads : Starter(u, w)' =>
                         "STARTING" \in t_state'[w] /\ frame'[w].pc = "new"
                   /\ \A u, v, w \in Threads : Starter(u, w)' /\ Starter(v, w)' => u = v
<1>4. \A u \in Threads \ {t} : frame'[u].pc # pc(u) =>
         \/ frame'[u].pc \in {"start", "starting", "join", "icheck"} /\ pc(u) \in WaitPCs
         \/ /\ pc(u) = "new" /\ frame'[u].pc = "entry"
            /\ pc(t) = "create" /\ frame'[t].pc = "starting" /\ u = me(t)
  BY <1>1, <1>2, BackValues DEF Passive, TypeInv
<1>5. \A u \in Threads \ {t} : frame'[u].me = me(u)
  BY <1>2 DEF Passive
<1>6. Workers \subseteq Threads /\ me(t) \in Threads /\ t_state \in [Threads -> SUBSET Flags]
  BY <1>1 DEF Threads, TypeInv, Frames
<1>7. ASSUME NoStart(t) PROVE Rest
  BY <1>1, <1>4, <1>5, <1>6, <1>7, BackValues DEF NoStart, StartInv, Starter
<1>8. ASSUME Start(t) PROVE Rest
  BY <1>1, <1>4, <1>5, <1>6, <1>8, BackValues, MoveStart DEF StartInv, Starter, Own, To, Home
<1>9. ASSUME Create(t) PROVE Rest
  <2>1. /\ pc(t) = "create" /\ t_state' = t_state /\ Starter(t, me(t))
        /\ frame'[t].pc \in {"starting", "abort"} /\ frame'[t].me = me(t)
    BY <1>1, <1>9, MoveCreate DEF Own, To, Starter
  <2>2. \A u, w \in Threads : Starter(u, w)' => Starter(u, w)
    BY <1>4, <1>5, <2>1, BackValues DEF Starter
  <2>3. \A u, w \in Threads : Starter(u, w)' => frame'[w].pc = "new"
    <3> SUFFICES ASSUME NEW u \in Threads, NEW w \in Threads, Starter(u, w)'
                 PROVE  frame'[w].pc = "new"
      OBVIOUS
    <3>1. Starter(u, w) /\ pc(w) = "new" /\ w # t
      BY <1>1, <2>1, <2>2 DEF StartInv
    <3>2. CASE w = me(t)
      <4>1. u = t
        BY <1>1, <1>6, <2>1, <3>1, <3>2 DEF StartInv
      <4>2. frame'[t].pc = "abort"
        BY <2>1, <4>1 DEF Starter
      <4> QED BY <1>4, <3>1, <4>2, BackValues
    <3>3. CASE w # me(t)
      BY <1>4, <3>1, <3>3, BackValues
    <3> QED BY <3>2, <3>3
  <2>4. \A w \in Workers : "STARTING" \notin t_state'[w] => frame'[w].pc = "new"
    BY <1>1, <1>4, <1>6, <2>1, BackValues DEF StartInv
  <2> QED BY <1>1, <2>1, <2>2, <2>3, <2>4 DEF StartInv
<1>10. ASSUME Abort(t) PROVE Rest
  BY <1>1, <1>4, <1>5, <1>6, <1>10, BackValues, MoveAbort DEF StartInv, Starter, Own, Back1
<1>11. Rest
  BY <1>1, <1>7, <1>8, <1>9, <1>10, NoStartSteps
<1> QED BY <1>3, <1>11 DEF StartInv, WorkerOK

\* The same for all threads but the one that moves, in terms of their places.
LEMMA OthersMove ==
    ASSUME TypeInv, StackInv, StartInv, NEW t \in Threads, Act(t), NEW u \in Threads \ {t}
    PROVE  /\ frame'[u].me = me(u) /\ frame'[u].stack = frame[u].stack
           /\ \/ frame'[u].pc = pc(u)
              \/ pc(u) \in WaitPCs /\ frame'[u].pc \in {"start", "starting", "join", "icheck"}
              \/ pc(u) = "new" /\ frame'[u].pc = "entry"
<1>1. Passive(t, u)
  BY Bystanders
<1> QED BY <1>1, BackValues DEF Passive, TypeInv

\* A step that neither takes nor lets go of a lock.
NoLock(t) ==
    /\ \A w \in Threads : "INTERRUPTING" \in t_state'[w] <=> "INTERRUPTING" \in t_state[w]
    /\ \A w \in Threads : Holds(t, w)' <=> Holds(t, w)

\* All steps but those that take or release INTERRUPTING leave it alone.
LEMMA NoLockSteps ==
    ASSUME TypeInv, StackInv, StartInv, NEW t \in Threads, Act(t),
           ~(Acquire(t) \/ Lock(t) \/ Release(t) \/ ReleaseOwn(t))
    PROVE  NoLock(t)
<1>0. t_state \in [Threads -> SUBSET Flags] /\ me(t) \in Threads /\ Waited(t) \in Threads
  BY WaitedThread DEF TypeInv, Frames
<1>1. CASE FutexWait(t)
  BY <1>1, MoveFutexWait, <1>0, BackValues DEF Own, To, Home, Back1, NoLock, Holds, HeldPCs, OwnPCs
<1>2. CASE FutexInterrupted(t)
  BY <1>2, MoveFutexInterrupted, <1>0 DEF Own, To, Home, Back1, NoLock, Holds, HeldPCs, OwnPCs
<1>3. CASE WakeLoad(t)
  BY <1>3, MoveWakeLoad, <1>0 DEF WakeReturned, Own, To, Home, Back1, NoLock, Holds, HeldPCs, OwnPCs
<1>4. CASE WakeClear(t)
  BY <1>4, MoveWakeClear, <1>0 DEF Own, To, Home, Back1, NoLock, Holds, HeldPCs, OwnPCs
<1>5. CASE WakeSleepers(t)
  BY <1>5, MoveWakeSleepers, <1>0 DEF WakeReturned, Own, To, Home, Back1, NoLock, Holds, HeldPCs, OwnPCs
<1>6. CASE Mark(t)
  BY <1>6, MoveMark, <1>0, MarkedValues DEF Own, To, Home, Back1, NoLock, Holds, HeldPCs, OwnPCs
<1>7. CASE Start(t)
  BY <1>7, MoveStart, <1>0 DEF Own, To, Home, Back1, NoLock, Holds, HeldPCs, OwnPCs
<1>8. CASE Create(t)
  BY <1>8, MoveCreate, <1>0 DEF Own, To, Home, Back1, NoLock, Holds, HeldPCs, OwnPCs
<1>9. CASE Starting(t)
  BY <1>9, MoveStarting, <1>0 DEF Own, To, Home, Back1, NoLock, Holds, HeldPCs, OwnPCs
<1>10. CASE Abort(t)
  BY <1>10, MoveAbort, <1>0 DEF Own, To, Home, Back1, NoLock, Holds, HeldPCs, OwnPCs
<1>11. CASE Check(t)
  BY <1>11, MoveCheck, <1>0 DEF CheckReturned, Own, To, Home, Back1, NoLock, Holds, HeldPCs, OwnPCs
<1>12. CASE Bump(t)
  BY <1>12, MoveBump, <1>0 DEF Own, To, Home, Back1, NoLock, Holds, HeldPCs, OwnPCs
<1>13. CASE ClearFlag(t)
  BY <1>13, MoveClearFlag, <1>0 DEF Own, To, Home, Back1, NoLock, Holds, HeldPCs, OwnPCs
<1>14. CASE Pending(t)
  BY <1>14, MovePending, <1>0 DEF Own, To, Home, Back1, NoLock, Holds, HeldPCs, OwnPCs
<1>15. CASE Pop(t)
  BY <1>15, MovePop, <1>0 DEF Own, To, Home, Back1, NoLock, Holds, HeldPCs, OwnPCs
<1>16. CASE ReleaseOwn(t)
  BY <1>16
<1>17. CASE Lock(t)
  BY <1>17
<1>18. CASE Locked(t)
  BY <1>18, MoveLocked, <1>0 DEF Own, To, Home, Back1, NoLock, Holds, HeldPCs, OwnPCs
<1>19. CASE Schedule(t)
  BY <1>19, MoveSchedule, <1>0 DEF Own, To, Home, Back1, NoLock, Holds, HeldPCs, OwnPCs
<1>20. CASE Release(t)
  BY <1>20
<1>21. CASE Version(t)
  BY <1>21, MoveVersion, <1>0 DEF Own, To, Home, Back1, NoLock, Holds, HeldPCs, OwnPCs
<1>22. CASE Flag(t)
  BY <1>22, MoveFlag, <1>0 DEF Own, To, Home, Back1, NoLock, Holds, HeldPCs, OwnPCs
<1>23. CASE ReadFlag(t)
  BY <1>23, MoveReadFlag, <1>0 DEF Own, To, Home, Back1, NoLock, Holds, HeldPCs, OwnPCs
<1>24. CASE CheckVersion(t)
  BY <1>24, MoveCheckVersion, <1>0 DEF Own, To, Home, Back1, NoLock, Holds, HeldPCs, OwnPCs
<1>25. CASE Join(t)
  BY <1>25, MoveJoin, <1>0 DEF Own, To, Home, Back1, NoLock, Holds, HeldPCs, OwnPCs
<1>26. CASE Entry(t)
  BY <1>26, MoveEntry, <1>0 DEF Own, To, Home, Back1, NoLock, Holds, HeldPCs, OwnPCs
<1>27. CASE EntryWake(t)
  BY <1>27, MoveEntryWake, <1>0 DEF Own, To, Home, Back1, NoLock, Holds, HeldPCs, OwnPCs
<1>28. CASE Terming(t)
  BY <1>28, MoveTerming, <1>0 DEF Own, To, Home, Back1, NoLock, Holds, HeldPCs, OwnPCs
<1>29. CASE Cleanup(t)
  BY <1>29, MoveCleanup, <1>0 DEF Own, To, Home, Back1, NoLock, Holds, HeldPCs, OwnPCs
<1>30. CASE Terminate(t)
  BY <1>30, MoveTerminate, <1>0 DEF Own, To, Home, Back1, NoLock, Holds, HeldPCs, OwnPCs
<1>31. CASE Unflag(t)
  BY <1>31, MoveUnflag, <1>0 DEF Own, To, Home, Back1, NoLock, Holds, HeldPCs, OwnPCs
<1>32. CASE TimedOut(t)
  BY <1>32, MoveTimedOut, <1>0 DEF Own, To, Home, Back1, NoLock, Holds, HeldPCs, OwnPCs
<1>33. CASE Acquire(t)
  BY <1>33
<1>34. CASE UserCheck(t)
  BY <1>34, MoveUserCheck, <1>0 DEF Own, To, Home, Back1, NoLock, Holds, HeldPCs, OwnPCs
<1>35. CASE Finish(t)
  BY <1>35, MoveFinish, <1>0 DEF Own, To, Home, Back1, NoLock, Holds, HeldPCs, OwnPCs
<1>36. ASSUME NEW w \in Threads, Invoke(t, w) PROVE NoLock(t)
  BY <1>36, MoveInvoke, <1>0 DEF Own, To, Home, Back1, NoLock, Holds, HeldPCs, OwnPCs
<1> QED
  BY <1>1, <1>2, <1>3, <1>4, <1>5, <1>6, <1>7, <1>8, <1>9, <1>10, <1>11,
     <1>12, <1>13, <1>14, <1>15, <1>16, <1>17, <1>18, <1>19, <1>20, <1>21,
     <1>22, <1>23, <1>24, <1>25, <1>26, <1>27, <1>28, <1>29, <1>30, <1>31,
     <1>32, <1>33, <1>34, <1>35, <1>36 DEF Act, Step

\* INTERRUPTING stays a lock: it is taken only when nobody has it, and let go of only by
\* the one who has it.
LEMMA LockStep ==
    ASSUME IInv, NEW t \in Threads, Act(t) PROVE LockInv'
<1>1. TypeInv /\ StackInv /\ StartInv /\ LockInv
  BY DEF IInv
<1>2. t_state \in [Threads -> SUBSET Flags] /\ me(t) \in Threads
  BY <1>1 DEF TypeInv, Frames
<1>3. \A u \in Threads \ {t}, w \in Threads : Holds(u, w)' <=> Holds(u, w)
  BY <1>1, OthersMove, BackValues DEF Holds, HeldPCs, OwnPCs
<1> DEFINE Takes(w) == /\ "INTERRUPTING" \notin t_state[w]
                       /\ t_state' = [t_state EXCEPT ![w] = @ \cup {"INTERRUPTING"}]
                       /\ \A v \in Threads : ~Holds(t, v) /\ (Holds(t, v)' <=> v = w)
           Drops(w) == /\ t_state' = [t_state EXCEPT ![w] = @ \ {"INTERRUPTING"}]
                       /\ Holds(t, w)
                       /\ \A v \in Threads : Holds(t, v) => v = w
                       /\ \A v \in Threads : ~Holds(t, v)'
<1>4. CASE NoLock(t)
  BY <1>1, <1>3, <1>4 DEF NoLock, LockInv
<1>5. ASSUME NEW w \in Threads, Takes(w) PROVE LockInv'
  BY <1>1, <1>2, <1>3, <1>5 DEF LockInv
<1>6. ASSUME NEW w \in Threads, Drops(w) PROVE LockInv'
  BY <1>1, <1>2, <1>3, <1>6 DEF LockInv
<1>7. CASE Acquire(t)
  <2>1. Takes(t)
    BY <1>1, <1>7, MoveAcquire DEF Own, To, Holds, HeldPCs, OwnPCs
  <2> QED BY <1>5, <2>1
<1>8. CASE Lock(t)
  <2>1. Takes(me(t)) \/ NoLock(t)
    BY <1>1, <1>8, MoveLock DEF Own, To, Home, Holds, HeldPCs, OwnPCs, NoLock
  <2> QED BY <1>2, <1>4, <1>5, <2>1
<1>9. CASE ReleaseOwn(t)
  <2>1. Drops(t)
    BY <1>1, <1>9, MoveReleaseOwn DEF TermReturned, Own, To, Home, Back1, Holds, HeldPCs, OwnPCs
  <2> QED BY <1>6, <2>1
<1>10. CASE Release(t)
  <2>1. Drops(me(t))
    BY <1>1, <1>10, MoveRelease DEF Own, To, Home, Back1, Holds, HeldPCs, OwnPCs
  <2> QED BY <1>2, <1>6, <2>1
<1> QED BY <1>1, <1>4, <1>7, <1>8, <1>9, <1>10, NoLockSteps

\* What a step does to TERMINATING and TERMINATED: each is set by the thread itself, at
\* its place, and never cleared.
TermFlags(t) ==
    /\ \A w \in Threads : "TERMINATING" \in t_state'[w] <=>
                          "TERMINATING" \in t_state[w] \/ (w = t /\ pc(t) = "terming")
    /\ \A w \in Threads : "TERMINATED" \in t_state'[w] <=>
                          "TERMINATED" \in t_state[w] \/ (w = t /\ pc(t) = "terminated")

\* Every step does that to the two flags.
LEMMA TermFlagSteps ==
    ASSUME TypeInv, StackInv, StartInv, NEW t \in Threads, Act(t)
    PROVE  TermFlags(t)
<1>0. t_state \in [Threads -> SUBSET Flags] /\ me(t) \in Threads /\ Waited(t) \in Threads
  BY WaitedThread DEF TypeInv, Frames
<1>1. CASE FutexWait(t)
  BY <1>1, MoveFutexWait, <1>0, BackValues DEF TermFlags
<1>2. CASE FutexInterrupted(t)
  BY <1>2, MoveFutexInterrupted, <1>0 DEF TermFlags
<1>3. CASE WakeLoad(t)
  BY <1>3, MoveWakeLoad, <1>0 DEF WakeReturned, TermFlags
<1>4. CASE WakeClear(t)
  BY <1>4, MoveWakeClear, <1>0 DEF TermFlags
<1>5. CASE WakeSleepers(t)
  BY <1>5, MoveWakeSleepers, <1>0 DEF WakeReturned, TermFlags
<1>6. CASE Mark(t)
  <2>1. /\ pc(t) \in {"tmark", "jmark", "imark"}
        /\ t_state' = [t_state EXCEPT ![me(t)] = @ \cup {"WAITING"}]
    BY <1>6, MoveMark
  <2> QED BY <1>0, <2>1 DEF TermFlags
<1>7. CASE Start(t)
  BY <1>7, MoveStart, <1>0 DEF TermFlags
<1>8. CASE Create(t)
  BY <1>8, MoveCreate, <1>0 DEF TermFlags
<1>9. CASE Starting(t)
  BY <1>9, MoveStarting, <1>0 DEF TermFlags
<1>10. CASE Abort(t)
  BY <1>10, MoveAbort, <1>0 DEF TermFlags
<1>11. CASE Check(t)
  BY <1>11, MoveCheck, <1>0 DEF CheckReturned, TermFlags
<1>12. CASE Bump(t)
  BY <1>12, MoveBump, <1>0 DEF TermFlags
<1>13. CASE ClearFlag(t)
  BY <1>13, MoveClearFlag, <1>0 DEF TermFlags
<1>14. CASE Pending(t)
  BY <1>14, MovePending, <1>0 DEF TermFlags
<1>15. CASE Pop(t)
  BY <1>15, MovePop, <1>0 DEF TermFlags
<1>16. CASE ReleaseOwn(t)
  BY <1>16, MoveReleaseOwn, <1>0 DEF TermFlags
<1>17. CASE Lock(t)
  BY <1>17, MoveLock, <1>0 DEF TermFlags
<1>18. CASE Locked(t)
  BY <1>18, MoveLocked, <1>0 DEF TermFlags
<1>19. CASE Schedule(t)
  BY <1>19, MoveSchedule, <1>0 DEF TermFlags
<1>20. CASE Release(t)
  BY <1>20, MoveRelease, <1>0 DEF TermFlags
<1>21. CASE Version(t)
  BY <1>21, MoveVersion, <1>0 DEF TermFlags
<1>22. CASE Flag(t)
  BY <1>22, MoveFlag, <1>0 DEF TermFlags
<1>23. CASE ReadFlag(t)
  BY <1>23, MoveReadFlag, <1>0 DEF TermFlags
<1>24. CASE CheckVersion(t)
  BY <1>24, MoveCheckVersion, <1>0 DEF TermFlags
<1>25. CASE Join(t)
  BY <1>25, MoveJoin, <1>0 DEF TermFlags
<1>26. CASE Entry(t)
  BY <1>26, MoveEntry, <1>0 DEF TermFlags
<1>27. CASE EntryWake(t)
  BY <1>27, MoveEntryWake, <1>0 DEF TermFlags
<1>28. CASE Terming(t)
  BY <1>28, MoveTerming, <1>0 DEF TermFlags
<1>29. CASE Cleanup(t)
  BY <1>29, MoveCleanup, <1>0 DEF TermFlags
<1>30. CASE Terminate(t)
  BY <1>30, MoveTerminate, <1>0 DEF TermFlags
<1>31. CASE Unflag(t)
  BY <1>31, MoveUnflag, <1>0 DEF TermFlags
<1>32. CASE TimedOut(t)
  BY <1>32, MoveTimedOut, <1>0 DEF TermFlags
<1>33. CASE Acquire(t)
  BY <1>33, MoveAcquire, <1>0 DEF TermFlags
<1>34. CASE UserCheck(t)
  BY <1>34, MoveUserCheck, <1>0 DEF TermFlags
<1>35. CASE Finish(t)
  BY <1>35, MoveFinish, <1>0 DEF TermFlags
<1>36. ASSUME NEW w \in Threads, Invoke(t, w) PROVE TermFlags(t)
  BY <1>36, MoveInvoke, <1>0 DEF TermFlags
<1> QED
  BY <1>1, <1>2, <1>3, <1>4, <1>5, <1>6, <1>7, <1>8, <1>9, <1>10, <1>11,
     <1>12, <1>13, <1>14, <1>15, <1>16, <1>17, <1>18, <1>19, <1>20, <1>21,
     <1>22, <1>23, <1>24, <1>25, <1>26, <1>27, <1>28, <1>29, <1>30, <1>31,
     <1>32, <1>33, <1>34, <1>35, <1>36 DEF Act, Step

\* What TermInv says of one thread.
TermOK(t) ==
    /\ "TERMINATING" \in t_state[me(t)] => pc(t) \notin HeldPCs \ {"refuse"}
    /\ Ending(t) => "TERMINATING" \in t_state[t]
    /\ "TERMINATED" \in t_state[t] =>
          \/ pc(t) \in {"unflag", "gone"}
          \/ pc(t) \in WakePCs /\ frame[t].stack = <<"gone">>

\* The thread that moves is where TermInv says it is.
LEMMA OwnTerm ==
    ASSUME TypeInv, StackInv, StartInv, TermInv, NEW t \in Threads, Act(t)
    PROVE  TermOK(t)'
<1>0. TermOK(t) /\ TermFlags(t) /\ me(t) \in Threads
  BY TermFlagSteps DEF TermInv, TermOK, TypeInv, Frames
<1> USE DEF TermOK, TermFlags, Ending, HeldPCs, CheckPCs, WakePCs
<1>1. CASE FutexWait(t)
  BY <1>1, MoveFutexWait, <1>0, BackValues DEF Own, To, Home, Back1
<1>2. CASE FutexInterrupted(t)
  BY <1>2, MoveFutexInterrupted, <1>0 DEF Own, To, Home, Back1
<1>3. CASE WakeLoad(t)
  <2>1. pc(t) = "wakeload" /\ (WakeReturned(t) \/ To(t, "wakeclear"))
    BY <1>3, MoveWakeLoad
  <2>2. CASE frame[t].stack = <<"gone">>
    <3>1. (pc(t)' = "gone" /\ me(t)' = me(t)) \/ To(t, "wakeclear")
      BY <2>1, <2>2, StackValues DEF WakeReturned, Own, Back1
    <3> QED BY <1>0, <2>1, <2>2, <3>1 DEF To, Own
  <2>3. CASE frame[t].stack # <<"gone">>
    <3>1. "TERMINATED" \notin t_state'[t] /\ ("TERMINATING" \in t_state[me(t)] <=>
                                             "TERMINATING" \in t_state'[me(t)])
      BY <1>0, <2>1, <2>3
    <3>2. ASSUME NEW l \in {"run", "main", "cleanup", "lock", "swait", "jwait"},
                 frame[t].stack = <<"pending", l>>, Back1(t, "pending", <<l>>)
          PROVE  TermOK(t)'
      <4>1. Ending(t)' => l = "cleanup"
        BY <3>2, StackValues DEF Back1, Own
      <4>2. l = "cleanup" => "TERMINATING" \in t_state[t]
        BY <1>0, <2>1, <3>2
      <4> QED BY <1>0, <3>1, <3>2, <4>1, <4>2 DEF Back1, Own
    <3>3. ASSUME Home(t) PROVE TermOK(t)'
      BY <3>1, <3>3 DEF Home, Own
    <3> QED BY <1>0, <2>1, <2>3, <3>1, <3>2, <3>3 DEF WakeReturned, Own, To
  <2> QED BY <2>2, <2>3
<1>4. CASE WakeClear(t)
  BY <1>4, MoveWakeClear, <1>0 DEF Own, To, Home, Back1
<1>5. CASE WakeSleepers(t)
  <2>1. pc(t) = "wakeall" /\ (WakeReturned(t))
    BY <1>5, MoveWakeSleepers
  <2>2. CASE frame[t].stack = <<"gone">>
    <3>1. (pc(t)' = "gone" /\ me(t)' = me(t))
      BY <2>1, <2>2, StackValues DEF WakeReturned, Own, Back1
    <3> QED BY <1>0, <2>1, <2>2, <3>1 DEF To, Own
  <2>3. CASE frame[t].stack # <<"gone">>
    <3>1. "TERMINATED" \notin t_state'[t] /\ ("TERMINATING" \in t_state[me(t)] <=>
                                             "TERMINATING" \in t_state'[me(t)])
      BY <1>0, <2>1, <2>3
    <3>2. ASSUME NEW l \in {"run", "main", "cleanup", "lock", "swait", "jwait"},
                 frame[t].stack = <<"pending", l>>, Back1(t, "pending", <<l>>)
          PROVE  TermOK(t)'
      <4>1. Ending(t)' => l = "cleanup"
        BY <3>2, StackValues DEF Back1, Own
      <4>2. l = "cleanup" => "TERMINATING" \in t_state[t]
        BY <1>0, <2>1, <3>2
      <4> QED BY <1>0, <3>1, <3>2, <4>1, <4>2 DEF Back1, Own
    <3>3. ASSUME Home(t) PROVE TermOK(t)'
      BY <3>1, <3>3 DEF Home, Own
    <3> QED BY <1>0, <2>1, <2>3, <3>1, <3>2, <3>3 DEF WakeReturned, Own, To
  <2> QED BY <2>2, <2>3
<1>6. CASE Mark(t)
  BY <1>6, MoveMark, <1>0, MarkedValues DEF Own, To, Home, Back1
<1>7. CASE Start(t)
  BY <1>7, MoveStart, <1>0 DEF Own, To, Home, Back1
<1>8. CASE Create(t)
  BY <1>8, MoveCreate, <1>0 DEF Own, To, Home, Back1
<1>9. CASE Starting(t)
  BY <1>9, MoveStarting, <1>0 DEF Own, To, Home, Back1
<1>10. CASE Abort(t)
  BY <1>10, MoveAbort, <1>0 DEF Own, To, Home, Back1
<1>11. CASE Check(t)
  BY <1>11, MoveCheck, <1>0 DEF CheckReturned, Own, To, Home, Back1
<1>12. CASE Bump(t)
  BY <1>12, MoveBump, <1>0 DEF Own, To, Home, Back1
<1>13. CASE ClearFlag(t)
  BY <1>13, MoveClearFlag, <1>0 DEF Own, To, Home, Back1
<1>14. CASE Pending(t)
  BY <1>14, MovePending, <1>0 DEF Own, To, Home, Back1
<1>15. CASE Pop(t)
  BY <1>15, MovePop, <1>0 DEF Own, To, Home, Back1
<1>16. CASE ReleaseOwn(t)
  BY <1>16, MoveReleaseOwn, <1>0 DEF TermReturned, Own, To, Home, Back1
<1>17. CASE Lock(t)
  BY <1>17, MoveLock, <1>0 DEF Own, To, Home, Back1
<1>18. CASE Locked(t)
  BY <1>18, MoveLocked, <1>0 DEF Own, To, Home, Back1
<1>19. CASE Schedule(t)
  BY <1>19, MoveSchedule, <1>0 DEF Own, To, Home, Back1
<1>20. CASE Release(t)
  BY <1>20, MoveRelease, <1>0 DEF Own, To, Home, Back1
<1>21. CASE Version(t)
  BY <1>21, MoveVersion, <1>0 DEF Own, To, Home, Back1
<1>22. CASE Flag(t)
  BY <1>22, MoveFlag, <1>0 DEF Own, To, Home, Back1
<1>23. CASE ReadFlag(t)
  BY <1>23, MoveReadFlag, <1>0 DEF Own, To, Home, Back1
<1>24. CASE CheckVersion(t)
  BY <1>24, MoveCheckVersion, <1>0 DEF Own, To, Home, Back1
<1>25. CASE Join(t)
  BY <1>25, MoveJoin, <1>0 DEF Own, To, Home, Back1
<1>26. CASE Entry(t)
  BY <1>26, MoveEntry, <1>0 DEF Own, To, Home, Back1
<1>27. CASE EntryWake(t)
  BY <1>27, MoveEntryWake, <1>0 DEF Own, To, Home, Back1
<1>28. CASE Terming(t)
  BY <1>28, MoveTerming, <1>0 DEF Own, To, Home, Back1
<1>29. CASE Cleanup(t)
  BY <1>29, MoveCleanup, <1>0 DEF Own, To, Home, Back1
<1>30. CASE Terminate(t)
  BY <1>30, MoveTerminate, <1>0 DEF Own, To, Home, Back1
<1>31. CASE Unflag(t)
  BY <1>31, MoveUnflag, <1>0 DEF Own, To, Home, Back1
<1>32. CASE TimedOut(t)
  BY <1>32, MoveTimedOut, <1>0 DEF Own, To, Home, Back1
<1>33. CASE Acquire(t)
  BY <1>33, MoveAcquire, <1>0 DEF Own, To, Home, Back1
<1>34. CASE UserCheck(t)
  BY <1>34, MoveUserCheck, <1>0 DEF Own, To, Home, Back1
<1>35. CASE Finish(t)
  BY <1>35, MoveFinish, <1>0 DEF Own, To, Home, Back1
<1>36. ASSUME NEW w \in Threads, Invoke(t, w) PROVE TermOK(t)'
  BY <1>36, MoveInvoke, <1>0 DEF Own, To, Home, Back1
<1> QED
  BY <1>1, <1>2, <1>3, <1>4, <1>5, <1>6, <1>7, <1>8, <1>9, <1>10, <1>11,
     <1>12, <1>13, <1>14, <1>15, <1>16, <1>17, <1>18, <1>19, <1>20, <1>21,
     <1>22, <1>23, <1>24, <1>25, <1>26, <1>27, <1>28, <1>29, <1>30, <1>31,
     <1>32, <1>33, <1>34, <1>35, <1>36 DEF Act, Step

\* Nobody but the holder of its lock is about to add an interrupt to a thread, so none is
\* when the thread, which holds it, sets TERMINATING.
LEMMA TermStep ==
    ASSUME IInv, NEW t \in Threads, Act(t) PROVE TermInv'
<1>1. TypeInv /\ StackInv /\ StartInv /\ LockInv /\ TermInv
  BY DEF IInv
<1>2. TermFlags(t) /\ TermOK(t)'
  BY <1>1, TermFlagSteps, OwnTerm
<1>3. ASSUME NEW u \in Threads \ {t} PROVE TermOK(u)'
  <2>1. /\ frame'[u].me = me(u) /\ frame'[u].stack = frame[u].stack
        /\ \/ frame'[u].pc = pc(u)
           \/ pc(u) \in WaitPCs /\ frame'[u].pc \in {"start", "starting", "join", "icheck"}
           \/ pc(u) = "new" /\ frame'[u].pc = "entry"
    BY <1>1, OthersMove
  <2>2. TermOK(u) /\ me(u) \in Threads
    BY <1>1 DEF TermInv, TermOK, TypeInv, Frames
  <2>3. pc(t) = "terming" /\ me(u) = t => pc(u) \notin HeldPCs
    BY <1>1, <1>3 DEF LockInv, Holds, OwnPCs
  <2>4. "TERMINATING" \in t_state'[me(u)] => pc(u) \notin HeldPCs \ {"refuse"}
    BY <1>2, <2>2, <2>3 DEF TermFlags, TermOK
  <2>5. "TERMINATING" \in t_state'[frame'[u].me] => frame'[u].pc \notin HeldPCs \ {"refuse"}
    BY <2>1, <2>4 DEF HeldPCs
  <2>6. Ending(u)' => "TERMINATING" \in t_state'[u]
    BY <1>2, <1>3, <2>1, <2>2 DEF TermFlags, TermOK, Ending, CheckPCs, WakePCs
  <2>7. "TERMINATED" \in t_state'[u] => frame'[u].pc = pc(u) /\ "TERMINATED" \in t_state[u]
    BY <1>2, <1>3, <2>1, <2>2, BackValues DEF TermFlags, TermOK, WakePCs
  <2> QED BY <2>1, <2>2, <2>5, <2>6, <2>7 DEF TermOK
<1> QED BY <1>2, <1>3 DEF TermInv, TermOK

-----------------------------------------------------------------------------
(* What is pending *)

\* The interrupts from a + 1 to b: one more, one less, none.
LEMMA NumbersMore ==
    ASSUME NEW a \in Nat, NEW b \in Nat, a <= b
    PROVE  Append(Numbers(a, b), b + 1) = Numbers(a, b + 1)
<1> DEFINE s == Numbers(a, b)
           n == b - a
<1>1. n \in Nat /\ b + 1 - a = n + 1 /\ a + (n + 1) = b + 1
  OBVIOUS
<1>2. s \in Seq(Nat) /\ Len(s) = n /\ \A i \in 1 .. n : s[i] = a + i
  <2>1. s = [i \in 1 .. n |-> a + i] /\ \A i \in 1 .. n : a + i \in Nat
    BY DEF Numbers
  <2> HIDE DEF s, n
  <2> QED BY <1>1, <2>1
<1>3. Numbers(a, b + 1) = [i \in 1 .. n + 1 |-> a + i]
  BY <1>1 DEF Numbers
<1> HIDE DEF s, n
<1>4. Append(s, b + 1) = [i \in 1 .. n + 1 |-> IF i \in 1 .. n THEN s[i] ELSE b + 1]
  BY <1>1, <1>2
<1>5. \A i \in 1 .. n + 1 : (IF i \in 1 .. n THEN s[i] ELSE b + 1) = a + i
  <2> SUFFICES ASSUME NEW i \in 1 .. n + 1
               PROVE  (IF i \in 1 .. n THEN s[i] ELSE b + 1) = a + i
    OBVIOUS
  <2>1. i \in 1 .. n \/ i = n + 1
    BY <1>1
  <2> QED BY <1>1, <1>2, <2>1
<1>6. Append(s, b + 1) = Numbers(a, b + 1)
  BY <1>3, <1>4, <1>5
<1> QED BY <1>6 DEF s

\* The first and the rest of the interrupts that are pending, if there are any.
LEMMA NumbersLess ==
    ASSUME NEW a \in Nat, NEW b \in Nat, a <= b, Numbers(a, b) # <<>>
    PROVE  /\ a + 1 <= b /\ Head(Numbers(a, b)) = a + 1
           /\ Tail(Numbers(a, b)) = Numbers(a + 1, b)
           /\ Len(Numbers(a, b)) = b - a
<1> DEFINE s == Numbers(a, b)
           n == b - a
<1>1. n \in Nat /\ b - (a + 1) = n - 1
  OBVIOUS
<1>2. s \in Seq(Nat) /\ Len(s) = n /\ \A i \in 1 .. n : s[i] = a + i
  <2>1. s = [i \in 1 .. n |-> a + i] /\ \A i \in 1 .. n : a + i \in Nat
    BY DEF Numbers
  <2> HIDE DEF s, n
  <2> QED BY <1>1, <2>1
<1>3. n # 0
  <2> HIDE DEF s, n
  <2>1. s # <<>>
    BY DEF s
  <2> QED BY <1>2, <2>1, EmptySeq
<1>4. a + 1 <= b
  BY <1>1, <1>3
<1>5. Numbers(a + 1, b) = [i \in 1 .. n - 1 |-> a + 1 + i]
  BY <1>1 DEF Numbers
<1> HIDE DEF s, n
<1>6. Head(s) = a + 1
  BY <1>1, <1>2, <1>3
<1>7. /\ Tail(s) \in Seq(Nat) /\ Len(Tail(s)) = n - 1
      /\ \A i \in 1 .. n - 1 : Tail(s)[i] = s[i + 1]
  <2>1. s # <<>>
    BY DEF s
  <2> QED BY <1>2, <2>1, HeadTailProperties
<1>8. \A i \in 1 .. n - 1 : s[i + 1] = a + 1 + i
  <2> SUFFICES ASSUME NEW i \in 1 .. n - 1 PROVE s[i + 1] = a + 1 + i
    OBVIOUS
  <2>1. i + 1 \in 1 .. n /\ a + (i + 1) = a + 1 + i
    BY <1>1
  <2> QED BY <1>2, <2>1
<1>9. Tail(s) = Numbers(a + 1, b)
  <2> DEFINE r == Numbers(a + 1, b)
  <2>1. n - 1 \in Nat /\ \A i \in 1 .. n - 1 : a + 1 + i \in Nat
    BY <1>1, <1>3
  <2>2. r \in Seq(Nat) /\ Len(r) = n - 1 /\ \A i \in 1 .. n - 1 : r[i] = a + 1 + i
    <3> HIDE DEF r
    <3>1. r = [i \in 1 .. n - 1 |-> a + 1 + i]
      BY <1>5 DEF r
    <3> QED BY <2>1, <3>1
  <2> HIDE DEF r
  <2>3. Tail(s) = r
    BY <1>7, <1>8, <2>1, <2>2, SeqEqual
  <2> QED BY <2>3 DEF r
<1> QED BY <1>2, <1>4, <1>6, <1>9 DEF s, n

\* How a thread gets to the places at which PendingInv says something of it.
Arrive(t) ==
    /\ frame'[t].pc \in {"acquire", "pop"} =>
          /\ UNCHANGED pending
          /\ \/ pc(t) = "pending" /\ t_interrupt[t] # <<>>
             \/ pc(t) = "acquire"
    /\ frame'[t].pc = "terminated" => t_interrupt'[t] = <<>>

\* Every step that leads to one of these places establishes what is said of it.
LEMMA ArriveSteps ==
    ASSUME TypeInv, StackInv, StartInv, NEW t \in Threads, Act(t)
    PROVE  Arrive(t)
<1>0. t_interrupt \in [Threads -> Seq(Nat)]
  BY DEF TypeInv
<1>1. CASE FutexWait(t)
  BY <1>1, MoveFutexWait, <1>0, BackValues DEF Own, To, Home, Back1, Arrive, pending
<1>2. CASE FutexInterrupted(t)
  BY <1>2, MoveFutexInterrupted, <1>0 DEF Own, To, Home, Back1, Arrive, pending
<1>3. CASE WakeLoad(t)
  BY <1>3, MoveWakeLoad, <1>0 DEF WakeReturned, Own, To, Home, Back1, Arrive, pending
<1>4. CASE WakeClear(t)
  BY <1>4, MoveWakeClear, <1>0 DEF Own, To, Home, Back1, Arrive, pending
<1>5. CASE WakeSleepers(t)
  BY <1>5, MoveWakeSleepers, <1>0 DEF WakeReturned, Own, To, Home, Back1, Arrive, pending
<1>6. CASE Mark(t)
  BY <1>6, MoveMark, <1>0, MarkedValues DEF Own, To, Home, Back1, Arrive, pending
<1>7. CASE Start(t)
  BY <1>7, MoveStart, <1>0 DEF Own, To, Home, Back1, Arrive, pending
<1>8. CASE Create(t)
  BY <1>8, MoveCreate, <1>0 DEF Own, To, Home, Back1, Arrive, pending
<1>9. CASE Starting(t)
  BY <1>9, MoveStarting, <1>0 DEF Own, To, Home, Back1, Arrive, pending
<1>10. CASE Abort(t)
  BY <1>10, MoveAbort, <1>0 DEF Own, To, Home, Back1, Arrive, pending
<1>11. CASE Check(t)
  BY <1>11, MoveCheck, <1>0 DEF CheckReturned, Own, To, Home, Back1, Arrive, pending
<1>12. CASE Bump(t)
  BY <1>12, MoveBump, <1>0 DEF Own, To, Home, Back1, Arrive, pending
<1>13. CASE ClearFlag(t)
  BY <1>13, MoveClearFlag, <1>0 DEF Own, To, Home, Back1, Arrive, pending
<1>14. CASE Pending(t)
  BY <1>14, MovePending, <1>0 DEF Own, To, Home, Back1, Arrive, pending
<1>15. CASE Pop(t)
  BY <1>15, MovePop, <1>0 DEF Own, To, Home, Back1, Arrive, pending
<1>16. CASE ReleaseOwn(t)
  BY <1>16, MoveReleaseOwn, <1>0 DEF TermReturned, Own, To, Home, Back1, Arrive, pending
<1>17. CASE Lock(t)
  BY <1>17, MoveLock, <1>0 DEF Own, To, Home, Back1, Arrive, pending
<1>18. CASE Locked(t)
  BY <1>18, MoveLocked, <1>0 DEF Own, To, Home, Back1, Arrive, pending
<1>19. CASE Schedule(t)
  BY <1>19, MoveSchedule, <1>0 DEF Own, To, Home, Back1, Arrive, pending
<1>20. CASE Release(t)
  BY <1>20, MoveRelease, <1>0 DEF Own, To, Home, Back1, Arrive, pending
<1>21. CASE Version(t)
  BY <1>21, MoveVersion, <1>0 DEF Own, To, Home, Back1, Arrive, pending
<1>22. CASE Flag(t)
  BY <1>22, MoveFlag, <1>0 DEF Own, To, Home, Back1, Arrive, pending
<1>23. CASE ReadFlag(t)
  BY <1>23, MoveReadFlag, <1>0 DEF Own, To, Home, Back1, Arrive, pending
<1>24. CASE CheckVersion(t)
  BY <1>24, MoveCheckVersion, <1>0 DEF Own, To, Home, Back1, Arrive, pending
<1>25. CASE Join(t)
  BY <1>25, MoveJoin, <1>0 DEF Own, To, Home, Back1, Arrive, pending
<1>26. CASE Entry(t)
  BY <1>26, MoveEntry, <1>0 DEF Own, To, Home, Back1, Arrive, pending
<1>27. CASE EntryWake(t)
  BY <1>27, MoveEntryWake, <1>0 DEF Own, To, Home, Back1, Arrive, pending
<1>28. CASE Terming(t)
  BY <1>28, MoveTerming, <1>0 DEF Own, To, Home, Back1, Arrive, pending
<1>29. CASE Cleanup(t)
  BY <1>29, MoveCleanup, <1>0 DEF Own, To, Home, Back1, Arrive, pending
<1>30. CASE Terminate(t)
  BY <1>30, MoveTerminate, <1>0 DEF Own, To, Home, Back1, Arrive, pending
<1>31. CASE Unflag(t)
  BY <1>31, MoveUnflag, <1>0 DEF Own, To, Home, Back1, Arrive, pending
<1>32. CASE TimedOut(t)
  BY <1>32, MoveTimedOut, <1>0 DEF Own, To, Home, Back1, Arrive, pending
<1>33. CASE Acquire(t)
  BY <1>33, MoveAcquire, <1>0 DEF Own, To, Home, Back1, Arrive, pending
<1>34. CASE UserCheck(t)
  BY <1>34, MoveUserCheck, <1>0 DEF Own, To, Home, Back1, Arrive, pending
<1>35. CASE Finish(t)
  BY <1>35, MoveFinish, <1>0 DEF Own, To, Home, Back1, Arrive, pending
<1>36. ASSUME NEW w \in Threads, Invoke(t, w) PROVE Arrive(t)
  BY <1>36, MoveInvoke, <1>0 DEF Own, To, Home, Back1, Arrive, pending
<1> QED
  BY <1>1, <1>2, <1>3, <1>4, <1>5, <1>6, <1>7, <1>8, <1>9, <1>10, <1>11,
     <1>12, <1>13, <1>14, <1>15, <1>16, <1>17, <1>18, <1>19, <1>20, <1>21,
     <1>22, <1>23, <1>24, <1>25, <1>26, <1>27, <1>28, <1>29, <1>30, <1>31,
     <1>32, <1>33, <1>34, <1>35, <1>36 DEF Act, Step

\* Interrupts are numbered in the order in which they were sent; the ones that are
\* pending are those that were sent and not taken, unless a terminating thread has
\* thrown them away, after which nobody adds another.
LEMMA PendingStep ==
    ASSUME IInv, NEW t \in Threads, Act(t) PROVE PendingInv'
<1>1. TypeInv /\ StackInv /\ StartInv /\ TermInv /\ PendingInv
  BY DEF IInv
<1>2. /\ TermFlags(t) /\ Arrive(t)
      /\ \A w \in Threads : "TERMINATING" \in t_state[w] => "TERMINATING" \in t_state'[w]
  BY <1>1, TermFlagSteps, ArriveSteps DEF TermFlags
<1>3. /\ t_interrupt \in [Threads -> Seq(Nat)] /\ me(t) \in Threads
      /\ sent \in [Threads -> Nat] /\ taken \in [Threads -> Nat]
  BY <1>1 DEF TypeInv, Frames
<1> DEFINE List(w) == \/ t_interrupt[w] = Numbers(taken[w], sent[w])
                      \/ "TERMINATING" \in t_state[w] /\ t_interrupt[w] = <<>>
           Order(w) == taken[w] <= sent[w] /\ List(w)
           \* What a step may do to the pending interrupts of a thread.
           Same(w) == /\ t_interrupt'[w] = t_interrupt[w]
                      /\ sent'[w] = sent[w] /\ taken'[w] = taken[w]
           Added(w) == /\ pc(t) = "append" /\ w = me(t)
                       /\ t_interrupt'[w] = Append(t_interrupt[w], sent[w] + 1)
                       /\ sent'[w] = sent[w] + 1 /\ taken'[w] = taken[w]
           Popped(w) == /\ pc(t) = "pop" /\ w = t
                        /\ t_interrupt'[w] = Tail(t_interrupt[w])
                        /\ sent'[w] = sent[w] /\ taken'[w] = Head(t_interrupt[w])
           Dropped(w) == /\ pc(t) = "cleanup" /\ w = t
                         /\ t_interrupt'[w] = <<>>
                         /\ sent'[w] = sent[w] /\ taken'[w] = taken[w]
<1>4. ASSUME NEW w \in Threads PROVE Same(w) \/ Added(w) \/ Popped(w) \/ Dropped(w)
  <2>1. CASE Pop(t)
    BY <1>1, <1>3, <2>1, MovePop
  <2>2. CASE Schedule(t)
    <3>1. /\ pc(t) = "append" /\ taken' = taken
          /\ \/ /\ t_interrupt' = [t_interrupt EXCEPT ![me(t)] = Append(@, sent[me(t)] + 1)]
                /\ sent' = [sent EXCEPT ![me(t)] = @ + 1]
             \/ t_interrupt' = t_interrupt /\ sent' = sent
      BY <1>1, <2>2, MoveSchedule
    <3> QED BY <1>3, <3>1
  <2>3. CASE Cleanup(t)
    BY <1>1, <1>3, <2>3, MoveCleanup
  <2>4. CASE ~(Pop(t) \/ Schedule(t) \/ Cleanup(t))
    BY <2>4, OthersPending DEF pending
  <2> QED BY <2>1, <2>2, <2>3, <2>4
<1>5. ASSUME NEW w \in Threads, Added(w)
      PROVE  /\ "TERMINATING" \notin t_state[w] /\ t_interrupt'[w] # <<>>
             /\ t_interrupt[w] = Numbers(taken[w], sent[w])
  <2>1. "TERMINATING" \notin t_state[w]
    BY <1>1, <1>5 DEF TermInv, HeldPCs
  <2>2. t_interrupt[w] \in Seq(Nat) /\ sent[w] + 1 \in Nat
    BY <1>3
  <2>3. Append(t_interrupt[w], sent[w] + 1) # <<>>
    BY <2>2
  <2> QED BY <1>1, <1>5, <2>1, <2>3 DEF PendingInv
<1>6. ASSUME NEW w \in Threads PROVE Order(w)'
  <2>1. Order(w) /\ taken[w] \in Nat /\ sent[w] \in Nat
    BY <1>1, <1>3 DEF PendingInv
  <2>2. CASE Same(w)
    BY <1>2, <2>1, <2>2
  <2>3. CASE Added(w)
    <3>1. Append(Numbers(taken[w], sent[w]), sent[w] + 1) = Numbers(taken[w], sent[w] + 1)
      BY <2>1, NumbersMore
    <3>2. t_interrupt'[w] = Numbers(taken'[w], sent'[w])
      BY <1>5, <2>3, <3>1
    <3>3. taken'[w] <= sent'[w]
      BY <2>1, <2>3
    <3> QED BY <3>2, <3>3
  <2>4. CASE Popped(w)
    <3>1. t_interrupt[w] # <<>> /\ t_interrupt[w] = Numbers(taken[w], sent[w])
      BY <1>1, <2>1, <2>4 DEF PendingInv
    <3>2. /\ taken[w] + 1 <= sent[w] /\ Head(t_interrupt[w]) = taken[w] + 1
          /\ Tail(t_interrupt[w]) = Numbers(taken[w] + 1, sent[w])
      BY <2>1, <3>1, NumbersLess
    <3> QED BY <2>4, <3>2
  <2>5. CASE Dropped(w)
    <3>1. "TERMINATING" \in t_state'[w]
      BY <1>1, <1>2, <2>5 DEF TermInv, Ending
    <3> QED BY <2>1, <2>5, <3>1
  <2> HIDE DEF Order, Same, Added, Popped, Dropped
  <2> QED BY <1>4, <2>2, <2>3, <2>4, <2>5
<1>7. ASSUME NEW w \in Threads, frame'[w].pc \in {"acquire", "pop"}
      PROVE  t_interrupt'[w] # <<>>
  <2>1. CASE w = t
    BY <1>1, <1>2, <1>7, <2>1 DEF Arrive, PendingInv, pending
  <2>2. CASE w # t
    <3>1. pc(w) = frame'[w].pc
      BY <1>1, <1>7, <2>2, OthersMove
    <3> QED BY <1>1, <1>4, <1>5, <1>7, <2>2, <3>1 DEF PendingInv
  <2> QED BY <2>1, <2>2
<1>8. ASSUME NEW w \in Threads, frame'[w].pc = "terminated" \/ "TERMINATED" \in t_state'[w]
      PROVE  t_interrupt'[w] = <<>>
  <2>1. CASE w = t /\ frame'[w].pc = "terminated"
    BY <1>2, <2>1 DEF Arrive
  <2>2. CASE ~(w = t /\ frame'[w].pc = "terminated")
    <3>1. pc(w) = "terminated" \/ "TERMINATED" \in t_state[w]
      <4>1. CASE "TERMINATED" \in t_state'[w]
        BY <1>2, <4>1 DEF TermFlags
      <4>2. CASE w # t /\ frame'[w].pc = "terminated"
        BY <1>1, <4>2, OthersMove
      <4> QED BY <1>8, <2>2, <4>1, <4>2
    <3>2. t_interrupt[w] = <<>> /\ Ending(w) /\ pc(w) # "pop"
      BY <1>1, <3>1 DEF PendingInv, TermInv, Ending, WakePCs
    <3>3. "TERMINATING" \in t_state[w]
      BY <1>1, <3>2 DEF TermInv
    <3> QED BY <1>4, <1>5, <3>2, <3>3
  <2> QED BY <2>1, <2>2
<1> QED BY <1>6, <1>7, <1>8 DEF PendingInv

\* The thread is about to take an interrupt, having cleared INTERRUPTED.
Handles(t) == \/ pc(t) \in {"pending", "acquire", "pop"}
              \/ pc(t) \in WakePCs /\ Head(frame[t].stack) = "pending"

\* What a step does to the announcement of interrupts.
Announces(t) ==
    /\ \A w \in Threads : "INTERRUPTED" \in t_state[w] /\ "INTERRUPTED" \notin t_state'[w] =>
          w = t /\ (pc(t) = "unflag" \/ Handles(t)')
    /\ pc(t) \in UnannouncedPCs =>
          \/ frame'[t].me = me(t) /\ frame'[t].pc \in UnannouncedPCs
          \/ "INTERRUPTED" \in t_state'[me(t)]
    /\ Handles(t) => \/ Handles(t)' \/ "INTERRUPTED" \in t_state'[t]
                     \/ t_interrupt'[t] = <<>>

\* Every step does that to the announcement.
LEMMA AnnounceSteps ==
    ASSUME TypeInv, StackInv, StartInv, PendingInv, NEW t \in Threads, Act(t)
    PROVE  Announces(t)
<1>0. /\ t_state \in [Threads -> SUBSET Flags] /\ me(t) \in Threads /\ Waited(t) \in Threads
      /\ t_interrupt \in [Threads -> Seq(Nat)]
  BY WaitedThread DEF TypeInv, Frames
<1> USE DEF Announces, Handles, WakePCs, UnannouncedPCs
<1>1. CASE FutexWait(t)
  BY <1>1, MoveFutexWait, <1>0, BackValues DEF Own, To, Home, Back1
<1>2. CASE FutexInterrupted(t)
  BY <1>2, MoveFutexInterrupted, <1>0 DEF Own, To, Home, Back1
<1>3. CASE WakeLoad(t)
  BY <1>3, MoveWakeLoad, <1>0, StackValues DEF WakeReturned, Own, To, Home, Back1
<1>4. CASE WakeClear(t)
  <2>1. /\ pc(t) = "wakeclear" /\ frame'[t].pc = "wakeall" /\ frame'[t].stack = frame[t].stack
        /\ t_state' = [t_state EXCEPT ![Waited(t)] = @ \ {"WAITING"}]
    BY <1>4, MoveWakeClear DEF To, Own
  <2> QED BY <1>0, <2>1
<1>5. CASE WakeSleepers(t)
  BY <1>5, MoveWakeSleepers, <1>0, StackValues DEF WakeReturned, Own, To, Home, Back1
<1>6. CASE Mark(t)
  <2>1. /\ pc(t) \in {"tmark", "jmark", "imark"}
        /\ t_state' = [t_state EXCEPT ![me(t)] = @ \cup {"WAITING"}]
    BY <1>6, MoveMark
  <2> QED BY <1>0, <2>1
<1>7. CASE Start(t)
  <2>1. /\ pc(t) = "start"
        /\ t_state' = [t_state EXCEPT ![me(t)] = @ \cup {"STARTING"}]
    BY <1>7, MoveStart
  <2> QED BY <1>0, <2>1
<1>8. CASE Create(t)
  BY <1>8, MoveCreate, <1>0 DEF Own, To, Home, Back1
<1>9. CASE Starting(t)
  BY <1>9, MoveStarting, <1>0 DEF Own, To, Home, Back1
<1>10. CASE Abort(t)
  <2>1. /\ pc(t) = "abort"
        /\ t_state' = [t_state EXCEPT ![me(t)] = @ \ {"STARTING"}]
    BY <1>10, MoveAbort
  <2> QED BY <1>0, <2>1
<1>11. CASE Check(t)
  BY <1>11, MoveCheck, <1>0, StackValues DEF CheckReturned, Own, To, Home, Back1
<1>12. CASE Bump(t)
  BY <1>12, MoveBump, <1>0 DEF Own, To, Home, Back1
<1>13. CASE ClearFlag(t)
  BY <1>13, MoveClearFlag, <1>0, StackValues DEF Own, To, Home, Back1
<1>14. CASE Pending(t)
  BY <1>14, MovePending, <1>0 DEF Own, To, Home, Back1
<1>15. CASE Pop(t)
  <2>1. /\ pc(t) = "pop" /\ t_interrupt' = [t_interrupt EXCEPT ![t] = Tail(@)]
        /\ IF Len(t_interrupt[t]) > 1 THEN t_state' = [t_state EXCEPT ![t] = @ \cup {"INTERRUPTED"}]
                                      ELSE t_state' = t_state
    BY <1>15, MovePop
  <2>2. CASE Len(t_interrupt[t]) > 1
    BY <1>0, <2>1, <2>2
  <2>3. CASE ~(Len(t_interrupt[t]) > 1)
    <3>1. t_interrupt[t] \in Seq(Nat) /\ t_interrupt[t] # <<>>
      BY <1>0, <2>1 DEF PendingInv
    <3>2. Tail(t_interrupt[t]) \in Seq(Nat) /\ Len(Tail(t_interrupt[t])) = Len(t_interrupt[t]) - 1
      BY <3>1, HeadTailProperties
    <3>3. Len(t_interrupt[t]) \in Nat /\ Len(t_interrupt[t]) <= 1
      BY <2>3, <3>1
    <3>4. Tail(t_interrupt[t]) = <<>>
      BY <3>2, <3>3, EmptySeq
    <3> QED BY <1>0, <2>1, <2>3, <3>4
  <2> QED BY <2>2, <2>3
<1>16. CASE ReleaseOwn(t)
  BY <1>16, MoveReleaseOwn, <1>0 DEF TermReturned, Own, To, Home, Back1
<1>17. CASE Lock(t)
  <2>1. /\ pc(t) = "lock"
        /\ \/ t_state' = [t_state EXCEPT ![me(t)] = @ \cup {"INTERRUPTING"}]
           \/ t_state' = t_state
    BY <1>17, MoveLock
  <2> QED BY <1>0, <2>1
<1>18. CASE Locked(t)
  BY <1>18, MoveLocked, <1>0 DEF Own, To, Home, Back1
<1>19. CASE Schedule(t)
  BY <1>19, MoveSchedule, <1>0 DEF Own, To, Home, Back1
<1>20. CASE Release(t)
  <2>1. /\ pc(t) \in {"refuse", "yield", "noroom", "unlock"}
        /\ pc(t) = "unlock" => frame'[t].pc = "version" /\ frame'[t].me = me(t)
        /\ t_state' = [t_state EXCEPT ![me(t)] = @ \ {"INTERRUPTING"}]
    BY <1>20, MoveRelease DEF To, Own
  <2> QED BY <1>0, <2>1
<1>21. CASE Version(t)
  BY <1>21, MoveVersion, <1>0 DEF Own, To, Home, Back1
<1>22. CASE Flag(t)
  <2>1. /\ pc(t) = "flag"
        /\ t_state' = [t_state EXCEPT ![me(t)] = @ \cup {"INTERRUPTED"}]
    BY <1>22, MoveFlag
  <2> QED BY <1>0, <2>1
<1>23. CASE ReadFlag(t)
  BY <1>23, MoveReadFlag, <1>0 DEF Own, To, Home, Back1
<1>24. CASE CheckVersion(t)
  BY <1>24, MoveCheckVersion, <1>0 DEF Own, To, Home, Back1
<1>25. CASE Join(t)
  BY <1>25, MoveJoin, <1>0 DEF Own, To, Home, Back1
<1>26. CASE Entry(t)
  BY <1>26, MoveEntry, <1>0 DEF Own, To, Home, Back1
<1>27. CASE EntryWake(t)
  BY <1>27, MoveEntryWake, <1>0 DEF Own, To, Home, Back1
<1>28. CASE Terming(t)
  BY <1>28, MoveTerming, <1>0 DEF Own, To, Home, Back1
<1>29. CASE Cleanup(t)
  BY <1>29, MoveCleanup, <1>0 DEF Own, To, Home, Back1
<1>30. CASE Terminate(t)
  BY <1>30, MoveTerminate, <1>0 DEF Own, To, Home, Back1
<1>31. CASE Unflag(t)
  BY <1>31, MoveUnflag, <1>0 DEF Own, To, Home, Back1
<1>32. CASE TimedOut(t)
  BY <1>32, MoveTimedOut, <1>0 DEF Own, To, Home, Back1
<1>33. CASE Acquire(t)
  BY <1>33, MoveAcquire, <1>0 DEF Own, To, Home, Back1
<1>34. CASE UserCheck(t)
  BY <1>34, MoveUserCheck, <1>0 DEF Own, To, Home, Back1
<1>35. CASE Finish(t)
  BY <1>35, MoveFinish, <1>0 DEF Own, To, Home, Back1
<1>36. ASSUME NEW w \in Threads, Invoke(t, w) PROVE Announces(t)
  BY <1>36, MoveInvoke, <1>0 DEF Own, To, Home, Back1
<1> QED
  BY <1>1, <1>2, <1>3, <1>4, <1>5, <1>6, <1>7, <1>8, <1>9, <1>10, <1>11,
     <1>12, <1>13, <1>14, <1>15, <1>16, <1>17, <1>18, <1>19, <1>20, <1>21,
     <1>22, <1>23, <1>24, <1>25, <1>26, <1>27, <1>28, <1>29, <1>30, <1>31,
     <1>32, <1>33, <1>34, <1>35, <1>36 DEF Act, Step

\* A pending interrupt stays announced: a sender leaves an interrupt and then sets the
\* flag; the thread clears the flag and then looks for interrupts, and sets it again when
\* it leaves some.
LEMMA AnnouncedStep ==
    ASSUME IInv, NEW t \in Threads, Act(t) PROVE Announced'
<1>1. /\ TypeInv /\ StackInv /\ StartInv /\ LockInv /\ TermInv /\ PendingInv /\ Announced
      /\ Announces(t) /\ TermFlags(t)
  BY AnnounceSteps, TermFlagSteps DEF IInv
<1> DEFINE Sent(w) == \E u \in Threads : pc(u) \in UnannouncedPCs /\ me(u) = w
<1> SUFFICES ASSUME NEW w \in Threads, t_interrupt'[w] # <<>>, "TERMINATING" \notin t_state'[w]
             PROVE  "INTERRUPTED" \in t_state'[w] \/ Sent(w)' \/ Handles(w)'
  BY DEF Announced, Handles, WakePCs
<1>2. "TERMINATING" \notin t_state[w]
  BY <1>1 DEF TermFlags
<1>3. CASE t_interrupt[w] = <<>>
  <2>1. frame'[t].pc = "unlock" /\ frame'[t].me = w
    <3>1. CASE Schedule(t)
      BY <1>1, <1>3, <3>1, MoveSchedule DEF TypeInv, To, Own
    <3>2. CASE ~Schedule(t)
      <4>1. ~Pop(t)
        <5>1. ASSUME Pop(t) PROVE t = w
          BY <1>1, <1>3, <5>1, MovePop DEF TypeInv
        <5>2. ASSUME Pop(t) PROVE t_interrupt[t] # <<>>
          BY <1>1, <5>2, MovePop DEF PendingInv
        <5> QED BY <1>3, <5>1, <5>2
      <4>2. ~Cleanup(t)
        BY <1>1, <1>3, MoveCleanup DEF TypeInv
      <4> QED BY <1>3, <3>2, <4>1, <4>2, OthersPending DEF pending
    <3> QED BY <3>1, <3>2
  <2> QED BY <2>1 DEF UnannouncedPCs
<1>4. CASE t_interrupt[w] # <<>>
  <2>1. "INTERRUPTED" \in t_state[w] \/ Sent(w) \/ Handles(w)
    BY <1>1, <1>2, <1>4 DEF Announced, Handles, WakePCs
  <2>2. CASE "INTERRUPTED" \in t_state[w]
    <3>1. ~(w = t /\ pc(t) = "unflag")
      BY <1>1, <1>2 DEF TermInv, Ending
    <3> QED BY <1>1, <2>2, <3>1 DEF Announces
  <2>3. CASE Sent(w)
    <3>1. PICK u \in Threads : pc(u) \in UnannouncedPCs /\ me(u) = w
      BY <2>3
    <3>2. CASE u = t
      BY <1>1, <3>1, <3>2 DEF Announces
    <3>3. CASE u # t
      <4>1. frame'[u].pc = pc(u) /\ frame'[u].me = me(u)
        BY <1>1, <3>1, <3>3, OthersMove, BackValues DEF UnannouncedPCs
      <4> QED BY <3>1, <4>1
    <3> QED BY <3>2, <3>3
  <2>4. CASE Handles(w)
    <3>1. CASE w = t
      BY <1>1, <2>4, <3>1 DEF Announces
    <3>2. CASE w # t
      <4>1. frame'[w].pc = pc(w) /\ frame'[w].stack = frame[w].stack
        BY <1>1, <2>4, <3>2, OthersMove, BackValues DEF Handles, WakePCs
      <4> QED BY <2>4, <4>1 DEF Handles
    <3> QED BY <3>1, <3>2
  <2> QED BY <2>1, <2>2, <2>3, <2>4
<1> QED BY <1>3, <1>4

-----------------------------------------------------------------------------
(* Nobody sleeps through the start or the end of a thread *)

\* What WordInv says of one thread.
WordOK(t) ==
    /\ pc(t) \in {"tmark", "twait"} \/ Within(t, "swait") => "STARTED" \notin frame[t].state
    /\ pc(t) = "jmark" \/ Within(t, "jwait") => "TERMINATED" \notin frame[t].state
    /\ Within(t, "jwait") => "WAITING" \in frame[t].state

\* The thread that moves waits only on a word that it has looked at.
LEMMA OwnWord ==
    ASSUME TypeInv, StackInv, StartInv, NEW t \in Threads, WordOK(t), Act(t)
    PROVE  WordOK(t)'
<1> USE DEF WordOK, Within, CheckPCs, WakePCs
<1>1. CASE FutexWait(t)
  BY <1>1, MoveFutexWait, BackValues DEF Own, To, Home, Back1
<1>2. CASE FutexInterrupted(t)
  BY <1>2, MoveFutexInterrupted DEF Own, To, Home, Back1
<1>3. CASE WakeLoad(t)
  BY <1>3, MoveWakeLoad DEF WakeReturned, Own, To, Home, Back1
<1>4. CASE WakeClear(t)
  BY <1>4, MoveWakeClear DEF Own, To, Home, Back1
<1>5. CASE WakeSleepers(t)
  BY <1>5, MoveWakeSleepers DEF WakeReturned, Own, To, Home, Back1
<1>6. CASE Mark(t)
  BY <1>6, MoveMark, MarkedValues DEF Own, To, Home, Back1
<1>7. CASE Start(t)
  BY <1>7, MoveStart DEF Own, To, Home, Back1
<1>8. CASE Create(t)
  BY <1>8, MoveCreate DEF Own, To, Home, Back1
<1>9. CASE Starting(t)
  BY <1>9, MoveStarting DEF Own, To, Home, Back1
<1>10. CASE Abort(t)
  BY <1>10, MoveAbort DEF Own, To, Home, Back1
<1>11. CASE Check(t)
  BY <1>11, MoveCheck DEF CheckReturned, Own, To, Home, Back1
<1>12. CASE Bump(t)
  BY <1>12, MoveBump DEF Own, To, Home, Back1
<1>13. CASE ClearFlag(t)
  BY <1>13, MoveClearFlag DEF Own, To, Home, Back1
<1>14. CASE Pending(t)
  BY <1>14, MovePending DEF Own, To, Home, Back1
<1>15. CASE Pop(t)
  BY <1>15, MovePop DEF Own, To, Home, Back1
<1>16. CASE ReleaseOwn(t)
  BY <1>16, MoveReleaseOwn DEF TermReturned, Own, To, Home, Back1
<1>17. CASE Lock(t)
  BY <1>17, MoveLock DEF Own, To, Home, Back1
<1>18. CASE Locked(t)
  BY <1>18, MoveLocked DEF Own, To, Home, Back1
<1>19. CASE Schedule(t)
  BY <1>19, MoveSchedule DEF Own, To, Home, Back1
<1>20. CASE Release(t)
  BY <1>20, MoveRelease DEF Own, To, Home, Back1
<1>21. CASE Version(t)
  BY <1>21, MoveVersion DEF Own, To, Home, Back1
<1>22. CASE Flag(t)
  BY <1>22, MoveFlag DEF Own, To, Home, Back1
<1>23. CASE ReadFlag(t)
  BY <1>23, MoveReadFlag DEF Own, To, Home, Back1
<1>24. CASE CheckVersion(t)
  BY <1>24, MoveCheckVersion DEF Own, To, Home, Back1
<1>25. CASE Join(t)
  BY <1>25, MoveJoin DEF Own, To, Home, Back1
<1>26. CASE Entry(t)
  BY <1>26, MoveEntry DEF Own, To, Home, Back1
<1>27. CASE EntryWake(t)
  BY <1>27, MoveEntryWake DEF Own, To, Home, Back1
<1>28. CASE Terming(t)
  BY <1>28, MoveTerming DEF Own, To, Home, Back1
<1>29. CASE Cleanup(t)
  BY <1>29, MoveCleanup DEF Own, To, Home, Back1
<1>30. CASE Terminate(t)
  BY <1>30, MoveTerminate DEF Own, To, Home, Back1
<1>31. CASE Unflag(t)
  BY <1>31, MoveUnflag DEF Own, To, Home, Back1
<1>32. CASE TimedOut(t)
  BY <1>32, MoveTimedOut DEF Own, To, Home, Back1
<1>33. CASE Acquire(t)
  BY <1>33, MoveAcquire DEF Own, To, Home, Back1
<1>34. CASE UserCheck(t)
  BY <1>34, MoveUserCheck DEF Own, To, Home, Back1
<1>35. CASE Finish(t)
  BY <1>35, MoveFinish DEF Own, To, Home, Back1
<1>36. ASSUME NEW w \in Threads, Invoke(t, w) PROVE WordOK(t)'
  BY <1>36, MoveInvoke DEF Own, To, Home, Back1
<1> QED
  BY <1>1, <1>2, <1>3, <1>4, <1>5, <1>6, <1>7, <1>8, <1>9, <1>10, <1>11,
     <1>12, <1>13, <1>14, <1>15, <1>16, <1>17, <1>18, <1>19, <1>20, <1>21,
     <1>22, <1>23, <1>24, <1>25, <1>26, <1>27, <1>28, <1>29, <1>30, <1>31,
     <1>32, <1>33, <1>34, <1>35, <1>36 DEF Act, Step

\* Nobody comes to wait on a word that has what he waits for.
LEMMA ExpectStep ==
    ASSUME IInv, NEW t \in Threads, Act(t) PROVE WordInv'
<1>1. TypeInv /\ StackInv /\ StartInv /\ WordInv
  BY DEF IInv
<1>2. \A u \in Threads : WordOK(u)
  BY <1>1 DEF WordInv, WordOK
<1>3. WordOK(t)'
  BY <1>1, <1>2, OwnWord
<1>4. ASSUME NEW u \in Threads \ {t} PROVE WordOK(u)'
  <2>1. Passive(t, u) /\ (u \in sleepers => pc(u) \in WaitPCs)
    BY <1>1, Bystanders DEF TypeInv
  <2> QED BY <1>2, <2>1, BackValues DEF Passive, WordOK, Within, CheckPCs, WakePCs
<1> QED BY <1>3, <1>4 DEF WordInv, WordOK

\* A thread goes to sleep only while the word is what it expects, and a thread that is
\* asleep does nothing.
LEMMA OwnSleep ==
    ASSUME TypeInv, StackInv, StartInv, NEW t \in Threads, Act(t), t \in sleepers'
    PROVE  frame' = frame /\ t_state' = t_state /\ t_state[me(t)] = frame[t].state
<1> DEFINE Goal == frame' = frame /\ t_state' = t_state /\ t_state[me(t)] = frame[t].state
<1>0. t \in sleepers => pc(t) \in WaitPCs
  BY DEF TypeInv
<1>1. ASSUME FutexWait(t) PROVE Goal
  BY <1>1, MoveFutexWait, <1>0, BackValues
<1>2. ASSUME FutexInterrupted(t) PROVE Goal
  BY <1>2, MoveFutexInterrupted, <1>0, BackValues
<1>3. ASSUME WakeLoad(t) PROVE Goal
  BY <1>3, MoveWakeLoad, <1>0, BackValues
<1>4. ASSUME WakeClear(t) PROVE Goal
  BY <1>4, MoveWakeClear, <1>0, BackValues
<1>5. ASSUME WakeSleepers(t) PROVE Goal
  BY <1>5, MoveWakeSleepers, <1>0, BackValues
<1>6. ASSUME Mark(t) PROVE Goal
  BY <1>6, MoveMark, <1>0, BackValues
<1>7. ASSUME Start(t) PROVE Goal
  BY <1>7, MoveStart, <1>0, BackValues
<1>8. ASSUME Create(t) PROVE Goal
  BY <1>8, MoveCreate, <1>0, BackValues
<1>9. ASSUME Starting(t) PROVE Goal
  BY <1>9, MoveStarting, <1>0, BackValues
<1>10. ASSUME Abort(t) PROVE Goal
  BY <1>10, MoveAbort, <1>0, BackValues
<1>11. ASSUME Check(t) PROVE Goal
  BY <1>11, MoveCheck, <1>0, BackValues
<1>12. ASSUME Bump(t) PROVE Goal
  BY <1>12, MoveBump, <1>0, BackValues
<1>13. ASSUME ClearFlag(t) PROVE Goal
  BY <1>13, MoveClearFlag, <1>0, BackValues
<1>14. ASSUME Pending(t) PROVE Goal
  BY <1>14, MovePending, <1>0, BackValues
<1>15. ASSUME Pop(t) PROVE Goal
  BY <1>15, MovePop, <1>0, BackValues
<1>16. ASSUME ReleaseOwn(t) PROVE Goal
  BY <1>16, MoveReleaseOwn, <1>0, BackValues
<1>17. ASSUME Lock(t) PROVE Goal
  BY <1>17, MoveLock, <1>0, BackValues
<1>18. ASSUME Locked(t) PROVE Goal
  BY <1>18, MoveLocked, <1>0, BackValues
<1>19. ASSUME Schedule(t) PROVE Goal
  BY <1>19, MoveSchedule, <1>0, BackValues
<1>20. ASSUME Release(t) PROVE Goal
  BY <1>20, MoveRelease, <1>0, BackValues
<1>21. ASSUME Version(t) PROVE Goal
  BY <1>21, MoveVersion, <1>0, BackValues
<1>22. ASSUME Flag(t) PROVE Goal
  BY <1>22, MoveFlag, <1>0, BackValues
<1>23. ASSUME ReadFlag(t) PROVE Goal
  BY <1>23, MoveReadFlag, <1>0, BackValues
<1>24. ASSUME CheckVersion(t) PROVE Goal
  BY <1>24, MoveCheckVersion, <1>0, BackValues
<1>25. ASSUME Join(t) PROVE Goal
  BY <1>25, MoveJoin, <1>0, BackValues
<1>26. ASSUME Entry(t) PROVE Goal
  BY <1>26, MoveEntry, <1>0, BackValues
<1>27. ASSUME EntryWake(t) PROVE Goal
  BY <1>27, MoveEntryWake, <1>0, BackValues
<1>28. ASSUME Terming(t) PROVE Goal
  BY <1>28, MoveTerming, <1>0, BackValues
<1>29. ASSUME Cleanup(t) PROVE Goal
  BY <1>29, MoveCleanup, <1>0, BackValues
<1>30. ASSUME Terminate(t) PROVE Goal
  BY <1>30, MoveTerminate, <1>0, BackValues
<1>31. ASSUME Unflag(t) PROVE Goal
  BY <1>31, MoveUnflag, <1>0, BackValues
<1>32. ASSUME TimedOut(t) PROVE Goal
  BY <1>32, MoveTimedOut, <1>0, BackValues
<1>33. ASSUME Acquire(t) PROVE Goal
  BY <1>33, MoveAcquire, <1>0, BackValues
<1>34. ASSUME UserCheck(t) PROVE Goal
  BY <1>34, MoveUserCheck, <1>0, BackValues
<1>35. ASSUME Finish(t) PROVE Goal
  BY <1>35, MoveFinish, <1>0, BackValues
<1>36. ASSUME NEW w \in Threads, Invoke(t, w) PROVE Goal
  BY <1>36, MoveInvoke, <1>0, BackValues
<1> QED
  BY <1>1, <1>2, <1>3, <1>4, <1>5, <1>6, <1>7, <1>8, <1>9, <1>10, <1>11,
     <1>12, <1>13, <1>14, <1>15, <1>16, <1>17, <1>18, <1>19, <1>20, <1>21,
     <1>22, <1>23, <1>24, <1>25, <1>26, <1>27, <1>28, <1>29, <1>30, <1>31,
     <1>32, <1>33, <1>34, <1>35, <1>36 DEF Act, Step

\* What a step does to the word, as those who wait on it see it.
Word(t) ==
    /\ \A w \in Threads : "STARTED" \in t_state'[w] /\ "STARTED" \notin t_state[w] =>
          w = t /\ frame'[t].pc = "entrywake"
    /\ \A w \in Threads : "WAITING" \in t_state[w] /\ "WAITING" \notin t_state'[w] =>
          w = Waited(t) /\ frame'[t].pc = "wakeall" /\ Waited(t)' = Waited(t)
    /\ pc(t) = "entrywake" => \A u \in sleepers' : me(u) # t
    /\ pc(t) = "wakeall" => \A u \in sleepers' : me(u) # Waited(t)
    /\ pc(t) = "wakeclear" => frame'[t].pc = "wakeall" /\ Waited(t)' = Waited(t)
    /\ frame'[t].pc = "gone" =>
          \/ pc(t) = "wakeall"
          \/ pc(t) = "wakeload" /\ "WAITING" \notin t_state'[Waited(t)]

\* Every step does that to the word.
LEMMA WordSteps ==
    ASSUME TypeInv, StackInv, StartInv, NEW t \in Threads, Act(t)
    PROVE  Word(t)
<1>0. t_state \in [Threads -> SUBSET Flags] /\ me(t) \in Threads /\ Waited(t) \in Threads
  BY WaitedThread DEF TypeInv, Frames
<1> USE DEF Word
<1>1. CASE FutexWait(t)
  BY <1>1, MoveFutexWait, <1>0, BackValues DEF Own, To, Home, Back1
<1>2. CASE FutexInterrupted(t)
  BY <1>2, MoveFutexInterrupted, <1>0 DEF Own, To, Home, Back1
<1>3. CASE WakeLoad(t)
  BY <1>3, MoveWakeLoad, <1>0 DEF WakeReturned, Own, To, Home, Back1
<1>4. CASE WakeClear(t)
  BY <1>4, MoveWakeClear, <1>0 DEF Waited, Own, To, Home, Back1
<1>5. CASE WakeSleepers(t)
  <2>1. /\ pc(t) = "wakeall" /\ t_state' = t_state
        /\ \A u \in sleepers' : me(u) # Waited(t)
    BY <1>5, MoveWakeSleepers
  <2> QED BY <1>0, <2>1
<1>6. CASE Mark(t)
  BY <1>6, MoveMark, <1>0, MarkedValues DEF Own, To, Home, Back1
<1>7. CASE Start(t)
  BY <1>7, MoveStart, <1>0 DEF Own, To, Home, Back1
<1>8. CASE Create(t)
  BY <1>8, MoveCreate, <1>0 DEF Own, To, Home, Back1
<1>9. CASE Starting(t)
  BY <1>9, MoveStarting, <1>0 DEF Own, To, Home, Back1
<1>10. CASE Abort(t)
  BY <1>10, MoveAbort, <1>0 DEF Own, To, Home, Back1
<1>11. CASE Check(t)
  BY <1>11, MoveCheck, <1>0 DEF CheckReturned, Own, To, Home, Back1
<1>12. CASE Bump(t)
  BY <1>12, MoveBump, <1>0 DEF Own, To, Home, Back1
<1>13. CASE ClearFlag(t)
  BY <1>13, MoveClearFlag, <1>0 DEF Own, To, Home, Back1
<1>14. CASE Pending(t)
  BY <1>14, MovePending, <1>0 DEF Own, To, Home, Back1
<1>15. CASE Pop(t)
  BY <1>15, MovePop, <1>0 DEF Own, To, Home, Back1
<1>16. CASE ReleaseOwn(t)
  BY <1>16, MoveReleaseOwn, <1>0 DEF TermReturned, Own, To, Home, Back1
<1>17. CASE Lock(t)
  BY <1>17, MoveLock, <1>0 DEF Own, To, Home, Back1
<1>18. CASE Locked(t)
  BY <1>18, MoveLocked, <1>0 DEF Own, To, Home, Back1
<1>19. CASE Schedule(t)
  BY <1>19, MoveSchedule, <1>0 DEF Own, To, Home, Back1
<1>20. CASE Release(t)
  BY <1>20, MoveRelease, <1>0 DEF Own, To, Home, Back1
<1>21. CASE Version(t)
  BY <1>21, MoveVersion, <1>0 DEF Own, To, Home, Back1
<1>22. CASE Flag(t)
  BY <1>22, MoveFlag, <1>0 DEF Own, To, Home, Back1
<1>23. CASE ReadFlag(t)
  BY <1>23, MoveReadFlag, <1>0 DEF Own, To, Home, Back1
<1>24. CASE CheckVersion(t)
  BY <1>24, MoveCheckVersion, <1>0 DEF Own, To, Home, Back1
<1>25. CASE Join(t)
  BY <1>25, MoveJoin, <1>0 DEF Own, To, Home, Back1
<1>26. CASE Entry(t)
  BY <1>26, MoveEntry, <1>0 DEF Own, To, Home, Back1
<1>27. CASE EntryWake(t)
  BY <1>27, MoveEntryWake, <1>0 DEF Own, To, Home, Back1
<1>28. CASE Terming(t)
  BY <1>28, MoveTerming, <1>0 DEF Own, To, Home, Back1
<1>29. CASE Cleanup(t)
  BY <1>29, MoveCleanup, <1>0 DEF Own, To, Home, Back1
<1>30. CASE Terminate(t)
  BY <1>30, MoveTerminate, <1>0 DEF Own, To, Home, Back1
<1>31. CASE Unflag(t)
  BY <1>31, MoveUnflag, <1>0 DEF Own, To, Home, Back1
<1>32. CASE TimedOut(t)
  BY <1>32, MoveTimedOut, <1>0 DEF Own, To, Home, Back1
<1>33. CASE Acquire(t)
  BY <1>33, MoveAcquire, <1>0 DEF Own, To, Home, Back1
<1>34. CASE UserCheck(t)
  BY <1>34, MoveUserCheck, <1>0 DEF Own, To, Home, Back1
<1>35. CASE Finish(t)
  BY <1>35, MoveFinish, <1>0 DEF Own, To, Home, Back1
<1>36. ASSUME NEW w \in Threads, Invoke(t, w) PROVE Word(t)
  BY <1>36, MoveInvoke, <1>0 DEF Own, To, Home, Back1
<1> QED
  BY <1>1, <1>2, <1>3, <1>4, <1>5, <1>6, <1>7, <1>8, <1>9, <1>10, <1>11,
     <1>12, <1>13, <1>14, <1>15, <1>16, <1>17, <1>18, <1>19, <1>20, <1>21,
     <1>22, <1>23, <1>24, <1>25, <1>26, <1>27, <1>28, <1>29, <1>30, <1>31,
     <1>32, <1>33, <1>34, <1>35, <1>36 DEF Act, Step

\* While somebody sleeps until the end of a thread, WAITING stays set, or the one who has
\* cleared it is about to wake everyone.
LEMMA MarkedStep ==
    ASSUME IInv, NEW t \in Threads, Act(t) PROVE MarkedInv'
<1>1. /\ TypeInv /\ StackInv /\ StartInv /\ WordInv /\ MarkedInv
      /\ Word(t)
  BY WordSteps DEF IInv
<1>2. sleepers' \subseteq Threads
  BY <1>1, WordStep
<1> SUFFICES ASSUME NEW v \in sleepers', frame'[v].pc = "jwait", NEW w, w = frame'[v].me
             PROVE  \/ "WAITING" \in t_state'[w]
                    \/ \E u \in Threads : frame'[u].pc = "wakeall" /\ Waited(u)' = w
  BY DEF MarkedInv
<1>3. CASE v = t
  <2>1. frame' = frame /\ t_state' = t_state /\ t_state[me(t)] = frame[t].state
    BY <1>1, <1>3, OwnSleep
  <2>2. "WAITING" \in frame[t].state
    BY <1>1, <1>3, <2>1 DEF WordInv, Within
  <2> QED BY <1>3, <2>1, <2>2
<1>4. CASE v # t
  <2>1. v \in sleepers /\ pc(v) = "jwait" /\ w = me(v) /\ w \in Threads
    BY <1>1, <1>2, <1>4, Bystanders DEF Passive, TypeInv, Frames
  <2>2. \/ "WAITING" \in t_state[w]
        \/ \E u \in Threads : pc(u) = "wakeall" /\ Waited(u) = w
    BY <1>1, <2>1 DEF MarkedInv
  <2>3. CASE "WAITING" \in t_state[w]
    BY <1>1, <2>1, <2>3 DEF Word
  <2>4. ASSUME NEW u \in Threads, pc(u) = "wakeall", Waited(u) = w
        PROVE  \E x \in Threads : frame'[x].pc = "wakeall" /\ Waited(x)' = w
    <3>1. u # t
      BY <1>1, <2>1, <2>4 DEF Word
    <3>2. frame'[u].pc = "wakeall" /\ Waited(u)' = Waited(u)
      BY <1>1, <2>4, <3>1, OthersMove, BackValues DEF Waited
    <3> QED BY <2>4, <3>2
  <2> QED BY <2>1, <2>2, <2>3, <2>4
<1> QED BY <1>3, <1>4

\* Whoever sleeps while what he waits for happens is about to be woken.
LEMMA WakeupStep ==
    ASSUME IInv, NEW t \in Threads, Act(t) PROVE NoLostWakeup'
<1>1. /\ TypeInv /\ StackInv /\ StartInv /\ TermInv /\ WordInv /\ NoLostWakeup
      /\ Word(t) /\ TermFlags(t)
      /\ MarkedInv' /\ TermInv'
  BY WordSteps, TermFlagSteps, MarkedStep, TermStep DEF IInv
<1>2. sleepers' \subseteq Threads
  BY <1>1, WordStep
<1> SUFFICES ASSUME NEW v \in sleepers', NEW w, w = frame'[v].me
             PROVE  /\ frame'[v].pc \in {"swait", "twait"} /\ "STARTED" \in t_state'[w] =>
                         frame'[w].pc = "entrywake"
                    /\ frame'[v].pc = "jwait" /\ "TERMINATED" \in t_state'[w] => Waking(w)'
  BY DEF NoLostWakeup
<1>3. CASE v = t
  <2>1. frame' = frame /\ t_state' = t_state /\ t_state[me(t)] = frame[t].state
    BY <1>1, <1>3, OwnSleep
  <2> QED BY <1>1, <1>3, <2>1 DEF WordInv, Within
<1>4. CASE v # t
  <2>1. v \in sleepers /\ frame'[v].pc = pc(v) /\ w = me(v) /\ w \in Threads
    BY <1>1, <1>2, <1>4, Bystanders DEF Passive, TypeInv, Frames
  <2>2. ASSUME pc(v) \in {"swait", "twait"}, "STARTED" \in t_state'[w]
        PROVE  frame'[w].pc = "entrywake"
    <3>1. CASE "STARTED" \notin t_state[w]
      BY <1>1, <2>1, <2>2, <3>1 DEF Word
    <3>2. CASE "STARTED" \in t_state[w]
      <4>1. pc(w) = "entrywake"
        BY <1>1, <2>1, <2>2, <3>2 DEF NoLostWakeup
      <4>2. w # t
        BY <1>1, <2>1, <4>1 DEF Word
      <4> QED BY <1>1, <2>1, <4>1, <4>2, OthersMove, BackValues
    <3> QED BY <3>1, <3>2
  <2>3. ASSUME pc(v) = "jwait", "TERMINATED" \in t_state'[w] PROVE Waking(w)'
    <3>1. \/ "WAITING" \in t_state'[w]
          \/ \E u \in Threads : frame'[u].pc = "wakeall" /\ Waited(u)' = w
      BY <1>1, <2>1, <2>3 DEF MarkedInv
    <3>2. CASE \E u \in Threads : frame'[u].pc = "wakeall" /\ Waited(u)' = w
      BY <2>1, <3>2 DEF Waking
    <3>3. CASE "WAITING" \in t_state'[w]
      <4>1. \/ frame'[w].pc \in {"unflag", "gone"}
            \/ frame'[w].pc \in WakePCs /\ frame'[w].stack = <<"gone">>
        BY <1>1, <2>1, <2>3 DEF TermInv
      <4>2. CASE frame'[w].pc = "unflag" \/ frame'[w].pc = "wakeload"
        BY <2>1, <3>3, <4>2 DEF Waking
      <4>3. CASE frame'[w].pc \in {"wakeclear", "wakeall"} /\ frame'[w].stack = <<"gone">>
        <5>1. Waited(w)' = w
          BY <4>3, StackValues, Labels DEF Waited
        <5> QED BY <2>1, <4>3, <5>1 DEF Waking
      <4>4. CASE frame'[w].pc = "gone"
        <5>1. CASE w = t
          <6>1. pc(t) \in {"wakeall", "wakeload"}
            BY <1>1, <4>4, <5>1 DEF Word
          <6>2. "TERMINATED" \in t_state[t]
            BY <1>1, <2>3, <5>1, <6>1 DEF TermFlags
          <6>3. frame[t].stack = <<"gone">>
            BY <1>1, <6>1, <6>2 DEF TermInv, WakePCs
          <6>4. Waited(t) = t
            BY <6>3, StackValues, Labels DEF Waited
          <6> QED BY <1>1, <2>1, <3>3, <4>4, <5>1, <6>1, <6>4 DEF Word
        <5>2. CASE w # t
          <6>1. pc(w) = "gone" /\ "TERMINATED" \in t_state[w]
            BY <1>1, <2>1, <2>3, <4>4, <5>2, OthersMove DEF TermFlags
          <6>2. Waking(w)
            BY <1>1, <2>1, <2>3, <6>1 DEF NoLostWakeup
          <6>3. PICK u \in Threads : pc(u) \in {"wakeclear", "wakeall"} /\ Waited(u) = w
            BY <6>1, <6>2 DEF Waking
          <6>4. CASE u = t
            BY <1>1, <2>1, <6>3, <6>4 DEF Word, Waking
          <6>5. CASE u # t
            <7>1. frame'[u].pc = pc(u) /\ Waited(u)' = Waited(u)
              BY <1>1, <6>3, <6>5, OthersMove, BackValues DEF Waited
            <7> QED BY <6>3, <7>1 DEF Waking
          <6> QED BY <6>4, <6>5
        <5> QED BY <5>1, <5>2
      <4> QED BY <4>1, <4>2, <4>3, <4>4 DEF WakePCs
    <3> QED BY <3>1, <3>2, <3>3
  <2> QED BY <2>1, <2>2, <2>3
<1> QED BY <1>3, <1>4

-----------------------------------------------------------------------------
(* The theorems *)

\* Initially nobody has called anything.
LEMMA InitIInv == Init => IInv
<1> SUFFICES ASSUME Init PROVE IInv
  OBVIOUS
<1>1. /\ Callers \subseteq Threads /\ Workers \subseteq Threads
      /\ \A t \in Threads : t \in Workers <=> t \notin Callers
  BY DistinctAssumption DEF Threads
<1>2. ASSUME NEW t \in Threads
      PROVE  /\ frame[t] \in Frames /\ pc(t) \in {"run", "new"} /\ me(t) = t
             /\ frame[t].state = {} /\ frame[t].stack = <<>>
             /\ t \notin Callers => pc(t) = "new"
  <2>1. frame[t] = At(t, IF t \in Callers THEN "run" ELSE "new")
    BY DEF Init
  <2>2. At(t, "run") \in Frames /\ At(t, "new") \in Frames
    BY AtFrame
  <2>3. CASE t \in Callers
    <3>1. frame[t] = At(t, "run")
      BY <2>1, <2>3
    <3> QED BY <2>2, <2>3, <3>1 DEF At
  <2>4. CASE t \notin Callers
    <3>1. frame[t] = At(t, "new")
      BY <2>1, <2>4
    <3> QED BY <2>2, <3>1 DEF At
  <2> QED BY <2>3, <2>4
<1>3. /\ \A t \in Threads : t_state[t] \in {{"STARTED"}, {}}
      /\ t_state \in [Threads -> SUBSET Flags]
  BY DEF Init, Flags
<1>4. /\ t_interrupt \in [Threads -> Seq(Nat)] /\ \A t \in Threads : t_interrupt[t] = <<>>
      /\ sent \in [Threads -> Nat] /\ \A t \in Threads : sent[t] = 0
      /\ taken \in [Threads -> Nat] /\ \A t \in Threads : taken[t] = 0
      /\ sleepers = {}
  BY DEF Init
<1>5. TypeInv
  <2>1. frame \in [Threads -> Frames]
    <3>1. frame = [t \in Threads |-> frame[t]]
      BY DEF Init
    <3> QED BY <1>2, <3>1
  <2> QED BY <1>3, <1>4, <2>1 DEF TypeInv
<1>6. StackInv
  BY <1>2 DEF StackInv, CheckPCs, WakePCs, TermPCs
<1>7. StartInv
  BY <1>1, <1>2 DEF StartInv, Starter, Within, CheckPCs, WakePCs
<1>8. LockInv
  BY <1>2, <1>3 DEF LockInv, Holds, HeldPCs, OwnPCs
<1>9. TermInv
  BY <1>2, <1>3 DEF TermInv, Ending, CheckPCs, WakePCs
<1>10. PendingInv
  <2>1. Numbers(0, 0) = <<>>
    BY DEF Numbers
  <2> QED BY <1>2, <1>4, <2>1 DEF PendingInv
<1>11. Announced /\ MarkedInv /\ NoLostWakeup
  BY <1>4 DEF Announced, MarkedInv, NoLostWakeup
<1>12. WordInv
  BY <1>2 DEF WordInv, Within, CheckPCs, WakePCs
<1> QED BY <1>5, <1>6, <1>7, <1>8, <1>9, <1>10, <1>11, <1>12 DEF IInv

\* The invariant holds throughout.
THEOREM Invariance == Spec => []IInv
<1>1. Init => IInv
  BY InitIInv
<1>2. IInv /\ [Next]_vars => IInv'
  <2> SUFFICES ASSUME IInv, [Next]_vars PROVE IInv'
    OBVIOUS
  <2>1. CASE UNCHANGED vars
    <3> USE <2>1 DEF vars
    <3>1. \A t \in Threads : pc(t)' = pc(t) /\ me(t)' = me(t)
      BY DEF pc, me
    <3>2. TypeInv' /\ StackInv' /\ TermInv' /\ PendingInv'
      BY DEF IInv, TypeInv, StackInv, TermInv, Ending, PendingInv
    <3>3. StartInv' /\ WordInv'
      BY DEF IInv, StartInv, Starter, WordInv, Within
    <3>4. LockInv'
      BY DEF IInv, LockInv, Holds
    <3>5. Announced' /\ MarkedInv' /\ NoLostWakeup'
      BY DEF IInv, Announced, MarkedInv, NoLostWakeup, Waking, Waited
    <3> QED BY <3>2, <3>3, <3>4, <3>5 DEF IInv
  <2>2. ASSUME NEW t \in Threads, Act(t) PROVE IInv'
    <3>1. TypeInv' /\ StackInv' /\ StartInv' /\ LockInv' /\ TermInv'
      BY <2>2, TypeStep, StackStep, StartStep, LockStep, TermStep DEF IInv
    <3>2. PendingInv' /\ Announced' /\ WordInv' /\ MarkedInv' /\ NoLostWakeup'
      BY <2>2, PendingStep, AnnouncedStep, ExpectStep, MarkedStep, WakeupStep
    <3> QED BY <3>1, <3>2 DEF IInv
  <2> QED BY <2>1, <2>2 DEF Next, Act
<1> QED BY <1>1, <1>2, PTL DEF Spec

\* The variables have their types, whatever is called and however often.
THEOREM TypeCorrect == Spec => []TypeInv
BY Invariance, PTL DEF IInv

\* INTERRUPTING is a lock: the flag is set exactly while one thread is between
\* _DeeThread_AcquireInterrupt, or its copy in DeeThread_Interrupt, and the release.
THEOREM LockCorrect == Spec => []LockExact
<1>1. TypeInv /\ LockInv => LockExact
  <2> SUFFICES ASSUME TypeInv, LockInv, NEW w \in Threads
               PROVE  Cardinality(Holders(w)) = IF "INTERRUPTING" \in t_state[w] THEN 1 ELSE 0
    BY DEF LockExact
  <2>1. Holders(w) = {t \in Threads : Holds(t, w)}
    BY DEF Holders, Holds
  <2>2. CASE "INTERRUPTING" \in t_state[w]
    <3>1. PICK t \in Threads : Holds(t, w)
      BY <2>2 DEF LockInv
    <3>2. Holders(w) = {t}
      BY <2>1, <3>1 DEF LockInv
    <3> QED BY <2>2, <3>2, FS_Singleton
  <2>3. CASE "INTERRUPTING" \notin t_state[w]
    <3>1. Holders(w) = {}
      BY <2>1, <2>3 DEF LockInv
    <3> QED BY <2>3, <3>1, FS_EmptySet
  <2> QED BY <2>2, <2>3
<1> QED BY <1>1, Invariance, PTL DEF IInv

\* Interrupts are received in the order in which DeeThread_Interrupt was called, none
\* twice, and none is lost but those that a terminating thread discards.
THEOREM OrderCorrect == Spec => []InOrder
<1>1. PendingInv => InOrder
  BY DEF PendingInv, InOrder, Numbers
<1> QED BY <1>1, Invariance, PTL DEF IInv

\* A pending interrupt is announced: the thread will look for it.
THEOREM AnnouncedCorrect == Spec => []Announced
BY Invariance, PTL DEF IInv

\* DeeThread_DiscardAllInterrupts may do without the lock: nobody is about to add an
\* interrupt, and a terminated thread has none.
THEOREM DiscardSafety == Spec => []DiscardAlone
<1>1. TermInv /\ PendingInv => DiscardAlone
  <2> SUFFICES ASSUME TermInv, PendingInv, NEW w \in Threads
               PROVE  /\ pc(w) \in {"cleanup", "terminated"} =>
                             ~\E t \in Threads : pc(t) \in {"locked", "append"} /\ me(t) = w
                      /\ "TERMINATED" \in t_state[w] => t_interrupt[w] = <<>>
    BY DEF DiscardAlone
  <2>1. pc(w) \in {"cleanup", "terminated"} => "TERMINATING" \in t_state[w]
    BY DEF TermInv, Ending
  <2> QED BY <2>1 DEF TermInv, PendingInv, HeldPCs
<1> QED BY <1>1, Invariance, PTL DEF IInv

\* Nobody sleeps through the start or the end of a thread.
THEOREM WakeupSafety == Spec => []NoLostWakeup
BY Invariance, PTL DEF IInv

=============================================================================
