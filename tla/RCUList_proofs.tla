--------------------------- MODULE RCUList_proofs ---------------------------
(***************************************************************************)
(* The list of threads and the scans along it, for any number of threads   *)
(* that come and go, of which the main thread does not synchronize: a scan *)
(* stands on no thread that is gone, is a scan of the abstract RCU, and    *)
(* grants the grace period.                                                *)
(***************************************************************************)
EXTENDS RCUList, TLAPS

-----------------------------------------------------------------------------
(* What is reached along a list *)

Lists == [Threads -> Threads \cup {Null}]

\* Nothing is reached from no thread.
LEMMA ReachNull == ASSUME NEW next \in Lists PROVE Reach(next, Null) = {}
<1>1. {} \in SUBSET Threads /\ Null \in {} \cup {Null} /\ ClosedUnder(next, {})
  BY DEF ClosedUnder
<1> QED
  BY <1>1 DEF Reach

\* What is reached is no more than any closed set.
LEMMA ReachLeast ==
    ASSUME NEW next, NEW S \in SUBSET Threads, NEW t \in S \cup {Null},
           ClosedUnder(next, S)
    PROVE  Reach(next, t) \subseteq S
BY DEF Reach

\* What is reached is a closed set with the thread it starts from.
LEMMA ReachClosed ==
    ASSUME NEW next \in Lists, NEW t \in Threads \cup {Null}
    PROVE  /\ Reach(next, t) \in SUBSET Threads
           /\ t \in Reach(next, t) \cup {Null}
           /\ ClosedUnder(next, Reach(next, t))
<1>1. Reach(next, t) \in SUBSET Threads
  BY DEF Reach
<1>2. t \in Reach(next, t) \cup {Null}
  BY DEF Reach
<1>3. ASSUME NEW v \in Reach(next, t) PROVE next[v] \in Reach(next, t) \cup {Null}
  <2>1. v \in Threads /\ next[v] \in Threads \cup {Null}
    BY <1>1, <1>3 DEF Lists
  <2>2. ASSUME NEW S \in SUBSET Threads, t \in S \cup {Null}, ClosedUnder(next, S)
        PROVE  next[v] \in S \cup {Null}
    <3>1. v \in S
      BY <1>3, <2>2 DEF Reach
    <3> QED
      BY <2>2, <3>1 DEF ClosedUnder
  <2> QED
    BY <2>1, <2>2 DEF Reach
<1> QED
  BY <1>1, <1>2, <1>3 DEF ClosedUnder

\* A thread reaches itself and what its successor reaches.
LEMMA ReachUnfold ==
    ASSUME NEW next \in Lists, NEW t \in Threads
    PROVE  Reach(next, t) = {t} \cup Reach(next, next[t])
<1> USE MainAssumption
<1>1. next[t] \in Threads \cup {Null}
  BY DEF Lists
<1>2. /\ Reach(next, t) \in SUBSET Threads
      /\ t \in Reach(next, t)
      /\ ClosedUnder(next, Reach(next, t))
  BY ReachClosed DEF Threads
<1>3. /\ Reach(next, next[t]) \in SUBSET Threads
      /\ next[t] \in Reach(next, next[t]) \cup {Null}
      /\ ClosedUnder(next, Reach(next, next[t]))
  BY <1>1, ReachClosed
<1>4. Reach(next, next[t]) \subseteq Reach(next, t)
  <2>1. next[t] \in Reach(next, t) \cup {Null}
    BY <1>2 DEF ClosedUnder
  <2> QED
    BY <1>2, <2>1, ReachLeast
<1>5. Reach(next, t) \subseteq {t} \cup Reach(next, next[t])
  <2>1. ClosedUnder(next, {t} \cup Reach(next, next[t]))
    BY <1>3 DEF ClosedUnder
  <2> QED
    BY <1>3, <2>1, ReachLeast
<1> QED
  BY <1>2, <1>4, <1>5

\* Who stays within a part of the list that has not changed reaches what it did.
LEMMA ReachSame ==
    ASSUME NEW next \in Lists, NEW m \in Lists, NEW S \in SUBSET Threads,
           NEW t \in S \cup {Null}, ClosedUnder(next, S), \A v \in S : m[v] = next[v]
    PROVE  Reach(m, t) = Reach(next, t)
<1>1. t \in Threads \cup {Null}
  OBVIOUS
<1>2. Reach(next, t) \subseteq S
  BY ReachLeast
<1>3. ClosedUnder(m, S)
  BY DEF ClosedUnder
<1>4. Reach(m, t) \subseteq S
  BY <1>3, ReachLeast
<1>5. ClosedUnder(m, Reach(next, t))
  BY <1>1, <1>2, ReachClosed DEF ClosedUnder
<1>6. ClosedUnder(next, Reach(m, t))
  BY <1>1, <1>4, ReachClosed DEF ClosedUnder
<1>7. Reach(m, t) \subseteq Reach(next, t)
  BY <1>1, <1>5, ReachClosed, ReachLeast
<1>8. Reach(next, t) \subseteq Reach(m, t)
  BY <1>1, <1>6, ReachClosed, ReachLeast
<1> QED
  BY <1>7, <1>8

\* m is the list next of the threads L with t put behind the main thread.
PutAfterMain(m, next, L, t) ==
    /\ next \in Lists /\ m \in Lists /\ L \in SUBSET Threads /\ t \in Threads \ L
    /\ ClosedUnder(next, L) /\ Main \in L
    /\ \A v \in Threads : next[v] # Main
    /\ m[Main] = t /\ m[t] = next[Main]
    /\ \A v \in Threads : v # Main /\ v # t => m[v] = next[v]

\* thread_list_insert: the main thread reaches one thread more, the others what they
\* did.
LEMMA ReachInserted ==
    ASSUME NEW m, NEW next, NEW L, NEW t, PutAfterMain(m, next, L, t)
    PROVE  /\ \A x : x \in (L \ {Main}) \cup {Null} => Reach(m, x) = Reach(next, x)
           /\ \A w : w \in Reach(m, Main) <=> w \in Reach(next, Main) \/ w = t
           /\ \A w : w \in Reach(m, t) <=> w = t \/ w \in Reach(next, next[Main])
<1> USE DEF PutAfterMain
<1> DEFINE S == L \ {Main}
<1>1. S \in SUBSET Threads /\ ClosedUnder(next, S) /\ \A v \in S : m[v] = next[v]
  BY DEF ClosedUnder, Lists
<1>2. ASSUME NEW x \in S \cup {Null} PROVE Reach(m, x) = Reach(next, x)
  BY <1>1, ReachSame
<1>3. next[Main] \in S \cup {Null} /\ Main \in Threads
  BY DEF ClosedUnder
<1>4. m[Main] = t /\ m[t] = next[Main]
  OBVIOUS
<1>5. Reach(m, Main) = {Main} \cup Reach(m, t)
  <2>1. Reach(m, Main) = {Main} \cup Reach(m, m[Main])
    BY ONLY <1>3, ReachUnfold, m \in Lists
  <2> QED
    BY <1>4, <2>1
<1>6. Reach(m, t) = {t} \cup Reach(m, next[Main])
  <2>1. Reach(m, t) = {t} \cup Reach(m, m[t])
    BY ONLY ReachUnfold, m \in Lists, t \in Threads
  <2> QED
    BY <1>4, <2>1
<1>7. Reach(m, next[Main]) = Reach(next, next[Main])
  BY <1>2, <1>3
<1>8. Reach(next, Main) = {Main} \cup Reach(next, next[Main])
  BY <1>3, ReachUnfold
<1> QED
  BY <1>2, <1>5, <1>6, <1>7, <1>8

\* thread_list_unbind: the thread that leaves reaches what it did, and is reached by
\* nobody else.
LEMMA ReachUnbound ==
    ASSUME NEW next \in Lists, NEW m \in Lists, NEW L \in SUBSET Threads,
           NEW u \in L, NEW p \in L,
           ClosedUnder(next, L), next[p] = u, \A v \in L : next[v] = u => v = p,
           u \notin Reach(next, next[u]),
           m[p] = next[u], \A v \in Threads : v # p => m[v] = next[v]
    PROVE  /\ Reach(m, u) = Reach(next, u)
           /\ \A x \in (L \ {u}) \cup {Null} : Reach(m, x) = Reach(next, x) \ {u}
<1> USE MainAssumption
<1>1. u \in Threads /\ p \in Threads /\ next[u] \in Threads \cup {Null}
  BY DEF Lists
<1>2. /\ m[p] = next[u]
      /\ \A v \in Threads : v # p => m[v] = next[v]
  BY <1>1 DEF Lists
<1>3. /\ Reach(next, u) = {u} \cup Reach(next, next[u])
      /\ Reach(next, u) \in SUBSET Threads
      /\ ClosedUnder(next, Reach(next, u))
      /\ ClosedUnder(next, Reach(next, next[u]))
      /\ next[u] \in Reach(next, next[u]) \cup {Null}
  BY <1>1, ReachUnfold, ReachClosed
<1>4. p \notin Reach(next, u)
  <2>1. p # u
    BY <1>1, <1>3 DEF Threads
  <2>2. p \notin Reach(next, next[u])
    BY <1>1, <1>3 DEF ClosedUnder, Threads
  <2> QED
    BY <1>3, <2>1, <2>2
<1>5. Reach(m, u) = Reach(next, u)
  <2>1. \A v \in Reach(next, u) : m[v] = next[v]
    BY <1>2, <1>3, <1>4
  <2>2. u \in Reach(next, u) \cup {Null}
    BY <1>3
  <2> QED
    BY ONLY <1>3, <2>1, <2>2, ReachSame, next \in Lists, m \in Lists
<1>6. ASSUME NEW x \in (L \ {u}) \cup {Null} PROVE Reach(m, x) = Reach(next, x) \ {u}
  <2> DEFINE R == Reach(next, x)
             Q == Reach(m, x)
  <2>1. x \in Threads \cup {Null} /\ x \in L \cup {Null}
    OBVIOUS
  <2>2. R \in SUBSET Threads /\ x \in R \cup {Null} /\ ClosedUnder(next, R) /\ R \subseteq L
    BY <2>1, ReachClosed, ReachLeast
  <2>3. Q \in SUBSET Threads /\ x \in Q \cup {Null} /\ ClosedUnder(m, Q)
    BY <2>1, ReachClosed
  <2>4. ClosedUnder(m, R \ {u})
    <3>1. ASSUME NEW v \in R \ {u} PROVE m[v] \in (R \ {u}) \cup {Null}
      <4>1. CASE v = p
        <5>1. u \in R
          BY <2>2, <4>1, <1>1 DEF ClosedUnder, Threads
        <5>2. next[u] \in R \cup {Null}
          BY <2>2, <5>1 DEF ClosedUnder
        <5>3. next[u] # u
          BY <1>1, <1>3 DEF Threads
        <5> QED
          BY <1>2, <4>1, <5>2, <5>3
      <4>2. CASE v # p
        <5>1. v \in L /\ next[v] \in R \cup {Null}
          BY <2>2 DEF ClosedUnder
        <5> QED
          BY <1>2, <4>2, <5>1
      <4> QED
        BY <4>1, <4>2
    <3> QED
      BY <3>1 DEF ClosedUnder
  <2>5. Q \subseteq R \ {u}
    <3>1. x \in (R \ {u}) \cup {Null} /\ R \ {u} \in SUBSET Threads
      BY <1>1, <2>2 DEF Threads
    <3> QED
      BY <2>4, <3>1, ReachLeast
  <2> DEFINE T == IF p \in Q THEN Q \cup {u} ELSE Q
  <2>6. T \in SUBSET Threads /\ x \in T \cup {Null}
    BY <1>1, <2>3
  <2>7. ClosedUnder(next, T)
    <3>1. ASSUME NEW v \in T PROVE next[v] \in T \cup {Null}
      <4>1. CASE v = p
        BY <3>1, <4>1, <2>5
      <4>2. CASE v = u /\ p \in Q
        BY <1>2, <2>3, <4>2 DEF ClosedUnder
      <4>3. CASE v # p /\ v \in Q
        BY <1>2, <2>3, <4>3 DEF ClosedUnder
      <4> QED
        BY <4>1, <4>2, <4>3
    <3> QED
      BY <3>1 DEF ClosedUnder
  <2>8. R \subseteq T
    BY <2>6, <2>7, ReachLeast
  <2> QED
    BY <2>5, <2>8
<1> QED
  BY <1>5, <1>6

-----------------------------------------------------------------------------
(* The inductive invariant *)

\* Only the main thread, whose flag nobody looks at, may stand on a thread that is
\* given back (run rcu_main).
MainDoesNotSynchronize == Main \notin Writers

ListPCs == {"entry", "insertawait", "unbind", "unbindawait"}
SyncPCs == {"load", "cas", "flag", "scan", "next", "free"}
WalkPCs == {"scan", "next"}

\* The thread has been taken off the list, and may still be stood on.
Leaving(u) == /\ list_lock \in Threads
              /\ pc[list_lock] = "unbindawait"
              /\ subject[list_lock] = u

TypeInv == /\ pc \in [Threads -> PCs]
           /\ iter \in [Threads -> Threads \cup {Null}]
           /\ le_next \in [Threads -> Workers \cup {Null}]
           /\ le_prev \in [Threads -> Threads \cup {Null}]
           /\ list_lock \in Threads \cup {Null}
           /\ listrcu \subseteq Threads
           /\ subject \in [Threads -> Workers \cup {Null}]

\* thread_list_lock is held exactly by who changes the list.
LockInv == \A t \in Threads : pc[t] \in ListPCs <=> list_lock = t

\* Where a thread is tells whether it is in the list, who is taken off it, and who
\* synchronizes.
PlaceInv ==
    /\ \A t \in Workers : t \in Linked <=> pc[t] \notin {"new", "entry", "gone"} /\ ~Leaving(t)
    /\ pc[Main] \notin {"new", "entry", "insertawait", "dead", "dying", "gone"}
    /\ \A t \in Threads : pc[t] \in {"unbind", "unbindawait"} =>
           subject[t] \in Workers /\ (subject[t] = t \/ pc[subject[t]] = "dying")
    /\ \A t \in Threads : pc[t] \in SyncPCs => t \in Writers

\* The list is linked both ways, and who leaves it still leads back into it.
LinkInv ==
    /\ \A t \in Linked : le_next[t] # Null => le_next[t] \in Linked /\ le_prev[le_next[t]] = t
    /\ \A t \in Linked \ {Main} : le_prev[t] \in Linked /\ le_next[le_prev[t]] = t
    /\ \A t \in Threads : Leaving(t) => le_next[t] \in Linked \cup {Null}

\* Everyone in the list is met by who starts at the main thread, once.
ReachInv == /\ Linked \subseteq Rest(Main)
            /\ \A t \in Linked : t \notin Rest(le_next[t])

\* Who walks has its flag set and stands on a thread in the list, or on one that
\* leaves it.
WalkInv == \A t \in Threads : pc[t] \in WalkPCs =>
               t \in listrcu /\ (iter[t] \in Linked \/ Leaving(iter[t]))

\* Who waits to give back a thread has yet to look at everyone who stands on it.
AwaitInv == \A t, w \in Threads :
    pc[t] = "unbindawait" /\ pc[w] \in WalkPCs /\ iter[w] = subject[t] => w \in Rest(iter[t])

ListInv == TypeInv /\ LockInv /\ PlaceInv /\ LinkInv /\ ReachInv /\ WalkInv /\ AwaitInv

\* The main thread is in the list alone.
LEMMA InitListInv == Init => ListInv
<1> SUFFICES ASSUME Init PROVE ListInv
  OBVIOUS
<1> USE MainAssumption DEF Init
<1>1. TypeInv
  BY DEF TypeInv, PCs, Threads
<1>2. LockInv
  BY DEF LockInv, ListPCs, Threads
<1>3. Linked = {Main}
  BY DEF Linked, Threads
<1>4. PlaceInv
  BY <1>3 DEF PlaceInv, Leaving, SyncPCs, Threads
<1>5. LinkInv
  BY <1>3 DEF LinkInv, Leaving, Threads
<1>6. ReachInv
  <2>1. le_next \in Lists /\ le_next[Main] = Null /\ Main \in Threads
    BY DEF Lists, Threads
  <2>2. Main \in Rest(Main)
    BY <2>1, ReachUnfold DEF Rest
  <2>3. Rest(Null) = {}
    BY <2>1, ReachNull DEF Rest
  <2> QED
    BY <1>3, <2>1, <2>2, <2>3 DEF ReachInv
<1>7. WalkInv /\ AwaitInv
  BY DEF WalkInv, AwaitInv, WalkPCs, Threads
<1> QED
  BY <1>1, <1>2, <1>4, <1>5, <1>6, <1>7 DEF ListInv

\* The list as what is reached along it sees it.
LEMMA ListFacts ==
    ASSUME ListInv
    PROVE  /\ le_next \in Lists /\ Main \in Threads
           /\ Linked \in SUBSET Threads /\ Main \in Linked
           /\ ClosedUnder(le_next, Linked)
           /\ \A v \in Threads : le_next[v] # Main
           /\ Rest(Null) = {}
           /\ Rest(Main) = Linked
<1>1. le_next \in Lists /\ Main \in Threads
  BY DEF ListInv, TypeInv, Lists, Threads
<1>2. Linked \in SUBSET Threads /\ Main \in Linked
  BY DEF Linked, Threads
<1>3. ClosedUnder(le_next, Linked)
  BY DEF ListInv, LinkInv, ClosedUnder
<1>4. \A v \in Threads : le_next[v] # Main
  BY MainAssumption DEF ListInv, TypeInv, Threads
<1>5. Rest(Null) = {}
  BY <1>1, ReachNull DEF Rest
<1>6. Rest(Main) \subseteq Linked
  BY <1>2, <1>3, ReachLeast DEF Rest
<1> QED
  BY <1>1, <1>2, <1>3, <1>4, <1>5, <1>6 DEF ListInv, ReachInv

-----------------------------------------------------------------------------
(* Steps that leave the list alone *)

RunPCs == {"idle", "lock", "in"} \cup SyncPCs

\* A thread that runs and goes on running.
LEMMA Runs ==
    ASSUME ListInv, NEW t \in Threads, NEW label \in RunPCs,
           pc[t] \in RunPCs, pc' = [pc EXCEPT ![t] = label], label \in SyncPCs => t \in Writers,
           UNCHANGED list
    PROVE  /\ pc' \in [Threads -> PCs]
           /\ LockInv' /\ PlaceInv' /\ LinkInv' /\ ReachInv'
           /\ Linked' = Linked
           /\ \A u \in Threads \cup {Null} : Leaving(u)' <=> Leaving(u)
<1> USE DEF ListInv, TypeInv, RunPCs, SyncPCs, list
<1>1. pc' \in [Threads -> PCs]
  BY DEF PCs
<1>2. LockInv'
  BY DEF LockInv, ListPCs
<1>3. Linked' = Linked
  BY DEF Linked
<1>4. \A u : Leaving(u)' <=> Leaving(u)
  BY DEF Leaving
<1>5. PlaceInv'
  BY <1>3, <1>4 DEF PlaceInv, Threads
<1>6. LinkInv'
  BY <1>3, <1>4 DEF LinkInv
<1>7. ReachInv'
  BY <1>3 DEF ReachInv, Rest
<1> QED
  BY <1>1, <1>2, <1>3, <1>4, <1>5, <1>6, <1>7

\* One that does not move along the list either.
LEMMA Stays ==
    ASSUME ListInv, NEW t \in Threads, NEW label \in RunPCs,
           pc[t] \in RunPCs, pc' = [pc EXCEPT ![t] = label], label \in SyncPCs => t \in Writers,
           label \in WalkPCs => pc[t] \in WalkPCs,
           UNCHANGED <<list, iter, listrcu>>
    PROVE  ListInv'
<1>1. /\ pc' \in [Threads -> PCs]
      /\ LockInv' /\ PlaceInv' /\ LinkInv' /\ ReachInv'
      /\ Linked' = Linked
      /\ \A u \in Threads \cup {Null} : Leaving(u)' <=> Leaving(u)
  BY Runs
<1> USE DEF ListInv, TypeInv, list
<1>2. \A w \in Threads : pc'[w] \in WalkPCs => pc[w] \in WalkPCs
  OBVIOUS
<1>3. WalkInv'
  BY <1>1, <1>2 DEF WalkInv
<1>4. \A w \in Threads : pc'[w] = "unbindawait" => pc[w] = "unbindawait"
  BY DEF RunPCs, SyncPCs
<1>5. AwaitInv'
  BY <1>2, <1>4 DEF AwaitInv, Rest
<1> QED
  BY <1>1, <1>3, <1>5

\* DeeRCU_Lock, DeeRCU_Unlock and what is between them.
LEMMA ReadStep == ASSUME ListInv, NEW t \in Threads, Read(t) PROVE ListInv'
<1> USE DEF RunPCs, SyncPCs, WalkPCs, Goto
<1>1. CASE LockLoad(t)
  BY <1>1, Stays DEF LockLoad
<1>2. CASE LockStore(t)
  BY <1>2, Stays DEF LockStore
<1>3. CASE Get(t)
  <2>1. pc' = [pc EXCEPT ![t] = "in"]
    BY <1>3 DEF Get, ListInv, TypeInv
  <2> QED
    BY <1>3, <2>1, Stays DEF Get
<1>4. CASE Unlock(t)
  BY <1>4, Stays DEF Unlock
<1> QED
  BY <1>1, <1>2, <1>3, <1>4 DEF Read

\* The exchange of the pointer.
LEMMA SwapStep == ASSUME ListInv, NEW t \in Threads, NEW o \in Objs, Swap(t, o) PROVE ListInv'
BY Stays DEF Swap, RunPCs, SyncPCs, WalkPCs, Goto

\* DeeRCU_Synchronize.
LEMMA SyncStep == ASSUME ListInv, NEW t \in Threads, Sync(t) PROVE ListInv'
<1> USE DEF RunPCs, SyncPCs, WalkPCs, Goto
<1>w. pc[t] \in SyncPCs => t \in Writers
  BY DEF ListInv, PlaceInv
<1>1. CASE SyncLoad(t)
  BY <1>1, <1>w, Stays DEF SyncLoad
<1>2. CASE SyncCas(t)
  BY <1>2, <1>w, Stays DEF SyncCas
<1>3. CASE Scan(t)
  BY <1>3, <1>w, Stays DEF Scan
<1>4. CASE Reread(t)
  <2>1. pc' = [pc EXCEPT ![t] = "scan"]
    BY <1>4 DEF Reread, ListInv, TypeInv
  <2> QED
    BY <1>4, <1>w, <2>1, Stays DEF Reread
<1>5. CASE Free(t)
  BY <1>5, Stays DEF Free
<1>6. CASE Flag(t)
  <2> USE <1>6 DEF Flag, StartScan
  <2>1. /\ pc' \in [Threads -> PCs]
        /\ LockInv' /\ PlaceInv' /\ LinkInv' /\ ReachInv'
        /\ Linked' = Linked
        /\ \A u \in Threads \cup {Null} : Leaving(u)' <=> Leaving(u)
    BY <1>w, Runs
  <2>2. TypeInv'
    BY <2>1 DEF ListInv, TypeInv, list, Threads
  <2>3. WalkInv'
    BY <2>1, ListFacts DEF ListInv, WalkInv, TypeInv
  <2>4. Main \notin Workers /\ \A s \in Threads : pc[s] = "unbindawait" => subject[s] \in Workers
    BY MainAssumption DEF ListInv, PlaceInv
  <2>5. AwaitInv'
    BY <2>4 DEF ListInv, TypeInv, AwaitInv, Rest, list
  <2> QED
    BY <2>1, <2>2, <2>3, <2>5 DEF ListInv
<1>7. CASE Advance(t)
  <2> USE <1>7 DEF Advance, AdvanceClearing
  <2>1. /\ pc' \in [Threads -> PCs]
        /\ LockInv' /\ PlaceInv' /\ LinkInv' /\ ReachInv'
        /\ Linked' = Linked
        /\ \A u \in Threads \cup {Null} : Leaving(u)' <=> Leaving(u)
    BY <1>w, Runs
  <2>2. iter[t] \in Linked \/ Leaving(iter[t])
    BY DEF ListInv, WalkInv
  <2>3. iter[t] \in Threads
    BY <2>2, MainAssumption DEF ListInv, TypeInv, Leaving, PlaceInv, Threads, Linked
  <2>4. le_next[iter[t]] \in Linked \cup {Null}
    BY <2>2, <2>3 DEF ListInv, LinkInv
  <2>5. TypeInv'
    BY <2>1, <2>4 DEF ListInv, TypeInv, list, Threads, Linked
  <2>6. WalkInv'
    BY <2>1, <2>4 DEF ListInv, WalkInv, TypeInv
  <2>7. ASSUME NEW s \in Threads, pc[s] = "unbindawait" PROVE subject[s] \notin Linked \cup {Null}
    BY <2>7, MainAssumption DEF ListInv, LockInv, ListPCs, PlaceInv, Leaving, Threads
  <2>8. AwaitInv'
    BY <2>4, <2>7 DEF ListInv, TypeInv, AwaitInv, Rest, list
  <2> QED
    BY <2>1, <2>5, <2>6, <2>8 DEF ListInv
<1> QED
  BY <1>1, <1>2, <1>3, <1>4, <1>5, <1>6, <1>7 DEF Sync

-----------------------------------------------------------------------------
(* Steps of who changes the list *)

\* Threads move to other places while nobody is on the way out and the list stays as it
\* is.
LEMMA Settled ==
    ASSUME ListInv, UNCHANGED <<le_next, le_prev, iter, listrcu>>,
           \A w \in Threads : pc'[w] \in WalkPCs => pc[w] \in WalkPCs,
           \A w \in Threads : pc[w] # "unbindawait" /\ pc'[w] # "unbindawait"
    PROVE  /\ Linked' = Linked
           /\ \A u : ~Leaving(u) /\ ~Leaving(u)'
           /\ LinkInv' /\ ReachInv' /\ WalkInv' /\ AwaitInv'
<1>1. Linked' = Linked
  BY DEF Linked
<1>2. \A u : ~Leaving(u) /\ ~Leaving(u)'
  BY DEF Leaving
<1>3. LinkInv'
  BY <1>1, <1>2 DEF ListInv, LinkInv
<1>4. ReachInv'
  BY <1>1 DEF ListInv, ReachInv, Rest
<1>5. WalkInv'
  BY <1>1, <1>2 DEF ListInv, WalkInv
<1>6. AwaitInv'
  BY DEF AwaitInv
<1> QED
  BY <1>1, <1>2, <1>3, <1>4, <1>5, <1>6

\* thread_list_lock is taken by a thread that starts.
LEMMA AcquireStep == ASSUME ListInv, NEW t \in Threads, Acquire(t) PROVE ListInv'
<1> USE MainAssumption DEF Acquire, Goto
<1>1. \A w \in Threads : pc[w] \notin ListPCs
  BY DEF ListInv, LockInv, Threads
<1>2. TypeInv' /\ pc'[t] = "entry" /\ \A w \in Threads : w # t => pc'[w] = pc[w]
  BY DEF ListInv, TypeInv, PCs
<1>3. LockInv'
  BY <1>1, <1>2 DEF LockInv, ListPCs
<1>4. /\ Linked' = Linked
      /\ \A u : ~Leaving(u) /\ ~Leaving(u)'
      /\ LinkInv' /\ ReachInv' /\ WalkInv' /\ AwaitInv'
  BY <1>1, <1>2, Settled DEF ListPCs, WalkPCs
<1>5. PlaceInv'
  BY <1>1, <1>2, <1>4 DEF ListInv, PlaceInv, ListPCs, SyncPCs, Threads
<1> QED
  BY <1>2, <1>3, <1>4, <1>5 DEF ListInv

\* A thread ends, with thread_list_lock or without.
LEMMA TerminateStep == ASSUME ListInv, NEW t \in Threads, Terminate(t) PROVE ListInv'
<1> USE MainAssumption DEF Goto
<1>1. CASE list_lock = Null
  <2> USE <1>1 DEF Terminate
  <2>1. \A w \in Threads : pc[w] \notin ListPCs
    BY DEF ListInv, LockInv, Threads
  <2>2. TypeInv' /\ pc'[t] = "unbind" /\ \A w \in Threads : w # t => pc'[w] = pc[w]
    BY DEF ListInv, TypeInv, PCs, Threads
  <2>3. LockInv'
    BY <2>1, <2>2 DEF LockInv, ListPCs
  <2>4. /\ Linked' = Linked
        /\ \A u : ~Leaving(u) /\ ~Leaving(u)'
        /\ LinkInv' /\ ReachInv' /\ WalkInv' /\ AwaitInv'
    BY <2>1, <2>2, Settled DEF ListPCs, WalkPCs
  <2>5. subject'[t] = t /\ t \in Workers
    BY DEF ListInv, TypeInv, Threads
  <2>6. PlaceInv'
    BY <2>1, <2>2, <2>4, <2>5 DEF ListInv, PlaceInv, ListPCs, SyncPCs, Threads
  <2> QED
    BY <2>2, <2>3, <2>4, <2>6 DEF ListInv
<1>2. CASE list_lock # Null
  <2> USE <1>2 DEF Terminate
  <2>1. TypeInv' /\ pc'[t] = "dead" /\ \A w \in Threads : w # t => pc'[w] = pc[w]
    BY DEF ListInv, TypeInv, PCs
  <2>2. LockInv'
    BY <2>1 DEF ListInv, LockInv, ListPCs
  <2>3. Linked' = Linked
    BY DEF Linked
  <2>4. \A u : Leaving(u)' <=> Leaving(u)
    BY <2>1 DEF Leaving
  <2>5. PlaceInv'
    BY <2>1, <2>3, <2>4 DEF ListInv, PlaceInv, SyncPCs, Threads
  <2>6. LinkInv' /\ ReachInv'
    BY <2>3, <2>4 DEF ListInv, LinkInv, ReachInv, Rest
  <2>7. WalkInv'
    BY <2>1, <2>3, <2>4 DEF ListInv, WalkInv, WalkPCs
  <2>8. AwaitInv'
    BY <2>1 DEF ListInv, AwaitInv, WalkPCs, Rest
  <2> QED
    BY <2>1, <2>2, <2>5, <2>6, <2>7, <2>8 DEF ListInv
<1> QED
  BY <1>1, <1>2

\* The destructor of an ended thread, run by another one.
LEMMA DestroyStep ==
    ASSUME ListInv, NEW t \in Threads, NEW u \in Workers, Destroy(t, u) PROVE ListInv'
<1> USE MainAssumption DEF Destroy
<1>1. \A w \in Threads : pc[w] \notin ListPCs
  BY DEF ListInv, LockInv, Threads
<1>2. /\ TypeInv' /\ t # u /\ u \in Threads
      /\ pc'[t] = "unbind" /\ pc'[u] = "dying"
      /\ \A w \in Threads : w # t /\ w # u => pc'[w] = pc[w]
      /\ subject'[t] = u
  BY DEF ListInv, TypeInv, PCs, Threads
<1>3. LockInv'
  BY <1>1, <1>2 DEF LockInv, ListPCs
<1>4. /\ Linked' = Linked
      /\ \A v : ~Leaving(v) /\ ~Leaving(v)'
      /\ LinkInv' /\ ReachInv' /\ WalkInv' /\ AwaitInv'
  BY <1>1, <1>2, Settled DEF ListPCs, WalkPCs
<1>5. PlaceInv'
  BY <1>1, <1>2, <1>4 DEF ListInv, PlaceInv, ListPCs, SyncPCs, Threads
<1> QED
  BY <1>2, <1>3, <1>4, <1>5 DEF ListInv

\* The end of an insertion.
LEMMA InsertedStep == ASSUME ListInv, NEW t \in Threads, Inserted(t) PROVE ListInv'
<1> USE MainAssumption DEF Inserted, Goto
<1>1. list_lock = t /\ \A w \in Threads : w # t => pc[w] \notin ListPCs
  BY DEF ListInv, LockInv, ListPCs, Threads
<1>2. TypeInv' /\ pc'[t] = "idle" /\ \A w \in Threads : w # t => pc'[w] = pc[w]
  BY DEF ListInv, TypeInv, PCs, Threads
<1>3. LockInv'
  BY <1>1, <1>2 DEF LockInv, ListPCs, Threads
<1>4. /\ Linked' = Linked
      /\ \A v : ~Leaving(v) /\ ~Leaving(v)'
      /\ LinkInv' /\ ReachInv' /\ WalkInv' /\ AwaitInv'
  BY <1>1, <1>2, Settled DEF ListPCs, WalkPCs
<1>5. PlaceInv'
  BY <1>1, <1>2, <1>4 DEF ListInv, PlaceInv, ListPCs, SyncPCs, Threads
<1> QED
  BY <1>2, <1>3, <1>4, <1>5 DEF ListInv

\* A look at a flag that is clear.
LEMMA AwaitStep == ASSUME ListInv, NEW t \in Threads, Await(t) PROVE ListInv'
<1> USE MainAssumption DEF Await, AwaitPast, list
<1>1. iter[t] \in Workers \ listrcu
  OBVIOUS
<1>2. TypeInv' /\ iter'[t] = le_next[iter[t]] /\ \A w \in Threads : w # t => iter'[w] = iter[w]
  BY DEF ListInv, TypeInv, Threads
<1>3. LockInv'
  BY DEF ListInv, LockInv
<1>4. Linked' = Linked
  BY DEF Linked
<1>5. \A u : Leaving(u)' <=> Leaving(u)
  BY DEF Leaving
<1>6. PlaceInv' /\ LinkInv'
  BY <1>4, <1>5 DEF ListInv, PlaceInv, LinkInv
<1>7. ReachInv'
  BY <1>4 DEF ListInv, ReachInv, Rest
<1>8. WalkInv'
  BY <1>2, <1>4, <1>5 DEF ListInv, WalkInv, WalkPCs
<1>9. AwaitInv'
  <2>1. Rest(iter[t]) = {iter[t]} \cup Rest(le_next[iter[t]])
    BY <1>1, ListFacts, ReachUnfold DEF Rest, Threads
  <2>2. SUFFICES ASSUME NEW s \in Threads, NEW w \in Threads,
                        pc[s] = "unbindawait", pc[w] \in WalkPCs, iter'[w] = subject[s]
                 PROVE  w \in Rest(iter'[s])
    BY DEF AwaitInv, Rest
  <2>3. iter[w] = subject[s] /\ w \in listrcu
    BY <1>2, <2>2 DEF WalkPCs, ListInv, WalkInv
  <2>4. w \in Rest(iter[s])
    BY <2>2, <2>3 DEF ListInv, AwaitInv
  <2> QED
    BY <1>1, <1>2, <2>1, <2>3, <2>4
<1> QED
  BY <1>2, <1>3, <1>6, <1>7, <1>8, <1>9 DEF ListInv

\* What thread_list_insert does to the list.
LEMMA InsertList ==
    ASSUME ListInv, NEW t \in Threads, Insert(t)
    PROVE  /\ list_lock = t /\ t \in Workers /\ t \notin Linked
           /\ Linked' = Linked \cup {t}
           /\ le_next' \in [Threads -> Workers \cup {Null}]
           /\ le_next'[Main] = t /\ le_next'[t] = le_next[Main]
           /\ \A v \in Threads : v # Main /\ v # t => le_next'[v] = le_next[v]
           /\ \A x \in (Linked \ {Main}) \cup {Null} : Reach(le_next', x) = Rest(x)
           /\ Reach(le_next', Main) = Rest(Main) \cup {t}
           /\ Reach(le_next', t) = {t} \cup Rest(le_next[Main])
<1> USE MainAssumption DEF Insert
<1>1. list_lock = t /\ t \in Workers /\ t \notin Linked
  BY DEF ListInv, LockInv, ListPCs, PlaceInv, Threads
<1>2. /\ le_next' \in [Threads -> Workers \cup {Null}]
      /\ le_next'[Main] = t /\ le_next'[t] = le_next[Main]
      /\ \A v \in Threads : v # Main /\ v # t => le_next'[v] = le_next[v]
  BY <1>1 DEF ListInv, TypeInv, Threads
<1>3. le_next[Main] \in Linked \cup {Null}
  BY ListFacts DEF ListInv, LinkInv
<1>4. Linked' = Linked \cup {t}
  <2>1. \A v \in Workers : le_prev'[v] # Null <=> v = t \/ le_prev[v] # Null
    BY <1>1, <1>3 DEF ListInv, TypeInv, Threads, Linked
  <2> QED
    BY <1>1, <2>1 DEF Linked
<1>5. le_next' \in Lists
  BY <1>2 DEF Lists, Threads
<1>6. /\ \A x \in (Linked \ {Main}) \cup {Null} : Reach(le_next', x) = Reach(le_next, x)
      /\ Reach(le_next', Main) = Reach(le_next, Main) \cup {t}
      /\ Reach(le_next', t) = {t} \cup Reach(le_next, le_next[Main])
  <2>1. /\ le_next \in Lists /\ Linked \in SUBSET Threads /\ Main \in Linked
        /\ ClosedUnder(le_next, Linked) /\ \A v \in Threads : le_next[v] # Main
    BY ListFacts
  <2>2. PICK m, next, L : m = le_next' /\ next = le_next /\ L = Linked
    OBVIOUS
  <2>3. PutAfterMain(m, next, L, t)
    BY <1>1, <1>2, <1>5, <2>1, <2>2 DEF PutAfterMain
  <2>4. /\ \A x : x \in (L \ {Main}) \cup {Null} => Reach(m, x) = Reach(next, x)
        /\ \A w : w \in Reach(m, Main) <=> w \in Reach(next, Main) \/ w = t
        /\ \A w : w \in Reach(m, t) <=> w = t \/ w \in Reach(next, next[Main])
    BY ONLY <2>3, ReachInserted
  <2>5. /\ Reach(m, Main) = Reach(next, Main) \cup {t}
        /\ Reach(m, t) = {t} \cup Reach(next, next[Main])
    BY ONLY <2>4
  <2> QED
    BY <2>2, <2>4, <2>5
<1> QED
  BY <1>1, <1>2, <1>4, <1>6 DEF Rest

\* thread_list_insert.
LEMMA InsertStep == ASSUME ListInv, NEW t \in Threads, Insert(t) PROVE ListInv'
<1> USE MainAssumption DEF Insert, Goto
<1>1. /\ list_lock = t /\ t \in Workers /\ t \notin Linked
      /\ Linked' = Linked \cup {t}
      /\ le_next' \in [Threads -> Workers \cup {Null}]
      /\ le_next'[Main] = t /\ le_next'[t] = le_next[Main]
      /\ \A v \in Threads : v # Main /\ v # t => le_next'[v] = le_next[v]
      /\ \A x \in (Linked \ {Main}) \cup {Null} : Reach(le_next', x) = Rest(x)
      /\ Reach(le_next', Main) = Rest(Main) \cup {t}
      /\ Reach(le_next', t) = {t} \cup Rest(le_next[Main])
  BY InsertList
<1>2. \A w \in Threads : w # t => pc[w] \notin ListPCs
  BY <1>1 DEF ListInv, LockInv
<1>3. /\ TypeInv' /\ pc'[t] = "insertawait" /\ iter'[t] = t
      /\ \A w \in Threads : w # t => pc'[w] = pc[w] /\ iter'[w] = iter[w]
  BY <1>1 DEF ListInv, TypeInv, PCs, Threads
<1>4. LockInv'
  BY <1>1, <1>2, <1>3 DEF LockInv, ListPCs
<1>5. \A u : ~Leaving(u) /\ ~Leaving(u)'
  BY <1>1, <1>3 DEF Leaving
<1>6. PlaceInv'
  BY <1>1, <1>2, <1>3, <1>5 DEF ListInv, PlaceInv, ListPCs, SyncPCs, Threads
<1>7. le_next[Main] \in Linked \cup {Null}
  BY ListFacts DEF ListInv, LinkInv
<1>8. LinkInv'
  <2>1. le_prev'[t] = Main /\ \A v \in Threads : v # t => le_prev'[v] = IF v = le_next[Main] THEN t ELSE le_prev[v]
    BY DEF ListInv, TypeInv
  <2>2. ASSUME NEW v \in Linked', le_next'[v] # Null
        PROVE  le_next'[v] \in Linked' /\ le_prev'[le_next'[v]] = v
    <3>1. CASE v = Main
      BY <1>1, <2>1, <3>1
    <3>2. CASE v = t
      BY <1>1, <1>7, <2>1, <2>2, <3>2 DEF Linked, Threads
    <3>3. CASE v # Main /\ v # t
      <4>1. v \in Linked /\ v \in Threads /\ le_next'[v] = le_next[v]
        BY <1>1, <3>3, ListFacts
      <4>2. le_next[v] \in Linked /\ le_prev[le_next[v]] = v
        BY <2>2, <4>1 DEF ListInv, LinkInv
      <4>3. le_next[v] # t /\ le_next[v] \in Threads
        BY <1>1, <4>2, ListFacts
      <4>4. le_next[v] # le_next[Main]
        BY <3>3, <4>2, ListFacts DEF ListInv, LinkInv
      <4> QED
        BY <1>1, <2>1, <4>1, <4>2, <4>3, <4>4
    <3> QED
      BY <3>1, <3>2, <3>3
  <2>3. ASSUME NEW v \in Linked' \ {Main}
        PROVE  le_prev'[v] \in Linked' /\ le_next'[le_prev'[v]] = v
    <3>1. CASE v = t
      BY <1>1, <2>1, <3>1, ListFacts
    <3>2. CASE v # t /\ v = le_next[Main]
      BY <1>1, <2>1, <3>2, ListFacts
    <3>3. CASE v # t /\ v # le_next[Main]
      <4>1. v \in Linked \ {Main} /\ le_prev'[v] = le_prev[v]
        BY <1>1, <2>1, <3>3, ListFacts
      <4>2. le_prev[v] \in Linked /\ le_next[le_prev[v]] = v
        BY <4>1 DEF ListInv, LinkInv
      <4>3. le_prev[v] # Main /\ le_prev[v] # t /\ le_prev[v] \in Threads
        BY <1>1, <3>3, <4>2, ListFacts
      <4> QED
        BY <1>1, <4>1, <4>2, <4>3
    <3> QED
      BY <3>1, <3>2, <3>3
  <2> QED
    BY <1>5, <2>2, <2>3 DEF LinkInv
<1>9. ReachInv'
  <2>1. Linked' \subseteq Rest(Main)'
    BY <1>1, ListFacts DEF Rest
  <2>2. ASSUME NEW v \in Linked' PROVE v \notin Reach(le_next', le_next'[v])
    <3>1. CASE v = Main
      <4>1. v \notin Rest(le_next[v])
        BY <3>1, ListFacts DEF ListInv, ReachInv
      <4> QED
        BY <1>1, <3>1, <4>1
    <3>2. CASE v = t
      <4>1. le_next[Main] \in (Linked \ {Main}) \cup {Null}
        BY <1>7, ListFacts
      <4>2. Rest(le_next[Main]) \subseteq Linked
        BY <1>7, ListFacts, ReachLeast DEF Rest
      <4> QED
        BY <1>1, <3>2, <4>1, <4>2
    <3>3. CASE v # Main /\ v # t
      <4>1. v \in Linked /\ le_next'[v] = le_next[v] /\ le_next[v] \in (Linked \ {Main}) \cup {Null}
        BY <1>1, <3>3, ListFacts DEF ListInv, LinkInv
      <4>2. v \notin Rest(le_next[v])
        BY <4>1 DEF ListInv, ReachInv
      <4> QED
        BY <1>1, <4>1, <4>2
    <3> QED
      BY <3>1, <3>2, <3>3
  <2> QED
    BY <2>1, <2>2 DEF ReachInv, Rest
<1>10. WalkInv'
  BY <1>1, <1>3, <1>5 DEF ListInv, WalkInv, WalkPCs
<1>11. AwaitInv'
  BY <1>2, <1>3 DEF AwaitInv, ListPCs
<1> QED
  BY <1>3, <1>4, <1>6, <1>8, <1>9, <1>10, <1>11 DEF ListInv

\* What thread_list_unbind does to the list.
LEMMA UnbindList ==
    ASSUME ListInv, NEW t \in Threads, Unbind(t), NEW u, u = subject[t]
    PROVE  /\ list_lock = t /\ u \in Workers /\ u \in Linked
           /\ le_prev[u] \in Linked /\ le_prev[u] # u /\ le_next[le_prev[u]] = u
           /\ \A v \in Linked : le_next[v] = u => v = le_prev[u]
           /\ le_next[u] \in (Linked \ {u}) \cup {Null}
           /\ Linked' = Linked \ {u}
           /\ le_next' = [le_next EXCEPT ![le_prev[u]] = le_next[u]]
           /\ le_next' \in [Threads -> Workers \cup {Null}]
           /\ Reach(le_next', u) = Rest(u)
           /\ \A x \in (Linked \ {u}) \cup {Null} : Reach(le_next', x) = Rest(x) \ {u}
<1> USE MainAssumption DEF Unbind
<1>1. list_lock = t /\ u \in Workers /\ u \in Linked
  <2>1. list_lock = t /\ u \in Workers /\ (u = t \/ pc[u] = "dying")
    BY DEF ListInv, LockInv, ListPCs, PlaceInv
  <2>2. ~Leaving(u)
    BY <2>1 DEF Leaving
  <2> QED
    BY <2>1, <2>2 DEF ListInv, PlaceInv
<1>2. u # Main /\ u \in Threads
  BY <1>1 DEF Threads
<1>3. le_prev[u] \in Linked /\ le_next[le_prev[u]] = u
  BY <1>1, <1>2 DEF ListInv, LinkInv
<1>4. \A v \in Linked : le_next[v] = u => v = le_prev[u]
  BY <1>2 DEF ListInv, LinkInv, Threads
<1>5. /\ le_next \in Lists /\ Linked \in SUBSET Threads /\ ClosedUnder(le_next, Linked)
      /\ u \notin Rest(le_next[u])
  BY <1>1, ListFacts DEF ListInv, ReachInv
<1>6. le_next[u] \in (Linked \ {u}) \cup {Null}
  <2>1. le_next[u] \in Linked \cup {Null}
    BY <1>1 DEF ListInv, LinkInv
  <2>2. le_next[u] \in Rest(le_next[u]) \cup {Null}
    BY <1>5, <2>1, ReachClosed DEF Rest
  <2> QED
    BY <1>5, <2>1, <2>2
<1>7. le_prev[u] # u
  BY <1>2, <1>3, <1>6 DEF Threads
<1>8. /\ le_next' = [le_next EXCEPT ![le_prev[u]] = le_next[u]]
      /\ le_prev' = [v \in Threads |-> IF v = u THEN Null
                                       ELSE IF v = le_next[u] THEN le_prev[u] ELSE le_prev[v]]
  OBVIOUS
<1>9. le_next' \in [Threads -> Workers \cup {Null}]
  BY ONLY <1>2, <1>8, ListInv DEF ListInv, TypeInv
<1>10. Linked' = Linked \ {u}
  <2>1. le_prev[u] \in Threads /\ le_prev[u] # Null
    BY <1>3, <1>5 DEF Threads
  <2>2. \A v \in Workers : le_prev'[v] # Null <=> v # u /\ le_prev[v] # Null
    BY <1>6, <1>8, <2>1 DEF Linked, Threads
  <2> QED
    BY <1>2, <2>2 DEF Linked
<1>11. le_next' \in Lists
  BY <1>9 DEF Lists, Threads
<1>12. /\ Reach(le_next', u) = Reach(le_next, u)
       /\ \A x \in (Linked \ {u}) \cup {Null} : Reach(le_next', x) = Reach(le_next, x) \ {u}
  <2>1. u \notin Reach(le_next, le_next[u])
    BY <1>5 DEF Rest
  <2> QED
    <3>1. /\ le_next \in Lists /\ le_next' \in Lists /\ Linked \in SUBSET Threads
          /\ u \in Linked /\ ClosedUnder(le_next, Linked)
      BY <1>1, <1>5, <1>11
    <3>2. PICK p \in Linked : p = le_prev[u]
      BY <1>3
    <3>3. p \in Threads
      BY <1>5
    <3>4. le_next'[p] = le_next[u] /\ \A v \in Threads : v # p => le_next'[v] = le_next[v]
      BY ONLY <1>8, <3>1, <3>2, <3>3 DEF Lists
    <3>5. le_next[p] = u /\ \A v \in Linked : le_next[v] = u => v = p
      BY <1>3, <1>4, <3>2
    <3> QED
      BY ONLY <2>1, <3>1, <3>4, <3>5, p \in Linked, ReachUnbound
<1> QED
  BY <1>1, <1>3, <1>4, <1>6, <1>7, <1>8, <1>9, <1>10, <1>12 DEF Rest

\* thread_list_unbind.
LEMMA UnbindStep ==
    ASSUME MainDoesNotSynchronize, ListInv, NEW t \in Threads, Unbind(t) PROVE ListInv'
<1> USE MainAssumption DEF Unbind, Goto
<1> DEFINE u == subject[t]
           p == le_prev[u]
<1>1. /\ list_lock = t /\ u \in Workers /\ u \in Linked
      /\ p \in Linked /\ p # u /\ le_next[p] = u
      /\ \A v \in Linked : le_next[v] = u => v = p
      /\ le_next[u] \in (Linked \ {u}) \cup {Null}
      /\ Linked' = Linked \ {u}
      /\ le_next' = [le_next EXCEPT ![p] = le_next[u]]
      /\ le_next' \in [Threads -> Workers \cup {Null}]
      /\ Reach(le_next', u) = Rest(u)
      /\ \A x \in (Linked \ {u}) \cup {Null} : Reach(le_next', x) = Rest(x) \ {u}
  BY UnbindList
<1>2. u \in Threads /\ p \in Threads /\ u # Main
  BY <1>1, ListFacts DEF Threads
<1>3. le_prev' = [v \in Threads |-> IF v = u THEN Null
                                    ELSE IF v = le_next[u] THEN p ELSE le_prev[v]]
  OBVIOUS
<1>4. iter' = [iter EXCEPT ![t] = le_next'[Main]] /\ pc' = [pc EXCEPT ![t] = "unbindawait"]
      /\ UNCHANGED <<list_lock, subject, listrcu>> /\ pc[t] = "unbind"
  OBVIOUS
<1> HIDE DEF u, p
<1>5. /\ le_next'[p] = le_next[u]
      /\ \A v \in Threads : v # p => le_next'[v] = le_next[v]
  BY <1>1, <1>2 DEF ListInv, TypeInv
<1>6. TypeInv'
  BY <1>1, <1>2, <1>3, <1>4 DEF ListInv, TypeInv, PCs, Threads
<1>7. /\ pc'[t] = "unbindawait" /\ iter'[t] = le_next'[Main]
      /\ \A w \in Threads : w # t => pc'[w] = pc[w] /\ iter'[w] = iter[w]
  BY <1>4 DEF ListInv, TypeInv
<1>8. \A w \in Threads : w # t => pc[w] \notin ListPCs
  BY <1>1 DEF ListInv, LockInv
<1>9. LockInv'
  BY <1>1, <1>4, <1>7, <1>8 DEF LockInv, ListPCs
<1>10. \A v : ~Leaving(v) /\ (Leaving(v)' <=> v = u)
  BY <1>1, <1>4, <1>7 DEF Leaving, u
<1>11. PlaceInv'
  <2>1. \A v \in Workers : v \in Linked' <=> pc'[v] \notin {"new", "entry", "gone"} /\ ~Leaving(v)'
    BY <1>1, <1>4, <1>7, <1>10 DEF ListInv, PlaceInv, Threads
  <2>2. pc'[Main] \notin {"new", "entry", "insertawait", "dead", "dying", "gone"}
    BY <1>7, ListFacts DEF ListInv, PlaceInv
  <2>3. ASSUME NEW s \in Threads, pc'[s] \in {"unbind", "unbindawait"}
        PROVE  subject[s] \in Workers /\ (subject[s] = s \/ pc'[subject[s]] = "dying")
    <3>1. s = t
      BY <1>7, <1>8, <2>3 DEF ListPCs
    <3>2. u = t \/ pc[u] = "dying"
      BY <1>4 DEF ListInv, PlaceInv, u
    <3> QED
      BY <1>1, <1>2, <1>7, <3>1, <3>2 DEF u
  <2>4. \A s \in Threads : pc'[s] \in SyncPCs => s \in Writers
    BY <1>7 DEF ListInv, PlaceInv, SyncPCs
  <2> QED
    BY <1>4, <2>1, <2>2, <2>3, <2>4 DEF PlaceInv
<1>12. LinkInv'
  <2>1. ASSUME NEW v \in Linked', le_next'[v] # Null
        PROVE  le_next'[v] \in Linked' /\ le_prev'[le_next'[v]] = v
    <3>1. v \in Linked /\ v # u /\ v \in Threads
      BY <1>1, ListFacts
    <3>2. CASE v = p
      <4>1. le_next[u] \in Linked \ {u} /\ le_next[u] \in Threads
        BY <1>1, <1>5, <2>1, <3>2, ListFacts
      <4> QED
        BY <1>1, <1>3, <1>5, <3>2, <4>1
    <3>3. CASE v # p
      <4>1. le_next[v] \in Linked /\ le_prev[le_next[v]] = v /\ le_next'[v] = le_next[v]
        BY <1>5, <2>1, <3>1, <3>3 DEF ListInv, LinkInv
      <4>2. le_next[v] # u /\ le_next[v] \in Threads
        BY <1>1, <3>1, <3>3, <4>1, ListFacts
      <4>3. le_next[v] # le_next[u]
        BY <1>1, <3>1, <4>1, <4>2 DEF ListInv, LinkInv, Threads
      <4> QED
        BY <1>1, <1>3, <4>1, <4>2, <4>3
    <3> QED
      BY <3>2, <3>3
  <2>2. ASSUME NEW v \in Linked' \ {Main}
        PROVE  le_prev'[v] \in Linked' /\ le_next'[le_prev'[v]] = v
    <3>1. v \in Linked \ {Main} /\ v # u /\ v \in Threads
      BY <1>1, ListFacts
    <3>2. CASE v = le_next[u]
      BY <1>1, <1>3, <1>5, <3>1, <3>2
    <3>3. CASE v # le_next[u]
      <4>1. le_prev'[v] = le_prev[v]
        BY <1>3, <3>1, <3>3
      <4>2. le_prev[v] \in Linked /\ le_next[le_prev[v]] = v
        BY <3>1 DEF ListInv, LinkInv
      <4>3. le_prev[v] # u /\ le_prev[v] # p /\ le_prev[v] \in Threads
        BY <1>1, <3>1, <3>3, <4>2, ListFacts
      <4> QED
        BY <1>1, <1>5, <4>1, <4>2, <4>3
    <3> QED
      BY <3>2, <3>3
  <2>3. ASSUME NEW v \in Threads, Leaving(v)' PROVE le_next'[v] \in Linked' \cup {Null}
    <3>1. v = u /\ le_next'[u] = le_next[u]
      BY <1>1, <1>2, <1>5, <1>10, <2>3
    <3> QED
      BY <1>1, <3>1
  <2> QED
    BY <2>1, <2>2, <2>3 DEF LinkInv
<1>13. ReachInv'
  <2>1. Linked' \subseteq Reach(le_next', Main)
    <3>1. Main \in Linked /\ Rest(Main) = Linked
      BY ListFacts
    <3>2. Reach(le_next', Main) = Rest(Main) \ {u}
      BY <1>1, <1>2, <3>1
    <3> QED
      BY <1>1, <3>1, <3>2
  <2>2. ASSUME NEW v \in Linked' PROVE v \notin Reach(le_next', le_next'[v])
    <3>1. v \in Linked /\ v # u /\ v \in Threads /\ v \notin Rest(le_next[v])
      BY <1>1, ListFacts DEF ListInv, ReachInv
    <3>2. CASE v = p
      <4>1. Rest(u) = {u} \cup Rest(le_next[u])
        BY <1>2, ListFacts, ReachUnfold DEF Rest
      <4>2. v \notin Rest(le_next[u])
        BY <1>1, <3>1, <3>2, <4>1
      <4> QED
        BY <1>1, <1>5, <3>2, <4>2
    <3>3. CASE v # p
      <4>1. le_next'[v] = le_next[v] /\ le_next[v] \in (Linked \ {u}) \cup {Null}
        BY <1>1, <1>5, <3>1, <3>3 DEF ListInv, LinkInv
      <4> QED
        BY <1>1, <3>1, <4>1
    <3> QED
      BY <3>2, <3>3
  <2> QED
    BY <2>1, <2>2 DEF ReachInv, Rest
<1>14. WalkInv'
  BY <1>1, <1>4, <1>7, <1>10 DEF ListInv, WalkInv, WalkPCs
<1>15. AwaitInv'
  <2>1. SUFFICES ASSUME NEW s \in Threads, NEW w \in Threads,
                        pc'[s] = "unbindawait", pc'[w] \in WalkPCs, iter'[w] = subject'[s]
                 PROVE  w \in Reach(le_next', iter'[s])
    BY DEF AwaitInv, Rest
  <2>2. s = t
    BY <1>7, <1>8, <2>1 DEF ListPCs
  <2>3. w # t /\ pc[w] \in WalkPCs
    BY <1>7, <2>1 DEF WalkPCs
  <2>4. w \in Linked /\ w # Main
    <3>1. w \in Workers /\ w # Main
      BY <2>3 DEF ListInv, PlaceInv, MainDoesNotSynchronize, WalkPCs, SyncPCs, Threads
    <3> QED
      BY <1>10, <2>3, <3>1 DEF ListInv, PlaceInv, WalkPCs
  <2>5. w # u
    BY <1>4, <2>3 DEF ListInv, PlaceInv, WalkPCs, u
  <2>6. w \in Reach(le_next', Main)
    <3>1. Main \in Linked /\ Rest(Main) = Linked
      BY ListFacts
    <3>2. Reach(le_next', Main) = Rest(Main) \ {u}
      BY <1>1, <1>2, <3>1
    <3> QED
      BY <2>4, <2>5, <3>1, <3>2
  <2>7. Reach(le_next', Main) = {Main} \cup Reach(le_next', le_next'[Main])
    <3>1. le_next' \in Lists
      BY <1>1 DEF Lists, Threads
    <3> QED
      BY ONLY <3>1, ReachUnfold, ListFacts, ListInv
  <2> QED
    BY <1>7, <2>2, <2>4, <2>6, <2>7
<1> QED
  BY <1>6, <1>9, <1>11, <1>12, <1>13, <1>14, <1>15 DEF ListInv

\* What the release of the memory of an unbound thread does to the list.
LEMMA UnboundList ==
    ASSUME ListInv, NEW t \in Threads, Unbound(t), NEW u, u = subject[t]
    PROVE  /\ list_lock = t /\ u \in Workers /\ u \notin Linked
           /\ Linked' = Linked
           /\ le_next' = [le_next EXCEPT ![u] = Null]
           /\ \A w \in Threads : pc[w] \in WalkPCs => iter[w] \in Linked
           /\ \A x \in Linked \cup {Null} : Reach(le_next', x) = Rest(x)
<1> USE MainAssumption DEF Unbound
<1>1. list_lock = t /\ u \in Workers /\ Leaving(u) /\ \A v : Leaving(v) => v = u
  BY DEF ListInv, LockInv, ListPCs, PlaceInv, Leaving
<1>2. u \notin Linked
  BY <1>1 DEF ListInv, PlaceInv
<1>3. Linked' = Linked
  BY DEF Linked
<1>4. le_next' = [le_next EXCEPT ![u] = Null]
  OBVIOUS
<1>5. ASSUME NEW w \in Threads, pc[w] \in WalkPCs PROVE iter[w] \in Linked
  <2>1. iter[w] # u
    BY <1>5, ListFacts DEF ListInv, AwaitInv
  <2> QED
    BY <1>1, <1>5, <2>1 DEF ListInv, WalkInv
<1>6. le_next' \in Lists
  BY <1>1, <1>4 DEF ListInv, TypeInv, Lists, Threads
<1>7. \A v \in Linked : le_next'[v] = le_next[v]
  BY <1>1, <1>2, <1>4, ListFacts DEF ListInv, TypeInv
<1>8. \A x \in Linked \cup {Null} : Reach(le_next', x) = Reach(le_next, x)
  <2>1. le_next \in Lists /\ Linked \in SUBSET Threads /\ ClosedUnder(le_next, Linked)
    BY ListFacts
  <2> QED
    BY ONLY <1>6, <1>7, <2>1, ReachSame
<1> QED
  BY <1>1, <1>2, <1>3, <1>4, <1>5, <1>8 DEF Rest

\* The memory of an unbound thread is given back.
LEMMA UnboundStep == ASSUME ListInv, NEW t \in Threads, Unbound(t) PROVE ListInv'
<1> USE MainAssumption DEF Unbound
<1> DEFINE u == subject[t]
<1>1. /\ list_lock = t /\ u \in Workers /\ u \notin Linked
      /\ Linked' = Linked
      /\ le_next' = [le_next EXCEPT ![u] = Null]
      /\ \A w \in Threads : pc[w] \in WalkPCs => iter[w] \in Linked
      /\ \A x \in Linked \cup {Null} : Reach(le_next', x) = Rest(x)
  BY UnboundList
<1>2. /\ list_lock' = Null /\ pc[t] = "unbindawait"
      /\ pc' = [pc EXCEPT ![t] = IF u = t THEN "gone" ELSE "idle", ![u] = "gone"]
      /\ subject' = [subject EXCEPT ![t] = Null]
      /\ UNCHANGED <<le_prev, iter, listrcu>>
  OBVIOUS
<1>3. u = t \/ pc[u] = "dying"
  BY DEF ListInv, PlaceInv
<1>4. Leaving(u) /\ \A v : Leaving(v) => v = u
  BY <1>1, <1>2 DEF Leaving
<1> HIDE DEF u
<1>5. u \in Threads /\ u # Main
  BY <1>1 DEF Threads
<1>6. TypeInv'
  BY ONLY <1>1, <1>2, <1>5, ListInv, t \in Threads DEF ListInv, TypeInv, PCs, Threads
<1>7. /\ pc'[u] = "gone" /\ (u # t => pc'[t] = "idle")
      /\ \A w \in Threads : w # t /\ w # u => pc'[w] = pc[w] /\ subject'[w] = subject[w]
  BY <1>2, <1>5 DEF ListInv, TypeInv
<1>8. \A w \in Threads : w # t => pc[w] \notin ListPCs
  BY <1>1 DEF ListInv, LockInv
<1>9. \A w \in Threads : pc'[w] \notin ListPCs
  BY <1>7, <1>8 DEF ListPCs
<1>10. LockInv'
  BY <1>2, <1>9 DEF LockInv, Threads
<1>11. \A v : ~Leaving(v)'
  BY <1>2 DEF Leaving, Threads
<1>12. PlaceInv'
  <2>a. \A v \in Workers : v \in Linked <=> pc[v] \notin {"new", "entry", "gone"} /\ ~Leaving(v)
    BY DEF ListInv, PlaceInv
  <2>b. \A v \in Workers : v # t /\ v # u => pc'[v] = pc[v]
    BY <1>7 DEF Threads
  <2>c. Linked' = Linked
    BY <1>2 DEF Linked
  <2>d. u # t => pc[t] = "unbindawait" /\ pc'[t] = "idle"
    BY <1>1, <1>7
  <2>1. \A v \in Workers : v \in Linked' <=> pc'[v] \notin {"new", "entry", "gone"} /\ ~Leaving(v)'
    BY <1>4, <1>7, <1>11, <2>a, <2>b, <2>c, <2>d
  <2>2. pc'[Main] \notin {"new", "entry", "insertawait", "dead", "dying", "gone"}
    BY <1>5, <1>7, ListFacts DEF ListInv, PlaceInv
  <2>3. \A s \in Threads : pc'[s] \in SyncPCs => s \in Writers
    BY <1>7 DEF ListInv, PlaceInv, SyncPCs
  <2> QED
    BY <1>9, <2>1, <2>2, <2>3 DEF PlaceInv, ListPCs
<1>13. \A v \in Linked : le_next'[v] = le_next[v]
  BY <1>1, ListFacts DEF ListInv, TypeInv
<1>14. LinkInv'
  BY <1>1, <1>2, <1>11, <1>13 DEF ListInv, LinkInv
<1>15. ReachInv'
  <2>1. \A v \in Linked : le_next[v] \in Linked \cup {Null}
    BY DEF ListInv, LinkInv
  <2>2. \A v \in Linked : v \notin Reach(le_next', le_next'[v])
    <3>1. ASSUME NEW v \in Linked PROVE v \notin Reach(le_next', le_next'[v])
      <4>1. le_next'[v] = le_next[v] /\ Reach(le_next', le_next[v]) = Rest(le_next[v])
        BY <1>1, <1>13, <2>1
      <4>2. v \notin Rest(le_next[v])
        BY DEF ListInv, ReachInv
      <4> QED
        BY <4>1, <4>2
    <3> QED
      BY <3>1
  <2>3. Linked \subseteq Reach(le_next', Main)
    BY <1>1, ListFacts
  <2> QED
    BY <1>1, <2>2, <2>3 DEF ReachInv, Rest
<1>16. WalkInv'
  BY <1>1, <1>2, <1>7 DEF ListInv, WalkInv, WalkPCs
<1>17. AwaitInv'
  BY <1>9 DEF AwaitInv, ListPCs
<1> QED
  BY <1>6, <1>10, <1>12, <1>14, <1>15, <1>16, <1>17 DEF ListInv

\* Every step keeps the invariant of the list.
LEMMA NextListInv == ASSUME MainDoesNotSynchronize, ListInv, [Next]_vars PROVE ListInv'
<1>1. ASSUME NEW t \in Threads, Listing(t) PROVE ListInv'
  BY <1>1, InsertStep, UnbindStep, AwaitStep, InsertedStep, UnboundStep DEF Listing
<1>2. CASE UNCHANGED vars
  BY <1>2 DEF vars, list, ListInv, TypeInv, LockInv, PlaceInv, LinkInv, ReachInv, WalkInv,
              AwaitInv, Linked, Leaving, Rest
<1> QED
  BY <1>1, <1>2, ReadStep, SyncStep, AcquireStep, TerminateStep, SwapStep, DestroyStep DEF Next

\* A thread that a walk stands on is not gone.
LEMMA WalkersStand ==
    ASSUME ListInv, NEW t \in Threads, pc[t] \in WalkPCs
    PROVE  iter[t] \in Threads /\ pc[iter[t]] # "gone"
<1>1. iter[t] \in Linked \/ Leaving(iter[t])
  BY DEF ListInv, WalkInv
<1>2. CASE iter[t] \in Linked
  BY <1>2 DEF ListInv, PlaceInv, Linked, Threads
<1>3. CASE Leaving(iter[t])
  BY <1>3 DEF ListInv, PlaceInv, Leaving, Threads
<1> QED
  BY <1>1, <1>2, <1>3

\* thread_list_lock_await_rcu: no scan stands on a thread whose memory was given back,
\* for any number of threads that start, end and scan, if the main thread does not
\* scan.
THEOREM WalkSafety == ASSUME MainDoesNotSynchronize PROVE Spec => []WalksLiveThreads
<1>1. ListInv => WalksLiveThreads
  BY WalkersStand DEF WalksLiveThreads, WalkPCs
<1>2. ListInv /\ [Next]_vars => ListInv'
  BY NextListInv
<1> QED
  BY <1>1, <1>2, InitListInv, PTL DEF Spec

-----------------------------------------------------------------------------
(* A walk along the list is a scan of the registered threads *)

QuietPCs == {"new", "entry", "idle", "unbind", "insertawait", "unbindawait", "dead", "dying", "gone"}

\* The place of a running thread in the abstract specification.
Stage(label) == IF label \in {"flag", "scan", "next", "free"} THEN "scan" ELSE label

\* The mapping as functions.
LEMMA Mapping ==
    /\ places \in [Threads -> {Abstract(t) : t \in Threads}]
    /\ left \in [Threads -> SUBSET Threads]
    /\ \A t \in Threads : places[t] = Abstract(t) /\ left[t] = Left(t)
<1>1. \A t : Left(t) \in SUBSET Threads
  BY DEF Left, Rest, Reach
<1> QED
  BY <1>1 DEF places, left

\* The same after a step.
LEMMA MappingPrime ==
    /\ places' \in [Threads -> {Abstract(t)' : t \in Threads}]
    /\ left' \in [Threads -> SUBSET Threads]
    /\ \A t \in Threads : places'[t] = Abstract(t)' /\ left'[t] = Left(t)'
<1>1. \A t : Left(t)' \in SUBSET Threads
  BY DEF Left, Rest, Reach
<1> QED
  BY <1>1 DEF places, left

\* The registered threads are those in the list.
LEMMA RegisteredLinked == ASSUME ListInv PROVE A!Registered = Linked
<1>1. \A t \in Threads : Abstract(t) # "off" <=> t \in Linked
  BY DEF Abstract
<1> QED
  BY <1>1, Mapping, ListFacts DEF A!Registered

\* A thread that runs is in the list.
LEMMA RunningLinked == ASSUME ListInv, NEW t \in Threads, pc[t] \in RunPCs PROVE t \in Linked
<1>1. ~Leaving(t)
  BY DEF ListInv, PlaceInv, Leaving, RunPCs, SyncPCs
<1> QED
  BY <1>1, ListFacts DEF ListInv, PlaceInv, RunPCs, SyncPCs, Threads

\* One thread moves on, and the list stays as it is.
LEMMA RunMaps ==
    ASSUME ListInv, NEW t \in Threads, NEW label \in RunPCs,
           pc[t] \in RunPCs, pc' = [pc EXCEPT ![t] = label],
           UNCHANGED list, \A w \in Threads : w # t => iter'[w] = iter[w]
    PROVE  /\ places[t] = Stage(pc[t])
           /\ places' = [places EXCEPT ![t] = Stage(label)]
           /\ left' = [left EXCEPT ![t] = Left(t)']
<1>1. t \in Linked /\ Linked' = Linked
  BY RunningLinked DEF Linked, list
<1>2. pc'[t] = label /\ \A w \in Threads : w # t => pc'[w] = pc[w]
  BY DEF ListInv, TypeInv
<1>3. Abstract(t) = Stage(pc[t])
  BY <1>1 DEF Abstract, Stage, RunPCs, SyncPCs
<1>4. Abstract(t)' = Stage(label)
  BY <1>1, <1>2 DEF Abstract, Stage, RunPCs, SyncPCs
<1>5. ASSUME NEW w \in Threads, w # t PROVE Abstract(w)' = Abstract(w) /\ Left(w)' = Left(w)
  <2>1. pc'[w] = pc[w] /\ iter'[w] = iter[w] /\ UNCHANGED le_next
    BY <1>2, <1>5 DEF list
  <2>2. Abstract(w)' = Abstract(w)
    BY <1>1, <2>1 DEF Abstract
  <2>3. Left(w)' = Left(w)
    BY <2>1 DEF Left, Rest
  <2> QED
    BY <2>2, <2>3
<1> QED
  BY <1>3, <1>4, <1>5, Mapping, MappingPrime

\* Steps that are none of RCU.
LEMMA Stutters ==
    ASSUME Linked' = Linked,
           \A w \in Threads : pc'[w] = pc[w] \/ (pc[w] \in QuietPCs /\ pc'[w] \in QuietPCs),
           \A w \in Threads : pc[w] \notin QuietPCs => Left(w)' = Left(w)
    PROVE  UNCHANGED <<places, left>>
<1>1. ASSUME NEW w \in Threads PROVE Abstract(w)' = Abstract(w)
  BY <1>1 DEF Abstract, QuietPCs, SyncPCs
<1>2. ASSUME NEW w \in Threads, pc[w] \in QuietPCs PROVE Left(w)' = Left(w)
  BY <1>2 DEF Left, QuietPCs, SyncPCs
<1>3. \A w \in Threads : Left(w)' = Left(w)
  BY <1>2
<1> QED
  BY <1>1, <1>3 DEF places, left

\* Where a walk stands, it meets what comes next and not the same thread again.
LEMMA WalkUnfolds ==
    ASSUME ListInv, NEW t \in Threads, pc[t] \in WalkPCs
    PROVE  /\ iter[t] \in Threads
           /\ le_next[iter[t]] \in Linked \cup {Null}
           /\ Rest(iter[t]) = {iter[t]} \cup Rest(le_next[iter[t]])
           /\ iter[t] \notin Rest(le_next[iter[t]])
<1>1. iter[t] \in Threads /\ (iter[t] \in Linked \/ Leaving(iter[t]))
  BY WalkersStand DEF ListInv, WalkInv
<1>2. Rest(iter[t]) = {iter[t]} \cup Rest(le_next[iter[t]])
  BY <1>1, ListFacts, ReachUnfold DEF Rest
<1>3. le_next[iter[t]] \in Linked \cup {Null}
  BY <1>1 DEF ListInv, LinkInv
<1>4. CASE iter[t] \in Linked
  BY <1>1, <1>2, <1>3, <1>4 DEF ListInv, ReachInv
<1>5. CASE Leaving(iter[t])
  <2>1. iter[t] \notin Linked
    BY <1>5 DEF ListInv, PlaceInv, Leaving
  <2>2. Linked \in SUBSET Threads /\ ClosedUnder(le_next, Linked)
    BY ListFacts
  <2>3. Rest(le_next[iter[t]]) \subseteq Linked
    BY ONLY <1>3, <2>2, ReachLeast DEF Rest
  <2> QED
    BY <1>1, <1>2, <1>3, <2>1, <2>3
<1> QED
  BY <1>1, <1>4, <1>5

\* A reader's step is the same step of RCU.
LEMMA ReadMaps == ASSUME ListInv, NEW t \in Threads, Read(t) PROVE [A!Next]_(A!vars)
<1> USE DEF RunPCs, SyncPCs, Goto, A!Goto, list
<1>1. CASE LockLoad(t)
  <2>1. /\ places[t] = "idle" /\ places' = [places EXCEPT ![t] = "lock"]
        /\ left' = [left EXCEPT ![t] = Left(t)']
    BY <1>1, RunMaps DEF LockLoad, Stage
  <2>2. Left(t) = {} /\ Left(t)' = {}
    BY <1>1 DEF LockLoad, Left, ListInv, TypeInv
  <2>3. left' = left
    BY <2>1, <2>2, Mapping
  <2> QED
    BY <1>1, <2>1, <2>3 DEF LockLoad, A!LockLoad, A!Next
<1>2. CASE LockStore(t)
  <2>1. /\ places[t] = "lock" /\ places' = [places EXCEPT ![t] = "in"]
        /\ left' = [left EXCEPT ![t] = Left(t)']
    BY <1>2, RunMaps DEF LockStore, Stage
  <2>2. Left(t) = {} /\ Left(t)' = {}
    BY <1>2 DEF LockStore, Left, ListInv, TypeInv
  <2>3. left' = left
    BY <2>1, <2>2, Mapping
  <2> QED
    BY <1>2, <2>1, <2>3 DEF LockStore, A!LockStore, A!Next
<1>3. CASE Get(t)
  <2>1. t \in Linked
    BY <1>3, RunningLinked DEF Get
  <2>2. places[t] = "in"
    BY <1>3, <2>1, Mapping DEF Get, Abstract
  <2>3. UNCHANGED <<places, left>>
    BY <1>3 DEF Get, places, left, Abstract, Left, Rest, Linked
  <2> QED
    BY <1>3, <2>2, <2>3 DEF Get, A!Get, A!Next
<1>4. CASE Unlock(t)
  <2>1. /\ places[t] = "in" /\ places' = [places EXCEPT ![t] = "idle"]
        /\ left' = [left EXCEPT ![t] = Left(t)']
    BY <1>4, RunMaps DEF Unlock, Stage
  <2>2. Left(t) = {} /\ Left(t)' = {}
    BY <1>4 DEF Unlock, Left, ListInv, TypeInv
  <2>3. left' = left
    BY <2>1, <2>2, Mapping
  <2> QED
    BY <1>4, <2>1, <2>3 DEF Unlock, A!Unlock, A!Next
<1> QED
  BY <1>1, <1>2, <1>3, <1>4 DEF Read

\* The exchange of the pointer is that of RCU.
LEMMA SwapMaps ==
    ASSUME ListInv, NEW t \in Threads, NEW o \in Objs, Swap(t, o) PROVE [A!Next]_(A!vars)
<1> USE DEF RunPCs, SyncPCs, Goto, A!Goto, list
<1>1. /\ places[t] = "idle" /\ places' = [places EXCEPT ![t] = "load"]
      /\ left' = [left EXCEPT ![t] = Left(t)']
  BY RunMaps DEF Swap, Stage
<1>2. Left(t) = {} /\ Left(t)' = {}
  BY DEF Swap, Left, ListInv, TypeInv
<1>3. left' = left
  BY <1>1, <1>2, Mapping
<1> QED
  BY <1>1, <1>3 DEF Swap, A!Swap, A!Next

\* DeeRCU_Synchronize: the thread that the walk looks at is visited, and a step along
\* the list shows nothing.
LEMMA SyncMaps == ASSUME ListInv, NEW t \in Threads, Sync(t) PROVE [A!Next]_(A!vars)
<1> USE DEF RunPCs, SyncPCs, Goto, A!Goto, list
<1>1. CASE SyncLoad(t)
  <2>1. /\ places[t] = "load" /\ places' = [places EXCEPT ![t] = "cas"]
        /\ left' = [left EXCEPT ![t] = Left(t)']
    BY <1>1, RunMaps DEF SyncLoad, Stage
  <2>2. Left(t) = {} /\ Left(t)' = {}
    BY <1>1 DEF SyncLoad, Left, ListInv, TypeInv
  <2>3. left' = left
    BY <2>1, <2>2, Mapping
  <2> QED
    BY <1>1, <2>1, <2>3 DEF SyncLoad, A!SyncLoad, A!Next
<1>2. CASE SyncCas(t) /\ pc' = [pc EXCEPT ![t] = "flag"] /\ rcul_version = version[t]
                      /\ rcul_version' = version[t] + 1
  <2>1. /\ places[t] = "cas" /\ places' = [places EXCEPT ![t] = "scan"]
        /\ left' = [left EXCEPT ![t] = Left(t)']
    BY <1>2, RunMaps DEF SyncCas, Stage
  <2>2. Left(t)' = Rest(Main)
    BY <1>2 DEF SyncCas, Left, Rest, ListInv, TypeInv
  <2>3. left' = [left EXCEPT ![t] = A!Registered]
    BY <2>1, <2>2, ListFacts, RegisteredLinked
  <2> QED
    BY <1>2, <2>1, <2>3 DEF SyncCas, A!SyncCas, A!Next
<1>3. CASE SyncCas(t) /\ pc' = [pc EXCEPT ![t] = "load"] /\ UNCHANGED rcul_version
  <2>1. /\ places[t] = "cas" /\ places' = [places EXCEPT ![t] = "load"]
        /\ left' = [left EXCEPT ![t] = Left(t)']
    BY <1>3, RunMaps DEF SyncCas, Stage
  <2>2. Left(t) = {} /\ Left(t)' = {}
    BY <1>3 DEF SyncCas, Left, ListInv, TypeInv
  <2>3. left' = left
    BY <2>1, <2>2, Mapping
  <2> QED
    BY <1>3, <2>1, <2>3 DEF SyncCas, A!SyncCas, A!Next
<1>4. CASE Flag(t)
  <2>1. /\ places[t] = "scan" /\ places' = [places EXCEPT ![t] = "scan"]
        /\ left' = [left EXCEPT ![t] = Left(t)']
    BY <1>4, RunMaps DEF Flag, StartScan, Stage, ListInv, TypeInv
  <2>2. pc[t] = "flag" /\ pc'[t] = "scan" /\ iter'[t] = Main /\ le_next' = le_next
    BY <1>4 DEF Flag, StartScan, ListInv, TypeInv
  <2>3. Left(t) = Rest(Main) /\ Left(t)' = Rest(Main)
    BY <2>2 DEF Left, Rest
  <2>4. UNCHANGED <<places, left>>
    BY <2>1, <2>3, Mapping
  <2> QED
    BY <1>4, <2>4 DEF Flag, StartScan, rcu, A!vars
<1>5. CASE Scan(t)
  <2>1. /\ places[t] = "scan" /\ places' = [places EXCEPT ![t] = "scan"]
        /\ left' = [left EXCEPT ![t] = Left(t)']
    BY <1>5, RunMaps DEF Scan, Stage
  <2>2. /\ iter[t] \in Threads
        /\ Rest(iter[t]) = {iter[t]} \cup Rest(le_next[iter[t]])
    BY <1>5, WalkUnfolds DEF Scan, WalkPCs
  <2>3. pc[t] = "scan" /\ pc'[t] = "next" /\ iter' = iter /\ le_next' = le_next
    BY <1>5 DEF Scan, ListInv, TypeInv
  <2>4. Left(t) = Rest(iter[t]) /\ Left(t)' = Rest(iter[t]) \ {iter[t]}
    BY <2>3 DEF Left, Rest
  <2>5. /\ places' = places
        /\ iter[t] \in left[t] /\ left' = [left EXCEPT ![t] = left[t] \ {iter[t]}]
    BY <2>1, <2>2, <2>4, Mapping
  <2>6. A!Passed(iter[t], version[t])
    BY <1>5 DEF Scan, Passes, A!Passed
  <2>7. A!Visit(t, iter[t])
    BY <1>5, <2>1, <2>5, <2>6 DEF Scan, rcu, A!Visit
  <2> QED
    BY <2>2, <2>7 DEF A!Next
<1>6. CASE Reread(t)
  <2>1. t \in Linked
    BY <1>6, RunningLinked DEF Reread
  <2>2. places[t] = "scan"
    BY <1>6, <2>1, Mapping DEF Reread, Abstract
  <2>3. UNCHANGED <<places, left>>
    BY <1>6 DEF Reread, places, left, Abstract, Left, Rest, Linked
  <2>4. iter[t] \in Threads /\ iter[t] \in Rest(iter[t])
    BY <1>6, WalkUnfolds DEF Reread, WalkPCs
  <2>5. iter[t] \in left[t]
    BY <1>6, <2>4, Mapping DEF Reread, Left
  <2>6. ~A!Passed(iter[t], version[t])
    BY <1>6 DEF Reread, Passes, A!Passed
  <2>7. A!Reread(t)
    BY <1>6, <2>2, <2>3, <2>5, <2>6 DEF Reread, A!Reread
  <2> QED
    BY <2>7 DEF A!Next
<1>7. CASE Advance(t)
  <2>1. PICK label \in {"free", "scan"} :
            /\ pc' = [pc EXCEPT ![t] = label]
            /\ label = "free" <=> le_next[iter[t]] = Null
    BY <1>7 DEF Advance, AdvanceClearing
  <2>2. /\ pc[t] = "next" /\ pc'[t] = label /\ le_next' = le_next
        /\ iter'[t] = le_next[iter[t]] /\ \A w \in Threads : w # t => iter'[w] = iter[w]
    BY <1>7, <2>1 DEF Advance, AdvanceClearing, ListInv, TypeInv
  <2>3. /\ places[t] = "scan" /\ places' = [places EXCEPT ![t] = "scan"]
        /\ left' = [left EXCEPT ![t] = Left(t)']
    BY <1>7, <2>1, <2>2, RunMaps DEF Advance, AdvanceClearing, Stage
  <2>4. /\ Rest(iter[t]) = {iter[t]} \cup Rest(le_next[iter[t]])
        /\ iter[t] \notin Rest(le_next[iter[t]])
    BY <2>2, WalkUnfolds DEF WalkPCs
  <2>5. Left(t) = Rest(le_next[iter[t]])
    BY <2>2, <2>4 DEF Left
  <2>6. Left(t)' = Rest(le_next[iter[t]])
    <3>1. CASE label = "free"
      <4>1. Left(t)' = {}
        BY <2>2, <3>1 DEF Left
      <4> QED
        BY <2>1, <3>1, <4>1, ListFacts
    <3>2. CASE label = "scan"
      BY <2>2, <3>2 DEF Left, Rest
    <3> QED
      BY <2>1, <3>1, <3>2
  <2>7. UNCHANGED <<places, left>>
    BY <2>3, <2>5, <2>6, Mapping
  <2> QED
    BY <1>7, <2>7 DEF Advance, AdvanceClearing, rcu, A!vars
<1>8. CASE Free(t)
  <2>1. /\ places[t] = "scan" /\ places' = [places EXCEPT ![t] = "idle"]
        /\ left' = [left EXCEPT ![t] = Left(t)']
    BY <1>8, RunMaps DEF Free, Stage
  <2>2. Left(t) = {} /\ Left(t)' = {}
    BY <1>8 DEF Free, Left, ListInv, TypeInv
  <2>3. left' = left /\ left[t] = {}
    BY <2>1, <2>2, Mapping
  <2> QED
    BY <1>8, <2>1, <2>3 DEF Free, A!Free, A!Next
<1> QED
  BY <1>1, <1>2, <1>3, <1>4, <1>5, <1>6, <1>7, <1>8 DEF Sync, SyncCas

\* Who waits for the list, has it or gives it back does not show.
LEMMA QuietMaps ==
    ASSUME ListInv, NEW t \in Threads,
           \/ Acquire(t) \/ Terminate(t) \/ Await(t) \/ Inserted(t)
           \/ \E u \in Workers : Destroy(t, u)
    PROVE  UNCHANGED A!vars
<1> USE DEF QuietPCs, Goto
<1>1. UNCHANGED <<rcu, le_next, le_prev>>
  BY DEF Acquire, Terminate, Await, AwaitPast, Inserted, Destroy, list
<1>2. Linked' = Linked
  BY <1>1 DEF Linked
<1>3. \A w \in Threads : pc'[w] = pc[w] \/ (pc[w] \in QuietPCs /\ pc'[w] \in QuietPCs)
  <2>1. pc \in [Threads -> PCs] /\ Workers \subseteq Threads
    BY DEF ListInv, TypeInv, Threads
  <2>2. CASE Acquire(t) \/ Inserted(t)
    BY <2>1, <2>2 DEF Acquire, Inserted
  <2>3. CASE Terminate(t)
    BY <2>1, <2>3 DEF Terminate
  <2>4. CASE Await(t)
    BY <2>4 DEF Await, AwaitPast
  <2>5. ASSUME NEW u \in Workers, Destroy(t, u)
        PROVE  \A w \in Threads : pc'[w] = pc[w] \/ (pc[w] \in QuietPCs /\ pc'[w] \in QuietPCs)
    BY <2>1, <2>5 DEF Destroy
  <2> QED
    BY <2>2, <2>3, <2>4, <2>5
<1>4. ASSUME NEW w \in Threads, pc[w] \notin QuietPCs PROVE iter'[w] = iter[w] /\ pc'[w] = pc[w]
  BY <1>3, <1>4 DEF Acquire, Terminate, Await, AwaitPast, Inserted, Destroy, ListInv, TypeInv
<1>5. \A w \in Threads : pc[w] \notin QuietPCs => Left(w)' = Left(w)
  BY <1>1, <1>4 DEF Left, Rest
<1>6. UNCHANGED <<places, left>>
  BY <1>2, <1>3, <1>5, Stutters
<1> QED
  BY <1>1, <1>6 DEF rcu, A!vars

\* thread_list_insert registers the thread: scans before the main thread's successor
\* meet it, the others do not.
LEMMA InsertMaps == ASSUME ListInv, NEW t \in Threads, Insert(t) PROVE [A!Next]_(A!vars)
<1>1. /\ list_lock = t /\ t \in Workers /\ t \notin Linked
      /\ Linked' = Linked \cup {t}
      /\ \A x \in (Linked \ {Main}) \cup {Null} : Reach(le_next', x) = Rest(x)
      /\ Reach(le_next', Main) = Rest(Main) \cup {t}
  BY InsertList
<1>2. /\ pc[t] = "entry" /\ pc'[t] = "insertawait" /\ UNCHANGED rcu
      /\ \A w \in Threads : w # t => pc'[w] = pc[w] /\ iter'[w] = iter[w]
  BY DEF Insert, Goto, ListInv, TypeInv
<1>3. \A u : ~Leaving(u)
  BY <1>1, <1>2 DEF Leaving
<1>4. places[t] = "off" /\ places'[t] = "idle"
  BY <1>1, <1>2, Mapping, MappingPrime DEF Abstract
<1>5. \A w \in Threads : w # t => places'[w] = places[w]
  BY <1>1, <1>2, Mapping, MappingPrime DEF Abstract
<1>6. places' = [places EXCEPT ![t] = "idle"]
  BY <1>4, <1>5, Mapping, MappingPrime
<1>7. ASSUME NEW w \in Threads PROVE Left(w)' \in {Left(w), Left(w) \cup {t}}
  <2>1. CASE w = t
    BY <1>2, <2>1 DEF Left
  <2>2. CASE w # t /\ pc[w] = "flag"
    BY <1>1, <1>2, <2>2 DEF Left, Rest
  <2>3. CASE w # t /\ pc[w] \in WalkPCs
    <3>1. iter[w] \in Linked /\ iter'[w] = iter[w] /\ pc'[w] = pc[w]
      BY <1>2, <1>3, <2>3 DEF ListInv, WalkInv
    <3>2. Rest(iter[w])' \in {Rest(iter[w]), Rest(iter[w]) \cup {t}}
      <4>1. Rest(iter[w])' = Reach(le_next', iter[w])
        BY <3>1 DEF Rest
      <4> QED
        BY <1>1, <3>1, <4>1
    <3>3. iter[w] # t
      BY <1>1, <3>1
    <3> QED
      BY <2>3, <3>1, <3>2, <3>3 DEF Left, WalkPCs
  <2>4. CASE w # t /\ pc[w] \notin WalkPCs \cup {"flag"}
    BY <1>2, <2>4 DEF Left, WalkPCs
  <2> QED
    BY <2>1, <2>2, <2>3, <2>4
<1>8. left' \in [Threads -> SUBSET Threads]
      /\ \A w \in Threads : left'[w] \in {left[w], left[w] \cup {t}}
  BY <1>7, Mapping, MappingPrime
<1>9. A!Start(t)
  BY <1>2, <1>4, <1>6, <1>8 DEF A!Start, A!Goto, rcu
<1> QED
  BY <1>9 DEF A!Next

\* thread_list_unbind takes the thread off the register: a scan that stands on it is
\* not disturbed, the others do not meet it any more.
LEMMA UnbindMaps == ASSUME ListInv, NEW t \in Threads, Unbind(t) PROVE [A!Next]_(A!vars)
<1>1. PICK u : u = subject[t]
  OBVIOUS
<1>2. /\ list_lock = t /\ u \in Workers /\ u \in Linked
      /\ Linked' = Linked \ {u}
      /\ Reach(le_next', u) = Rest(u)
      /\ \A x \in (Linked \ {u}) \cup {Null} : Reach(le_next', x) = Rest(x) \ {u}
  BY <1>1, UnbindList
<1>3. /\ pc[t] = "unbind" /\ pc'[t] = "unbindawait" /\ UNCHANGED rcu
      /\ \A w \in Threads : w # t => pc'[w] = pc[w] /\ iter'[w] = iter[w]
  BY DEF Unbind, Goto, ListInv, TypeInv
<1>4. \A v : ~Leaving(v)
  BY <1>2, <1>3 DEF Leaving
<1>5. u \in Threads /\ u # Main /\ (u = t \/ pc[u] = "dying")
  BY <1>1, <1>2, <1>3, MainAssumption DEF ListInv, PlaceInv, Threads
<1>6. places[u] = "idle" /\ places'[u] = "off"
  BY <1>2, <1>3, <1>5, Mapping, MappingPrime DEF Abstract
<1>7. \A w \in Threads : w # u => places'[w] = places[w]
  BY <1>2, <1>3, Mapping, MappingPrime DEF Abstract
<1>8. places' = [places EXCEPT ![u] = "off"]
  BY <1>5, <1>6, <1>7, Mapping, MappingPrime
<1>9. ASSUME NEW w \in Threads PROVE Left(w)' \in {Left(w), Left(w) \ {u}}
  <2>1. CASE w = t
    BY <1>3, <2>1 DEF Left
  <2>2. CASE w # t /\ pc[w] = "flag"
    BY <1>2, <1>3, <1>5, <2>2, ListFacts DEF Left, Rest
  <2>3. CASE w # t /\ pc[w] \in WalkPCs
    <3>1. iter[w] \in Linked /\ iter'[w] = iter[w] /\ pc'[w] = pc[w]
      BY <1>3, <1>4, <2>3 DEF ListInv, WalkInv
    <3>2. Rest(iter[w])' \in {Rest(iter[w]), Rest(iter[w]) \ {u}}
      <4>1. Rest(iter[w])' = Reach(le_next', iter[w])
        BY <3>1 DEF Rest
      <4> QED
        BY <1>2, <3>1, <4>1
    <3> QED
      BY <2>3, <3>1, <3>2 DEF Left, WalkPCs
  <2>4. CASE w # t /\ pc[w] \notin WalkPCs \cup {"flag"}
    BY <1>3, <2>4 DEF Left, WalkPCs
  <2> QED
    BY <2>1, <2>2, <2>3, <2>4
<1>10. left' \in [Threads -> SUBSET Threads]
       /\ \A w \in Threads : left'[w] \in {left[w], left[w] \ {u}}
  BY <1>9, Mapping, MappingPrime
<1>11. A!Exit(u)
  BY <1>3, <1>6, <1>8, <1>10 DEF A!Exit, A!Goto, rcu
<1> QED
  BY <1>5, <1>11 DEF A!Next

\* Nobody stands on the thread whose memory is given back, and nothing shows.
LEMMA UnboundMaps == ASSUME ListInv, NEW t \in Threads, Unbound(t) PROVE UNCHANGED A!vars
<1>1. PICK u : u = subject[t]
  OBVIOUS
<1>2. /\ u \in Workers
      /\ Linked' = Linked
      /\ \A w \in Threads : pc[w] \in WalkPCs => iter[w] \in Linked
      /\ \A x \in Linked \cup {Null} : Reach(le_next', x) = Rest(x)
  BY <1>1, UnboundList
<1>3. /\ pc[t] = "unbindawait" /\ UNCHANGED <<rcu, iter>>
      /\ pc' = [pc EXCEPT ![t] = IF u = t THEN "gone" ELSE "idle", ![u] = "gone"]
  BY <1>1 DEF Unbound
<1>4. u \in Threads /\ (u = t \/ pc[u] = "dying")
  BY <1>1, <1>2, <1>3 DEF ListInv, PlaceInv, Threads
<1>5. \A w \in Threads : pc'[w] = pc[w] \/ (pc[w] \in QuietPCs /\ pc'[w] \in QuietPCs)
  <2>1. pc \in [Threads -> PCs]
    BY DEF ListInv, TypeInv
  <2>2. ASSUME NEW w \in Threads, w # t, w # u PROVE pc'[w] = pc[w]
    BY <1>3, <2>1, <2>2
  <2>3. pc[t] \in QuietPCs /\ pc'[t] \in QuietPCs /\ pc[u] \in QuietPCs /\ pc'[u] \in QuietPCs
    BY <1>3, <1>4, <2>1 DEF QuietPCs
  <2> QED
    BY <2>2, <2>3
<1>6. ASSUME NEW w \in Threads, pc[w] \notin QuietPCs PROVE Left(w)' = Left(w)
  <2>1. pc'[w] = pc[w]
    BY <1>5, <1>6
  <2>2. CASE pc[w] = "flag"
    BY <1>2, <2>1, <2>2, ListFacts DEF Left, Rest
  <2>3. CASE pc[w] \in WalkPCs
    <3>1. Reach(le_next', iter[w]) = Rest(iter[w])
      BY <1>2, <2>3
    <3> QED
      BY <1>3, <2>1, <2>3, <3>1 DEF Left, Rest, WalkPCs
  <2>4. CASE pc[w] \notin WalkPCs \cup {"flag"}
    BY <2>1, <2>4 DEF Left, WalkPCs
  <2> QED
    BY <2>2, <2>3, <2>4
<1>7. UNCHANGED <<places, left>>
  BY <1>2, <1>5, <1>6, Stutters
<1> QED
  BY <1>3, <1>7 DEF rcu, A!vars

\* Every step is one of RCU, or none.
LEMMA StepMaps == ASSUME ListInv, [Next]_vars PROVE [A!Next]_(A!vars)
<1>1. ASSUME NEW t \in Threads, Listing(t) PROVE [A!Next]_(A!vars)
  BY <1>1, InsertMaps, UnbindMaps, UnboundMaps, QuietMaps DEF Listing
<1>2. CASE UNCHANGED vars
  <2>1. UNCHANGED <<places, left>>
    BY <1>2 DEF vars, list, places, left, Abstract, Left, Rest, Linked
  <2> QED
    BY <1>2, <2>1 DEF vars, rcu, A!vars
<1> QED
  BY <1>1, <1>2, ReadMaps, SyncMaps, QuietMaps, SwapMaps DEF Next

\* At first the main thread alone is registered, and nobody scans.
LEMMA InitMaps == Init => A!Init
<1> SUFFICES ASSUME Init PROVE A!Init
  OBVIOUS
<1>1. \A t \in Threads : pc[t] \in {"idle", "new"}
  BY DEF Init
<1>2. \A t \in Threads : Abstract(t) \in {"off", "idle"} /\ Left(t) = {}
  BY <1>1 DEF Abstract, Left
<1>3. places \in [Threads -> {"off", "idle"}] /\ left = [t \in Threads |-> {}]
  BY <1>2 DEF places, left
<1>4. global_ref \in Objs
  BY ObjsAssumption DEF Init
<1> QED
  BY <1>3, <1>4 DEF Init, A!Init

\* The walk along the list implements the scan of RCU, for any number of threads that
\* come and go: each scan misses no thread that is in the list throughout.
THEOREM Refinement == ASSUME MainDoesNotSynchronize PROVE Spec => ImplementsRCU
<1>1. ListInv /\ [Next]_vars => ListInv'
  BY NextListInv
<1>2. ListInv /\ [Next]_vars => [A!Next]_(A!vars)
  BY StepMaps
<1> QED
  BY <1>1, <1>2, InitListInv, InitMaps, PTL DEF Spec, ImplementsRCU, A!Spec

-----------------------------------------------------------------------------
(* The grace period of RCU, whatever the mapping *)

\* No thread has seen a version that is yet to come.
VersionsBounded ==
    \A t \in Threads : t_rcu_vers[t] <= rcul_version /\ version[t] <= rcul_version

\* A reader has published a version before it reads, and forgets what it has read
\* when it leaves.
SectionsPublished ==
    \A t \in Threads : /\ places[t] = "lock" => version[t] > 0
                       /\ places[t] = "in" => t_rcu_vers[t] > 0
                       /\ got[t] # {} => places[t] = "in"

Writing(t) == places[t] \in {"load", "cas", "scan"}

\* What is in the pointer, and what a writer has taken out of it, is not destroyed.
Retired ==
    /\ global_ref \in used \ freed
    /\ freed \subseteq used
    /\ \A t \in Threads : Writing(t) => old[t] \in used \ freed /\ old[t] # global_ref

\* Two writers have taken out two objects.
RetiredOnce ==
    \A s, t \in Threads : s # t /\ Writing(s) /\ Writing(t) => old[s] # old[t]

\* The scan of a writer has yet to come to every reader that has its old object, and
\* will wait there.
Awaited ==
    \A w, r \in Threads :
        places[w] = "scan" /\ old[w] \in got[r] => r \in left[w] /\ t_rcu_vers[r] <= version[w]

RCUInv == /\ A!TypeOK
          /\ VersionsBounded
          /\ SectionsPublished
          /\ Retired
          /\ RetiredOnce
          /\ Awaited
          /\ A!GracePeriod

-----------------------------------------------------------------------------

\* Nobody has read anything yet, and the pointer refers to a live object.
LEMMA InitRCUInv == A!Init => RCUInv
BY DEF A!Init, RCUInv, A!TypeOK, A!PCs, VersionsBounded, SectionsPublished, Retired, RetiredOnce,
       Writing, Awaited, A!GracePeriod

\* Every step of a reader, a writer or a starting or ending thread keeps the
\* invariant.
LEMMA NextRCUInv == RCUInv /\ [A!Next]_(A!vars) => RCUInv'
<1> SUFFICES ASSUME RCUInv, [A!Next]_(A!vars) PROVE RCUInv'
  OBVIOUS
<1> USE DEF RCUInv, A!Goto
<1>1. ASSUME NEW t \in Threads, A!Start(t) PROVE RCUInv'
  <2>1. A!TypeOK' /\ VersionsBounded' /\ SectionsPublished' /\ Retired' /\ RetiredOnce'
        /\ A!GracePeriod'
    BY <1>1 DEF A!Start, A!TypeOK, A!PCs, VersionsBounded, SectionsPublished, Retired,
           RetiredOnce, Awaited, A!GracePeriod, Writing
  <2>2. Awaited'
    BY <1>1 DEF A!Start, A!TypeOK, SectionsPublished, Retired, Awaited, Writing
  <2> QED BY <2>1, <2>2
<1>2. ASSUME NEW t \in Threads, A!Exit(t) PROVE RCUInv'
  <2>1. A!TypeOK' /\ VersionsBounded' /\ Retired' /\ RetiredOnce'
        /\ A!GracePeriod'
    BY <1>2 DEF A!Exit, A!TypeOK, A!PCs, VersionsBounded, Retired, RetiredOnce, Awaited,
           A!GracePeriod, Writing
  <2>2. SectionsPublished'
    BY <1>2 DEF A!Exit, A!TypeOK, SectionsPublished
  <2>3. Awaited'
    BY <1>2 DEF A!Exit, A!TypeOK, SectionsPublished, Retired, Awaited, Writing
  <2> QED BY <2>1, <2>2, <2>3
<1>3. ASSUME NEW t \in Threads, A!LockLoad(t) PROVE RCUInv'
  <2>1. A!TypeOK' /\ Retired' /\ RetiredOnce'
        /\ Awaited' /\ A!GracePeriod'
    BY <1>3 DEF A!LockLoad, A!TypeOK, A!PCs, Retired, RetiredOnce, SectionsPublished, Awaited,
           A!GracePeriod, Writing
  <2>2. VersionsBounded'
    BY <1>3 DEF A!LockLoad, A!TypeOK, VersionsBounded
  <2>3. SectionsPublished'
    BY <1>3 DEF A!LockLoad, A!TypeOK, SectionsPublished
  <2> QED BY <2>1, <2>2, <2>3
<1>4. ASSUME NEW t \in Threads, A!LockStore(t) PROVE RCUInv'
  <2>1. A!TypeOK' /\ Retired' /\ RetiredOnce'
        /\ A!GracePeriod'
    BY <1>4 DEF A!LockStore, A!TypeOK, A!PCs, Retired, RetiredOnce, Awaited, A!GracePeriod,
           Writing
  <2>2. VersionsBounded'
    BY <1>4 DEF A!LockStore, A!TypeOK, VersionsBounded
  <2>3. SectionsPublished'
    BY <1>4 DEF A!LockStore, A!TypeOK, SectionsPublished
  <2>4. Awaited'
    BY <1>4 DEF A!LockStore, A!TypeOK, SectionsPublished, Retired, Awaited, Writing
  <2> QED BY <2>1, <2>2, <2>3, <2>4
<1>5. ASSUME NEW t \in Threads, A!Get(t) PROVE RCUInv'
  <2>1. A!TypeOK' /\ VersionsBounded' /\ Retired' /\ RetiredOnce'
    BY <1>5 DEF A!Get, A!TypeOK, A!PCs, VersionsBounded, Retired, RetiredOnce, Writing
  <2>2. SectionsPublished'
    BY <1>5 DEF A!Get, A!TypeOK, SectionsPublished
  <2>3. Awaited'
    BY <1>5 DEF A!Get, A!TypeOK, SectionsPublished, Retired, Awaited, Writing
  <2>4. A!GracePeriod'
    BY <1>5 DEF A!Get, A!TypeOK, Retired, Awaited, A!GracePeriod, Writing
  <2> QED BY <2>1, <2>2, <2>3, <2>4
<1>6. ASSUME NEW t \in Threads, A!Unlock(t) PROVE RCUInv'
  <2>1. A!TypeOK' /\ Retired' /\ RetiredOnce'
    BY <1>6 DEF A!Unlock, A!TypeOK, A!PCs, Retired, RetiredOnce, Writing
  <2>2. VersionsBounded'
    BY <1>6 DEF A!Unlock, A!TypeOK, VersionsBounded
  <2>3. SectionsPublished'
    BY <1>6 DEF A!Unlock, A!TypeOK, SectionsPublished
  <2>4. Awaited'
    BY <1>6 DEF A!Unlock, A!TypeOK, SectionsPublished, Retired, Awaited, Writing
  <2>5. A!GracePeriod'
    BY <1>6 DEF A!Unlock, A!TypeOK, Retired, Awaited, A!GracePeriod, Writing
  <2> QED BY <2>1, <2>2, <2>3, <2>4, <2>5
<1>7. ASSUME NEW t \in Threads, NEW o \in Objs, A!Swap(t, o) PROVE RCUInv'
  <2>1. A!TypeOK' /\ VersionsBounded' /\ SectionsPublished' /\ A!GracePeriod'
    BY <1>7 DEF A!Swap, A!TypeOK, A!PCs, VersionsBounded, SectionsPublished, Retired, Awaited,
           A!GracePeriod, Writing
  <2>2. Retired'
    BY <1>7 DEF A!Swap, A!TypeOK, Retired, RetiredOnce, Writing
  <2>3. RetiredOnce'
    BY <1>7 DEF A!Swap, A!TypeOK, Retired, RetiredOnce, Writing
  <2>4. Awaited'
    BY <1>7 DEF A!Swap, A!TypeOK, SectionsPublished, Retired, Awaited, Writing
  <2> QED BY <2>1, <2>2, <2>3, <2>4
<1>8. ASSUME NEW t \in Threads, A!SyncLoad(t) PROVE RCUInv'
  <2>1. A!TypeOK' /\ SectionsPublished' /\ Retired' /\ RetiredOnce'
        /\ Awaited' /\ A!GracePeriod'
    BY <1>8 DEF A!SyncLoad, A!TypeOK, A!PCs, SectionsPublished, Retired, RetiredOnce, Awaited,
           A!GracePeriod, Writing
  <2>2. VersionsBounded'
    BY <1>8 DEF A!SyncLoad, A!TypeOK, VersionsBounded
  <2> QED BY <2>1, <2>2
<1>9. ASSUME NEW t \in Threads, A!SyncCas(t) PROVE RCUInv'
  <2>1. SectionsPublished' /\ Retired' /\ RetiredOnce'
        /\ A!GracePeriod'
    BY <1>9 DEF A!SyncCas, A!TypeOK, SectionsPublished, Retired, RetiredOnce, Awaited,
           A!GracePeriod, Writing
  <2>2. A!TypeOK'
    BY <1>9 DEF A!SyncCas, A!TypeOK, A!PCs, A!Registered
  <2>3. VersionsBounded'
    BY <1>9 DEF A!SyncCas, A!TypeOK, VersionsBounded
  <2>4. Awaited'
    BY <1>9 DEF A!SyncCas, A!TypeOK, SectionsPublished, Retired, Awaited, Writing,
           A!Registered, VersionsBounded
  <2> QED BY <2>1, <2>2, <2>3, <2>4
<1>10. ASSUME NEW t \in Threads, NEW u \in Threads, A!Visit(t, u) PROVE RCUInv'
  <2>1. A!TypeOK' /\ VersionsBounded' /\ SectionsPublished' /\ Retired' /\ RetiredOnce'
        /\ A!GracePeriod'
    BY <1>10 DEF A!Visit, A!TypeOK, A!PCs, VersionsBounded, SectionsPublished, Retired,
           RetiredOnce, Awaited, A!GracePeriod, Writing
  <2>2. Awaited'
    BY <1>10 DEF A!Visit, A!TypeOK, SectionsPublished, Retired, Awaited, Writing, A!Passed
  <2> QED BY <2>1, <2>2
<1>11. ASSUME NEW t \in Threads, A!Reread(t) PROVE RCUInv'
  <2>1. A!TypeOK' /\ SectionsPublished' /\ Retired' /\ RetiredOnce'
        /\ A!GracePeriod'
    BY <1>11 DEF A!Reread, A!TypeOK, A!PCs, SectionsPublished, Retired, RetiredOnce, Awaited,
           A!GracePeriod, Writing
  <2>2. VersionsBounded'
    BY <1>11 DEF A!Reread, A!TypeOK, VersionsBounded
  <2>3. Awaited'
    BY <1>11 DEF A!Reread, A!TypeOK, SectionsPublished, Retired, Awaited, Writing,
           VersionsBounded
  <2> QED BY <2>1, <2>2, <2>3
<1>12. ASSUME NEW t \in Threads, A!Free(t) PROVE RCUInv'
  <2>1. A!TypeOK' /\ SectionsPublished' /\ RetiredOnce'
    BY <1>12 DEF A!Free, A!TypeOK, A!PCs, SectionsPublished, Retired, RetiredOnce, Writing
  <2>2. VersionsBounded'
    BY <1>12 DEF A!Free, A!TypeOK, VersionsBounded
  <2>3. Retired'
    BY <1>12 DEF A!Free, A!TypeOK, Retired, RetiredOnce, Writing
  <2>4. Awaited'
    BY <1>12 DEF A!Free, A!TypeOK, SectionsPublished, Retired, Awaited, Writing
  <2>5. A!GracePeriod'
    BY <1>12 DEF A!Free, A!TypeOK, Retired, Awaited, A!GracePeriod, Writing
  <2> QED BY <2>1, <2>2, <2>3, <2>4, <2>5
<1>13. CASE UNCHANGED A!vars
  BY <1>13 DEF A!vars, A!TypeOK, VersionsBounded, SectionsPublished, Retired, RetiredOnce,
               Writing, Awaited, A!GracePeriod
<1> QED
  BY <1>1, <1>2, <1>3, <1>4, <1>5, <1>6, <1>7, <1>8, <1>9, <1>10, <1>11,
     <1>12, <1>13 DEF A!Next

\* The grace period of DeeRCU_Synchronize: what a reader has come by between
\* DeeRCU_Lock and DeeRCU_Unlock is not destroyed before it leaves, in whatever order
\* the registered threads are scanned.
THEOREM AbstractGracePeriod == A!Spec => [](A!TypeOK /\ GracePeriod)
<1>1. RCUInv => A!TypeOK /\ GracePeriod
  BY DEF RCUInv, GracePeriod
<1> QED
  BY <1>1, InitRCUInv, NextRCUInv, PTL DEF A!Spec

\* The same of the walk along the list of threads that come and go.
THEOREM GracePeriodHolds == ASSUME MainDoesNotSynchronize PROVE Spec => []GracePeriod
BY AbstractGracePeriod, Refinement, PTL DEF ImplementsRCU

-----------------------------------------------------------------------------
(* Types *)

\* Versions stay within the bound, which who is to increment the version has looked at.
RangeInv == /\ rcul_version \in 1 .. MaxVers
            /\ t_rcu_vers \in [Threads -> 0 .. MaxVers]
            /\ version \in [Threads -> 0 .. MaxVers]
            /\ \A t \in Threads : pc[t] = "cas" => version[t] < MaxVers

\* Every step keeps the versions within their bounds.
LEMMA NextRangeInv == ASSUME TypeInv, RangeInv, [Next]_vars PROVE RangeInv'
<1> USE MaxVersAssumption DEF TypeInv, RangeInv, Goto
<1>1. ASSUME NEW t \in Threads, Read(t) PROVE RangeInv'
  BY <1>1 DEF Read, LockLoad, LockStore, Get, Unlock
<1>2. ASSUME NEW t \in Threads, SyncLoad(t) PROVE RangeInv'
  BY <1>2 DEF SyncLoad
<1>3. ASSUME NEW t \in Threads, SyncCas(t) PROVE RangeInv'
  BY <1>3 DEF SyncCas
<1>4. ASSUME NEW t \in Threads, Reread(t) PROVE RangeInv'
  BY <1>4 DEF Reread
<1>5. ASSUME NEW t \in Threads, Flag(t) \/ Scan(t) \/ Advance(t) PROVE RangeInv'
  BY <1>5 DEF Flag, StartScan, Scan, Advance, AdvanceClearing, rcu
<1>6. ASSUME NEW t \in Threads, Free(t) PROVE RangeInv'
  BY <1>6 DEF Free
<1>7. ASSUME NEW t \in Threads, Listing(t) PROVE RangeInv'
  BY <1>7 DEF Listing, Insert, Unbind, Await, AwaitPast, Inserted, Unbound, rcu
<1>8. ASSUME NEW t \in Threads, Acquire(t) \/ Terminate(t) PROVE RangeInv'
  BY <1>8 DEF Acquire, Terminate, rcu
<1>9. ASSUME NEW t \in Threads, NEW o \in Objs, Swap(t, o) PROVE RangeInv'
  BY <1>9 DEF Swap
<1>10. ASSUME NEW t \in Threads, NEW u \in Workers, Destroy(t, u) PROVE RangeInv'
  BY <1>10 DEF Destroy, rcu
<1>11. CASE UNCHANGED vars
  BY <1>11 DEF vars, rcu
<1> QED
  BY <1>1, <1>2, <1>3, <1>4, <1>5, <1>6, <1>7, <1>8, <1>9, <1>10, <1>11 DEF Next, Sync

\* The variables of readers, writers and the list keep their types, and the version
\* stays within its bound.
THEOREM TypeCorrect == ASSUME MainDoesNotSynchronize PROVE Spec => []TypeOK
<1>1. Init => RangeInv
  <2> SUFFICES ASSUME Init PROVE RangeInv
    OBVIOUS
  <2>1. \A t \in Threads : pc[t] # "cas"
    BY DEF Init
  <2>2. 1 \in 1 .. MaxVers /\ 0 \in 0 .. MaxVers
    BY MaxVersAssumption
  <2> QED
    BY <2>1, <2>2 DEF Init, RangeInv
<1>2. ListInv /\ [Next]_vars => ListInv'
  BY NextListInv
<1>3. ListInv /\ RangeInv /\ [Next]_vars => RangeInv'
  BY NextRangeInv DEF ListInv
<1>4. ListInv /\ RangeInv /\ A!TypeOK => TypeOK
  BY DEF ListInv, TypeInv, RangeInv, A!TypeOK, TypeOK
<1> QED
  BY <1>1, <1>2, <1>3, <1>4, InitListInv, AbstractGracePeriod, Refinement, PTL
  DEF Spec, ImplementsRCU

=============================================================================
