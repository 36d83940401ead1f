------------------------------ MODULE RCUList -------------------------------
(***************************************************************************)
(* DeeRCU_Synchronize together with the list of threads that it walks      *)
(* (src/deemon/runtime/thread.c).  The main thread heads the list for      *)
(* good; other threads insert themselves when they start and are unbound   *)
(* when they end.  A scan does not take thread_list_lock: it sets the flag *)
(* LISTRCU of its thread instead, and whoever changes the list waits, with *)
(* thread_list_lock held, until it has seen every flag clear.              *)
(***************************************************************************)
EXTENDS Integers

CONSTANTS Main,     \* the main thread
          Workers,  \* the other threads
          Writers,  \* the threads that call DeeRCU_Synchronize
          Objs,     \* what the shared pointer may refer to
          MaxVers,  \* bound on rcul_version
          Null

Threads == Workers \cup {Main}

ASSUME MainAssumption == Main \notin Workers /\ Null \notin Threads
ASSUME WritersAssumption == Writers \subseteq Threads
ASSUME ObjsAssumption == Objs # {}
ASSUME MaxVersAssumption == MaxVers \in Nat \ {0}

VARIABLES rcul_version, t_rcu_vers, global_ref, used, freed,
          pc,        \* where each thread is
          version, got, old,
          iter,      \* the position of each thread in its walk along the list
          le_next,   \* the list: the successor of each thread
          le_prev,   \* its predecessor (the thread whose le_next refers to it)
          list_lock, \* who holds thread_list_lock
          listrcu,   \* the threads with Dee_THREAD_PRIV_STATE_LISTRCU
          subject    \* the thread that each thread is taking off the list

rcu == <<rcul_version, t_rcu_vers, global_ref, used, freed, version, got, old>>
list == <<le_next, le_prev, list_lock, subject>>
vars == <<rcu, list, pc, iter, listrcu>>

\* "new", "dead" and "gone" threads run no code: not started, ended but still in
\* the list, and given back to the heap.
PCs == {"new", "entry", "idle", "lock", "in", "load", "cas", "flag", "scan", "next", "free",
        "unbind", "insertawait", "unbindawait", "dead", "dying", "gone"}

Init == /\ rcul_version = 1
        /\ t_rcu_vers = [t \in Threads |-> 0]
        /\ global_ref = CHOOSE o \in Objs : TRUE
        /\ used = {global_ref}
        /\ freed = {}
        /\ pc = [t \in Threads |-> IF t = Main THEN "idle" ELSE "new"]
        /\ version = [t \in Threads |-> 0]
        /\ got = [t \in Threads |-> {}]
        /\ old = [t \in Threads |-> Null]
        /\ iter = [t \in Threads |-> Null]
        /\ le_next = [t \in Threads |-> Null]
        /\ le_prev = [t \in Threads |-> Null]
        /\ list_lock = Null
        /\ listrcu = {}
        /\ subject = [t \in Threads |-> Null]

Goto(t, label) == pc' = [pc EXCEPT ![t] = label]

-----------------------------------------------------------------------------
(* Readers *)

LockLoad(t) ==
    /\ pc[t] = "idle"
    /\ version' = [version EXCEPT ![t] = rcul_version]
    /\ Goto(t, "lock")
    /\ UNCHANGED <<rcul_version, t_rcu_vers, global_ref, used, freed, got, old, list, iter, listrcu>>

LockStore(t) ==
    /\ pc[t] = "lock"
    /\ t_rcu_vers' = [t_rcu_vers EXCEPT ![t] = version[t]]
    /\ Goto(t, "in")
    /\ UNCHANGED <<rcul_version, global_ref, used, freed, version, got, old, list, iter, listrcu>>

\* The user of the lock reads the pointer.
Get(t) ==
    /\ pc[t] = "in"
    /\ got' = [got EXCEPT ![t] = @ \cup {global_ref}]
    /\ UNCHANGED <<rcul_version, t_rcu_vers, global_ref, used, freed, version, old, pc,
                   list, iter, listrcu>>

Unlock(t) ==
    /\ pc[t] = "in"
    /\ t_rcu_vers' = [t_rcu_vers EXCEPT ![t] = 0]
    /\ version' = [version EXCEPT ![t] = 0]
    /\ got' = [got EXCEPT ![t] = {}]
    /\ Goto(t, "idle")
    /\ UNCHANGED <<rcul_version, global_ref, used, freed, old, list, iter, listrcu>>

-----------------------------------------------------------------------------
(* Writers *)

\* The user of the lock exchanges the pointer and calls DeeRCU_Synchronize.
Swap(t, o) ==
    /\ pc[t] = "idle" /\ t \in Writers
    /\ o \notin used
    /\ global_ref' = o
    /\ used' = used \cup {o}
    /\ old' = [old EXCEPT ![t] = global_ref]
    /\ Goto(t, "load")
    /\ UNCHANGED <<rcul_version, t_rcu_vers, freed, version, got, list, iter, listrcu>>

SyncLoad(t) ==
    /\ pc[t] = "load"
    /\ rcul_version < MaxVers
    /\ version' = [version EXCEPT ![t] = rcul_version]
    /\ Goto(t, "cas")
    /\ UNCHANGED <<rcul_version, t_rcu_vers, global_ref, used, freed, got, old, list, iter, listrcu>>

\* A weak compare-exchange may fail for no reason.
SyncCas(t) ==
    /\ pc[t] = "cas"
    /\ \/ /\ rcul_version = version[t]
          /\ rcul_version' = version[t] + 1
          /\ Goto(t, "flag")
       \/ Goto(t, "load") /\ UNCHANGED rcul_version
    /\ UNCHANGED <<t_rcu_vers, global_ref, used, freed, version, got, old, list, iter, listrcu>>

StartScan(t, first) ==
    /\ pc[t] = "flag"
    /\ listrcu' = listrcu \cup {t}
    /\ iter' = [iter EXCEPT ![t] = first]
    /\ Goto(t, "scan")
    /\ UNCHANGED <<rcu, list>>

\* Mutant: thread_list does not hold the main thread.
Flag_SkipsMain(t) == StartScan(t, le_next[Main])

\* thread_list_rcu_lock
Flag(t) == StartScan(t, Main)

\* Mutants: the last version to wait for is left out, or every version is waited for.
Passes_OffByOne(v, bound) == v = 0 \/ v >= bound

Passes_Inactive(v, bound) == v = 0

\* Scan past a thread whose version is v when waiting for those up to bound.
Passes(v, bound) == v = 0 \/ v > bound

\* Look at the version that the thread has published.
Scan(t) ==
    /\ pc[t] = "scan"
    /\ Passes(t_rcu_vers[iter[t]], version[t])
    /\ Goto(t, "next")
    /\ UNCHANGED <<rcu, list, iter, listrcu>>

\* The thread has yet to leave: yield, and follow the version down.
Reread(t) ==
    /\ pc[t] = "scan"
    /\ ~Passes(t_rcu_vers[iter[t]], version[t])
    /\ version' = [version EXCEPT ![t] = IF @ > rcul_version THEN rcul_version ELSE @]
    /\ UNCHANGED <<rcul_version, t_rcu_vers, global_ref, used, freed, got, old,
                   list, pc, iter, listrcu>>

AdvanceClearing(t, flags) ==
    /\ pc[t] = "next"
    /\ iter' = [iter EXCEPT ![t] = le_next[iter[t]]]
    /\ IF le_next[iter[t]] = Null
       THEN Goto(t, "free") /\ listrcu' = listrcu \ flags
       ELSE Goto(t, "scan") /\ UNCHANGED listrcu
    /\ UNCHANGED <<rcu, list>>

\* Mutant: the flag stays.
Advance_KeepsFlag(t) == AdvanceClearing(t, {})

\* thread_list_next_atomic; at the end of the list, thread_list_rcu_unlock.
Advance(t) == AdvanceClearing(t, {t})

\* DeeRCU_Synchronize has returned, and its caller destroys the old object.
Free(t) ==
    /\ pc[t] = "free"
    /\ freed' = freed \cup {old[t]}
    /\ old' = [old EXCEPT ![t] = Null]
    /\ version' = [version EXCEPT ![t] = 0]
    /\ Goto(t, "idle")
    /\ UNCHANGED <<rcul_version, t_rcu_vers, global_ref, used, got, list, iter, listrcu>>

-----------------------------------------------------------------------------
(* Threads start and end *)

\* thread_list_lock_acquire_noint in the entry of a new thread, or of an acceding
\* one.
Acquire(t) ==
    /\ pc[t] = "new"
    /\ list_lock = Null
    /\ list_lock' = t
    /\ Goto(t, "entry")
    /\ UNCHANGED <<rcu, le_next, le_prev, subject, iter, listrcu>>

\* thread_list_insert: behind the main thread.  Scans look only at le_next of the
\* main thread, which is written last.
Insert(t) ==
    LET next == le_next[Main]
    IN /\ pc[t] = "entry"
       /\ le_next' = [le_next EXCEPT ![t] = next, ![Main] = t]
       /\ le_prev' = [u \in Threads |-> IF u = t THEN Main
                                        ELSE IF u = next THEN t ELSE le_prev[u]]
       /\ iter' = [iter EXCEPT ![t] = t]
       /\ Goto(t, "insertawait")
       /\ UNCHANGED <<rcu, list_lock, subject, listrcu>>

\* The thread ends and unbinds itself if thread_list_lock is available at once.
Terminate(t) ==
    /\ pc[t] = "idle" /\ t # Main
    /\ IF list_lock = Null
       THEN /\ list_lock' = t
            /\ subject' = [subject EXCEPT ![t] = t]
            /\ Goto(t, "unbind")
       ELSE Goto(t, "dead") /\ UNCHANGED <<list_lock, subject>>
    /\ UNCHANGED <<rcu, le_next, le_prev, iter, listrcu>>

\* Another thread drops the last reference to an ended thread, whose destructor
\* unbinds it, or joins all threads at exit.
Destroy(t, u) ==
    /\ pc[t] = "idle"
    /\ pc[u] = "dead"
    /\ list_lock = Null
    /\ list_lock' = t
    /\ subject' = [subject EXCEPT ![t] = u]
    /\ pc' = [pc EXCEPT ![t] = "unbind", ![u] = "dying"]
    /\ UNCHANGED <<rcu, le_next, le_prev, iter, listrcu>>

\* thread_list_unbind.  The thread keeps its own le_next, for those who stand on it.
Unbind(t) ==
    LET u == subject[t]
    IN /\ pc[t] = "unbind"
       /\ le_next' = [le_next EXCEPT ![le_prev[u]] = le_next[u]]
       /\ le_prev' = [v \in Threads |-> IF v = u THEN Null
                                        ELSE IF v = le_next[u] THEN le_prev[u] ELSE le_prev[v]]
       /\ iter' = [iter EXCEPT ![t] = le_next'[Main]]
       /\ Goto(t, "unbindawait")
       /\ UNCHANGED <<rcu, list_lock, subject, listrcu>>

AwaitPast(t, clear) ==
    /\ pc[t] \in {"insertawait", "unbindawait"}
    /\ iter[t] \in clear
    /\ iter' = [iter EXCEPT ![t] = le_next[iter[t]]]
    /\ UNCHANGED <<rcu, list, pc, listrcu>>

\* Mutant: the flags are not looked at.
Await_Hurries(t) == AwaitPast(t, Workers)

\* thread_list_lock_await_rcu: a walk along the list behind the main thread, past
\* each thread whose flag is clear.
Await(t) == AwaitPast(t, Workers \ listrcu)

\* The list is in use by nobody any more: thread_list_lock_release.
Inserted(t) ==
    /\ pc[t] = "insertawait" /\ iter[t] = Null
    /\ list_lock' = Null
    /\ Goto(t, "idle")
    /\ UNCHANGED <<rcu, le_next, le_prev, subject, iter, listrcu>>

\* The unbound thread's memory is given back.
Unbound(t) ==
    LET u == subject[t]
    IN /\ pc[t] = "unbindawait" /\ iter[t] = Null
       /\ list_lock' = Null
       /\ pc' = [pc EXCEPT ![t] = IF u = t THEN "gone" ELSE "idle", ![u] = "gone"]
       /\ le_next' = [le_next EXCEPT ![u] = Null]
       /\ subject' = [subject EXCEPT ![t] = Null]
       /\ UNCHANGED <<rcu, le_prev, iter, listrcu>>

-----------------------------------------------------------------------------

Read(t) == LockLoad(t) \/ LockStore(t) \/ Get(t) \/ Unlock(t)

Sync(t) == SyncLoad(t) \/ SyncCas(t) \/ Flag(t) \/ Scan(t) \/ Reread(t) \/ Advance(t) \/ Free(t)

Listing(t) == Insert(t) \/ Unbind(t) \/ Await(t) \/ Inserted(t) \/ Unbound(t)

Next == \E t \in Threads :
            \/ Read(t) \/ Sync(t) \/ Listing(t)
            \/ Acquire(t) \/ Terminate(t)
            \/ \E o \in Objs : Swap(t, o)
            \/ \E u \in Workers : Destroy(t, u)

Spec == Init /\ [][Next]_vars

\* A thread keeps running: a reader leaves its section, a writer its call, and
\* who has the list finishes with it.  The compare-exchange does not fail for
\* no reason for ever.
Fairness == \A t \in Threads :
                /\ WF_vars(LockStore(t) \/ Unlock(t))
                /\ WF_vars(Sync(t))
                /\ SF_vars(SyncCas(t) /\ pc'[t] = "flag")
                /\ WF_vars(Listing(t))

FairSpec == Spec /\ Fairness

-----------------------------------------------------------------------------
(* Properties *)

\* Every variable has its type.
TypeOK == /\ rcul_version \in 1 .. MaxVers
          /\ t_rcu_vers \in [Threads -> 0 .. MaxVers]
          /\ version \in [Threads -> 0 .. MaxVers]
          /\ global_ref \in Objs /\ used \subseteq Objs /\ freed \subseteq Objs
          /\ pc \in [Threads -> PCs]
          /\ got \in [Threads -> SUBSET Objs]
          /\ old \in [Threads -> Objs \cup {Null}]
          /\ iter \in [Threads -> Threads \cup {Null}]
          /\ le_next \in [Threads -> Workers \cup {Null}]
          /\ le_prev \in [Threads -> Threads \cup {Null}]
          /\ list_lock \in Threads \cup {Null}
          /\ listrcu \subseteq Threads
          /\ subject \in [Threads -> Workers \cup {Null}]

\* The threads from t on along next: the least set that has t and, with a thread,
\* its successor.
ClosedUnder(next, S) == \A t \in S : next[t] \in S \cup {Null}

Reach(next, t) ==
    {u \in Threads : \A S \in SUBSET Threads :
                         t \in S \cup {Null} /\ ClosedUnder(next, S) => u \in S}

Rest(t) == Reach(le_next, t)

Linked == {t \in Workers : le_prev[t] # Null} \cup {Main}

\* A walk along the list never stands on a thread whose memory was given back
\* (thread_list_lock_await_rcu waits "for Dee_THREAD_PRIV_STATE_LISTRCU to
\* disappear from all threads").
WalksLiveThreads ==
    \A t \in Threads : pc[t] \in {"scan", "next"} => pc[iter[t]] # "gone"

\* What is left of a scan, for the refinement below.
Left(t) == CASE pc[t] = "flag" -> Rest(Main)
             [] pc[t] = "scan" -> Rest(iter[t])
             [] pc[t] = "next" -> Rest(iter[t]) \ {iter[t]}
             [] OTHER -> {}

Abstract(t) ==
    IF t \notin Linked THEN "off"
    ELSE CASE pc[t] \in {"lock", "in", "load", "cas"} -> pc[t]
           [] pc[t] \in {"flag", "scan", "next", "free"} -> "scan"
           [] OTHER -> "idle"

places == [t \in Threads |-> Abstract(t)]
left == [t \in Threads |-> Left(t)]

A == INSTANCE RCU WITH pc <- places, left <- left, Nothing <- Null

\* The walk along the list is a scan of the registered threads: it misses none that
\* is registered throughout, whatever threads come and go meanwhile.
ImplementsRCU == A!Spec

\* No object is destroyed under a reader.
GracePeriod == A!GracePeriod

\* DeeRCU_Synchronize returns, although readers come and go.
SynchronizeReturns ==
    \A t \in Threads : pc[t] \in {"load", "cas", "flag", "scan", "next", "free"} ~> pc[t] = "idle"

\* A thread that starts gets into the list, and one that is unbound is given back.
ListChangesEnd == \A t \in Threads : list_lock = t ~> list_lock # t

=============================================================================
