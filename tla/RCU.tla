-------------------------------- MODULE RCU ---------------------------------
(***************************************************************************)
(* What the RCU locks of the deemon runtime promise (include/deemon/util/  *)
(* rcu.h, src/deemon/runtime/thread.c), with the list of threads reduced   *)
(* to the set of the registered ones, which a scan visits in any order.    *)
(*                                                                         *)
(* A reader publishes the version it has found in its own t_rcu_vers and   *)
(* reads the shared pointer.  A writer exchanges the pointer, increments   *)
(* the version and scans the threads, waiting for each that has published  *)
(* an old version; then it destroys what the pointer referred to before.   *)
(* The version does not overflow here.                                     *)
(***************************************************************************)
EXTENDS Integers

CONSTANTS Threads, \* the threads
          Objs,    \* what the shared pointer may refer to
          Nothing  \* no object

VARIABLES rcul_version, \* the version of the lock
          t_rcu_vers,   \* what each thread has published, 0 outside a section
          global_ref,   \* the object that the shared pointer refers to
          used,         \* objects that have been stored in the pointer
          freed,        \* objects that have been destroyed
          pc,           \* where each thread is, "off" if it is not registered
          version,      \* the version each thread has loaded, 0 outside its calls
          got,          \* the objects each reader has come by in its section
          old,          \* the object each writer is to destroy
          left          \* the threads each writer has still to look at

vars == <<rcul_version, t_rcu_vers, global_ref, used, freed, pc, version, got, old, left>>

PCs == {"off", "idle", "lock", "in", "load", "cas", "scan"}

Registered == {t \in Threads : pc[t] # "off"}

Init == /\ rcul_version = 1
        /\ t_rcu_vers = [t \in Threads |-> 0]
        /\ global_ref \in Objs
        /\ used = {global_ref}
        /\ freed = {}
        /\ pc \in [Threads -> {"off", "idle"}]
        /\ version = [t \in Threads |-> 0]
        /\ got = [t \in Threads |-> {}]
        /\ old = [t \in Threads |-> Nothing]
        /\ left = [t \in Threads |-> {}]

Goto(t, label) == pc' = [pc EXCEPT ![t] = label]

\* A thread is registered: a scan that is under way meets it or does not.
Start(t) ==
    /\ pc[t] = "off"
    /\ Goto(t, "idle")
    /\ left' \in [Threads -> SUBSET Threads]
    /\ \A w \in Threads : left'[w] \in {left[w], left[w] \cup {t}}
    /\ UNCHANGED <<rcul_version, t_rcu_vers, global_ref, used, freed, version, got, old>>

Exit(t) ==
    /\ pc[t] = "idle"
    /\ Goto(t, "off")
    /\ left' \in [Threads -> SUBSET Threads]
    /\ \A w \in Threads : left'[w] \in {left[w], left[w] \ {t}}
    /\ UNCHANGED <<rcul_version, t_rcu_vers, global_ref, used, freed, version, got, old>>

\* DeeRCU_Lock loads the version ...
LockLoad(t) ==
    /\ pc[t] = "idle"
    /\ version' = [version EXCEPT ![t] = rcul_version]
    /\ Goto(t, "lock")
    /\ UNCHANGED <<rcul_version, t_rcu_vers, global_ref, used, freed, got, old, left>>

\* ... and publishes it.
LockStore(t) ==
    /\ pc[t] = "lock"
    /\ t_rcu_vers' = [t_rcu_vers EXCEPT ![t] = version[t]]
    /\ Goto(t, "in")
    /\ UNCHANGED <<rcul_version, global_ref, used, freed, version, got, old, left>>

\* The reader reads the pointer, once or several times.
Get(t) ==
    /\ pc[t] = "in"
    /\ got' = [got EXCEPT ![t] = @ \cup {global_ref}]
    /\ UNCHANGED <<rcul_version, t_rcu_vers, global_ref, used, freed, pc, version, old, left>>

\* DeeRCU_Unlock: the reader has done with what it has read.
Unlock(t) ==
    /\ pc[t] = "in"
    /\ t_rcu_vers' = [t_rcu_vers EXCEPT ![t] = 0]
    /\ version' = [version EXCEPT ![t] = 0]
    /\ got' = [got EXCEPT ![t] = {}]
    /\ Goto(t, "idle")
    /\ UNCHANGED <<rcul_version, global_ref, used, freed, old, left>>

\* The writer exchanges the pointer for a new object and calls DeeRCU_Synchronize.
Swap(t, o) ==
    /\ pc[t] = "idle"
    /\ o \notin used
    /\ global_ref' = o
    /\ used' = used \cup {o}
    /\ old' = [old EXCEPT ![t] = global_ref]
    /\ Goto(t, "load")
    /\ UNCHANGED <<rcul_version, t_rcu_vers, freed, version, got, left>>

SyncLoad(t) ==
    /\ pc[t] = "load"
    /\ version' = [version EXCEPT ![t] = rcul_version]
    /\ Goto(t, "cas")
    /\ UNCHANGED <<rcul_version, t_rcu_vers, global_ref, used, freed, got, old, left>>

\* The weak compare-exchange that increments the version.
SyncCas(t) ==
    /\ pc[t] = "cas"
    /\ \/ /\ rcul_version = version[t]
          /\ rcul_version' = version[t] + 1
          /\ left' = [left EXCEPT ![t] = Registered]
          /\ Goto(t, "scan")
       \/ Goto(t, "load") /\ UNCHANGED <<rcul_version, left>>
    /\ UNCHANGED <<t_rcu_vers, global_ref, used, freed, version, got, old>>

\* Has thread u left the sections that a writer at version v waits for?
Passed(u, v) == t_rcu_vers[u] = 0 \/ t_rcu_vers[u] > v

Visit(t, u) ==
    /\ pc[t] = "scan"
    /\ u \in left[t]
    /\ Passed(u, version[t])
    /\ left' = [left EXCEPT ![t] = @ \ {u}]
    /\ UNCHANGED <<rcul_version, t_rcu_vers, global_ref, used, freed, pc, version, got, old>>

\* While it waits the writer follows the version down.
Reread(t) ==
    /\ pc[t] = "scan"
    /\ \E u \in left[t] : ~Passed(u, version[t])
    /\ version' = [version EXCEPT ![t] = IF @ > rcul_version THEN rcul_version ELSE @]
    /\ UNCHANGED <<rcul_version, t_rcu_vers, global_ref, used, freed, pc, got, old, left>>

\* DeeRCU_Synchronize has returned, and the old object is destroyed.
Free(t) ==
    /\ pc[t] = "scan"
    /\ left[t] = {}
    /\ freed' = freed \cup {old[t]}
    /\ old' = [old EXCEPT ![t] = Nothing]
    /\ version' = [version EXCEPT ![t] = 0]
    /\ Goto(t, "idle")
    /\ UNCHANGED <<rcul_version, t_rcu_vers, global_ref, used, got, left>>

Next == \E t \in Threads :
            \/ Start(t) \/ Exit(t)
            \/ LockLoad(t) \/ LockStore(t) \/ Get(t) \/ Unlock(t)
            \/ \E o \in Objs : Swap(t, o)
            \/ SyncLoad(t) \/ SyncCas(t) \/ Reread(t) \/ Free(t)
            \/ \E u \in Threads : Visit(t, u)

Spec == Init /\ [][Next]_vars

-----------------------------------------------------------------------------
(* Properties *)

\* Every variable has its type; the version, which readers publish, is never the
\* inactive 0.
TypeOK == /\ rcul_version \in Nat \ {0}
          /\ t_rcu_vers \in [Threads -> Nat]
          /\ global_ref \in Objs
          /\ used \subseteq Objs
          /\ freed \subseteq Objs
          /\ pc \in [Threads -> PCs]
          /\ version \in [Threads -> Nat]
          /\ got \in [Threads -> SUBSET Objs]
          /\ old \in [Threads -> Objs \cup {Nothing}]
          /\ left \in [Threads -> SUBSET Threads]

\* The grace period: no object is destroyed while a reader that came by it is
\* still inside the section in which it did (DeeRCU_Synchronize blocks "until all
\* threads that locked an older RCU version will have left their RCU section").
GracePeriod == \A r \in Threads : got[r] \cap freed = {}

=============================================================================
