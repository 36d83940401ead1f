------------------------------- MODULE Mutex --------------------------------
(***************************************************************************)
(* What a mutual exclusion lock of the runtime promises its callers, with  *)
(* nothing of how it is done: a thread is out, inside a call, or holds     *)
(* the lock.  Where a release may be delayed, it counts at once for the    *)
(* thread that made it, and for the others once they see it; with          *)
(* Delayed = FALSE everybody sees it at once.                              *)
(***************************************************************************)

CONSTANTS Threads,    \* the callers
          Acquiring,  \* operations that end by holding the lock
          Waiting,    \* operations that end once the lock was seen available
          Trying,     \* operations that may fail because the lock is held
          Failing,    \* operations that may fail on a timeout or an exception
          Delayed     \* may the others see a release later than it is made?

VARIABLES where,  \* where[t] is "out", "in" a call, or "held"
          call,   \* call[t]: the operation t has called
          unseen  \* threads whose release the others do not see yet

vars == <<where, call, unseen>>

Init == /\ where = [t \in Threads |-> "out"]
        /\ call \in [Threads -> Acquiring \cup Waiting]
        /\ unseen = {}

\* The lock is free, as far as t can tell.
Free(t) == \A u \in Threads \ {t} : where[u] # "held" /\ u \notin unseen

Move(t, to) == where' = [where EXCEPT ![t] = to]

Call(t) == /\ where[t] = "out"
           /\ \E o \in Acquiring \cup Waiting : call' = [call EXCEPT ![t] = o]
           /\ Move(t, "in")
           /\ UNCHANGED unseen

\* The lock changes hands only when it is free, and not before the last
\* release, the thread's own included, is seen by everybody.
Take(t) == /\ where[t] = "in" /\ call[t] \in Acquiring
           /\ Free(t) /\ t \notin unseen
           /\ Move(t, "held")
           /\ UNCHANGED <<call, unseen>>

\* A waiting call succeeds only at a moment the lock is free.
SeeFree(t) == /\ where[t] = "in" /\ call[t] \in Waiting
              /\ Free(t)
              /\ Move(t, "out")
              /\ UNCHANGED <<call, unseen>>

\* A try fails only at a moment somebody else holds the lock.
Refuse(t) == /\ where[t] = "in" /\ call[t] \in Trying
             /\ ~Free(t)
             /\ Move(t, "out")
             /\ UNCHANGED <<call, unseen>>

Fail(t) == /\ where[t] = "in" /\ call[t] \in Failing
           /\ Move(t, "out")
           /\ UNCHANGED <<call, unseen>>

Release(t) == /\ where[t] = "held"
              /\ Move(t, "out")
              /\ unseen' = IF Delayed THEN unseen \cup {t} ELSE unseen
              /\ UNCHANGED call

\* The others see the release of t.
Seen(t) == /\ t \in unseen
           /\ unseen' = unseen \ {t}
           /\ UNCHANGED <<where, call>>

Next == \E t \in Threads :
            Call(t) \/ Take(t) \/ SeeFree(t) \/ Refuse(t) \/ Fail(t)
              \/ Release(t) \/ Seen(t)

Spec == Init /\ [][Next]_vars

=============================================================================
