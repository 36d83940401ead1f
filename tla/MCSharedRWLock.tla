--------------------------- MODULE MCSharedRWLock ---------------------------
(***************************************************************************)
(* SharedRWLock on small sets of threads and operations.                   *)
(***************************************************************************)
EXTENDS SharedRWLock, TLC

Op(mode, take, tmo, int) == [mode |-> mode, take |-> take, tmo |-> tmo, int |-> int]

\* Dee_shared_rwlock_read_timed (which does all that the untimed call does) and
\* Dee_shared_rwlock_write.
TakeOps == {Op("read", TRUE, "finite", TRUE), Op("write", TRUE, "none", TRUE)}

LiveOps == {Op("read", TRUE, "none", FALSE), Op("write", TRUE, "none", FALSE)}

\* Threads are interchangeable.  Only for runs without temporal properties.
ThreadSymmetry == Permutations(Threads)

=============================================================================
