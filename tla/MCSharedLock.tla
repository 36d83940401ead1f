---------------------------- MODULE MCSharedLock ----------------------------
(***************************************************************************)
(* SharedLock on small sets of threads.                                    *)
(***************************************************************************)
EXTENDS SharedLock

AllOps == AcquireOps \cup WaitforOps

=============================================================================
