---------------------------- MODULE MCSemaphore -----------------------------
(***************************************************************************)
(* Semaphore on small sets of threads.                                     *)
(***************************************************************************)
EXTENDS Semaphore

Op(take, tmo, int) == [take |-> take, tmo |-> tmo, int |-> int]

\* tryacquire, acquire_noint, acquire_timed
AcquireOps == {Op(TRUE, "once", FALSE), Op(TRUE, "none", FALSE), Op(TRUE, "finite", TRUE)}

=============================================================================
