------------------------------- MODULE MCOnce -------------------------------
(***************************************************************************)
(* Once on small sets of threads.                                          *)
(***************************************************************************)
EXTENDS Once

=============================================================================
