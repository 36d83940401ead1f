------------------------------ MODULE MCEvent -------------------------------
(***************************************************************************)
(* Event on small sets of threads.                                         *)
(***************************************************************************)
EXTENDS Event

=============================================================================
