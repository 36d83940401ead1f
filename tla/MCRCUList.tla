----------------------------- MODULE MCRCUList ------------------------------
(***************************************************************************)
(* RCUList on small sets of threads and objects.                           *)
(***************************************************************************)
EXTENDS RCUList

=============================================================================
