----------------------------- MODULE MCWeakref ------------------------------
(***************************************************************************)
(* Weakref on small sets of threads, references and objects.               *)
(***************************************************************************)
EXTENDS Weakref

Sets == INSTANCE TLC

Symmetry == Sets!Permutations(Threads) \cup Sets!Permutations(Refs)
            \cup Sets!Permutations(Objs)

=============================================================================
