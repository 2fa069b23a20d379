---------------------------- MODULE MCDesignCache ----------------------------
(* DesignCache for TLC.  Processes are interchangeable.                     *)
EXTENDS DesignCache, TLC
Symmetry == Permutations(Procs)
=============================================================================
