------------------------------- MODULE MCMirror -------------------------------
(* Small instances of EsMirror. *)
EXTENDS EsMirror, TLC

Everything == [e \in Events |-> 1]

Symmetry == Permutations(Rows) \cup Permutations(Writers)
===============================================================================
