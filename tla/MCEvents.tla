------------------------------- MODULE MCEvents -------------------------------
(* Instances of Events for TLC. *)
EXTENDS Events, TLC

CONSTANTS b1, b2, b3, f, g

\* Neither the bindings nor the functions are told apart by the code.
Symmetry == Permutations(Ids) \union Permutations(Fns)
=============================================================================
