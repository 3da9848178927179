----------------------------- MODULE MCUsersFile -----------------------------
(* Small instances of UsersFile for TLC. *)
EXTENDS UsersFile, TLC

CONSTANTS o1, o2, ada, bob

\* Operators and names are interchangeable.
Symmetry == Permutations(Operators) \cup Permutations(Names)
=============================================================================
