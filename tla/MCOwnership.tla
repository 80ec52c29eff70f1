---------------------------- MODULE MCOwnership ----------------------------
(* Small instances of Ownership.                                           *)
EXTENDS Ownership, TLC

CONSTANTS ann, root

Symmetric == Permutations(Names) \cup Permutations(Requests)
=============================================================================
