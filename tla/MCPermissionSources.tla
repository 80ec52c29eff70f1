------------------------- MODULE MCPermissionSources -------------------------
(* Small instances of PermissionSources.                                     *)
EXTENDS PermissionSources, TLC

CONSTANTS n1, p1, bad, g1, g2

\* A scorer lives in the experiment of its own name: one name for both.
HeldBySame == [n \in Names |-> n]
\* One pattern matches, one does not compile, any other matches nothing.
MatchesAll == [p \in Patterns |-> IF p = p1 THEN Names ELSE {}]
\* The order of config.py, and one that asks the patterns of groups first.
DefaultOrder == <<"user", "group", "regex", "group-regex">>
GroupsFirst == <<"group-regex", "group", "regex", "user">>

Symmetric == Permutations(Groups) \cup Permutations(Users)
=============================================================================
