-------------------------- MODULE MCPermissionCache --------------------------
(* Instances of PermissionCache for TLC. *)
EXTENDS PermissionCache, TLC

UserGroup == {"user", "group"}
UserThenGroup == <<"user", "group">>
UserOnly == {"user"}
JustUser == <<"user">>

(* Keys that name their resource, as those of every type but scorers do.   *)
OwnSlot == [r \in Resources |-> r]

(* Two scorers of one experiment: the key keeps the experiment.            *)
OneSlot == [r \in Resources |-> CHOOSE s \in Slots : TRUE]

Symmetry == Permutations(Requests)
=============================================================================
