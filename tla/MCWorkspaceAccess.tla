--------------------------- MODULE MCWorkspaceAccess ---------------------------
(* Instances of WorkspaceAccess for TLC. *)
EXTENDS WorkspaceAccess, TLC

AllSources == <<"user", "group", "regex", "group-regex">>

Everywhere == [priority |-> 1, names |-> Workspaces, permission |-> "MANAGE"]
Denied == [priority |-> 1, names |-> Workspaces, permission |-> "NO_PERMISSIONS"]
OnePattern == {Everywhere}
TwoOfAPriority == {Everywhere, Denied}

Symmetry == Permutations(Requests)
=============================================================================
