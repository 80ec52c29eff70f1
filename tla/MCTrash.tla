-------------------------------- MODULE MCTrash --------------------------------
(* Instances of Trash for TLC. *)
EXTENDS Trash

CONSTANTS e1, e2, r1, r2

TwoExperiments == <<e1, e2>>
TwoRuns == <<r1, r2>>
SomeSelections == {{}, {r1}, {e1}, {r1, e2}}
BothInFirst == [r \in {r1, r2} |-> e1]
=============================================================================
