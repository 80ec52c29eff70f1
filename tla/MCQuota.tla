------------------------------ MODULE MCQuota ------------------------------
(* Small instances of Quota.                                               *)
EXTENDS Quota

CONSTANTS e1, m1, u1, u2, t1

(* Every model has a version in the tree of one experiment.                *)
InsideOne == [m \in Models |-> CHOOSE e \in Experiments : TRUE]

NoQuota == NoRow
CappedAtTwo == FreshRow(2)
CappedAtFour == FreshRow(4)
Uncapped == FreshRow(Unset)
=============================================================================
