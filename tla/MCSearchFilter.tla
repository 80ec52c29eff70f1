--------------------------- MODULE MCSearchFilter ---------------------------
(* Instances of SearchFilter for TLC. *)
EXTENDS SearchFilter

CONSTANTS i1, i2, i3, i4, i5

ThreeListed == <<i1, i2, i3>>
FourListed == <<i1, i2, i3, i4>>
FiveListed == <<i1, i2, i3, i4, i5>>

(* Keep is the SelectSeq of the standard module.                           *)
ASSUME KeepSelects ==
  \A s \in BoundedSeq({i1, i2, i3}, 4), K \in SUBSET {i1, i2, i3} :
    Keep(s, K) = SelectSeq(s, LAMBDA i : i \in K)
=============================================================================
