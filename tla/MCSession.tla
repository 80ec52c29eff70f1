----------------------------- MODULE MCSession -----------------------------
(* Small instances of Session.                                             *)
EXTENDS Session, TLC

CONSTANTS alice, bob, r1, r2

Anything == [r \in Requests |-> Paths]

(* One tab logs in and shows pages, the other shows pages and logs out.    *)
PagesBesideLogins ==
  [r \in Requests |-> IF r = r1 THEN Paths \ {"logout"} ELSE {"page", "logout"}]

Symmetric == Permutations(Users)
=============================================================================
