--------------------------- MODULE MCRequestAccess ---------------------------
(* A small instance of RequestAccess: one operation of every kind.         *)
EXTENDS RequestAccess, TLC

CONSTANTS u1, u2, e1, e2, n1, c1, r1, r2, r3

Symmetry == Permutations(Requests)

Op(by) == [by |-> by, need |-> 1, on |-> {}, ref |-> None, user |-> None, until |-> None, flag |-> FALSE]

(* Reading two experiments, an experiment by name, a run, a search, an     *)
(* artifact path, the configuration, managing an experiment.               *)
ResourceOperations ==
  {[Op("things") EXCEPT !.on = {e1, e2}], [Op("things") EXCEPT !.on = {e1}, !.need = 4],
   [Op("filter") EXCEPT !.on = {e1, e2}], [Op("name") EXCEPT !.ref = n1],
   [Op("child") EXCEPT !.ref = c1, !.need = 3], [Op("path") EXCEPT !.need = 3], Op("path"),
   Op("open"), Op("admin"), [Op("managed") EXCEPT !.on = {e1}, !.need = 4]}

(* Tokens with and without a term, flags set and accounts deleted.         *)
AccountOperations ==
  {[Op("token") EXCEPT !.user = u1, !.until = until] : until \in {None, 1, 3}}
  \cup {[Op("create") EXCEPT !.user = u1, !.flag = TRUE], [Op("delete") EXCEPT !.user = u1]}

AllOperations == ResourceOperations \cup AccountOperations
=============================================================================
