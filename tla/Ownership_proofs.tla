-------------------------- MODULE Ownership_proofs --------------------------
(***************************************************************************)
(* Proofs about Ownership, for any number of users, names, resources and   *)
(* overlapping requests, and any default permission.                       *)
(***************************************************************************)
EXTENDS Ownership, TLAPS

(* The rows of name n when its resource is lv[n], and its creator's row.   *)
FollowsIn(n, lv, rw) == \A s \in Subjects : rw[<<n, s>>] # NoRow => rw[<<n, s>>].of \in {0, lv[n]}

Fine(entry) == entry # NoRow /\ (entry.perm = "MANAGE" \/ entry.of = 0)

KeptIn(n, lv, rw, cr, hd) == lv[n] # 0 /\ lv[n] \notin hd => Fine(rw[<<n, cr[lv[n]]>>])

Right(n, lv, rw, cr, hd) == FollowsIn(n, lv, rw) /\ KeptIn(n, lv, rw, cr, hd)

-----------------------------------------------------------------------------
(* A request's fields by its phase, whatever the others do.                *)
Shaped(q, k) ==
  /\ q.pc = "call" => q.op \in {"create", "delete", "rename"}
  /\ q.pc = "hook" => q.op \in {"delete", "rename"} /\ (k = "scorer" => q.pos = 1)
  /\ q.pc # "hook" => q.pos = 1
  /\ q.pc \in {"grant", "write"} => q.op \notin {"delete", "rename"}
  /\ q.op # "rename" => q.new = q.name
  /\ q.op = "rename" => q.new # q.name /\ k \in {"model", "endpoint"}
  /\ q.op \in {"delete", "rename"} => k # "experiment"
  /\ q.op \in {"delete", "rename"} /\ q.pc = "call" => q.target # 0
  /\ q.pc \in {"demote", "promote", "insert"} => k = "experiment" /\ q.subject \in Users
  /\ q.pc = "demote" => q.owner \in Users

FirstPart(k, op) ==
  CASE k = "scorer" -> Subjects
    [] k = "model" /\ op = "delete" -> {Group}
    [] OTHER -> Users

(* What a request finds that no other one overlaps and no fault disturbs.  *)
InOrder(q, k, lv, rw, cr, hd) ==
  /\ q.pc \in {"call", "grant", "write"} => lv[q.name] = q.target
  /\ q.pc \in {"call", "write"} => Right(q.name, lv, rw, cr, hd) /\ Right(q.new, lv, rw, cr, hd)
  /\ q.pc = "grant" =>
       /\ q.target # 0 /\ FollowsIn(q.name, lv, rw)
       /\ \/ KeptIn(q.name, lv, rw, cr, hd)
          \/ /\ cr[q.target] = q.by
             /\ \A s \in Subjects : rw[<<q.name, s>>] # NoRow => rw[<<q.name, s>>].of = 0
  /\ q.pc = "hook" => lv[q.name] = 0
  /\ q.pc = "hook" /\ q.pos = 2 => \A s \in FirstPart(k, q.op) : rw[<<q.name, s>>] = NoRow
  /\ q.pc = "hook" /\ q.op = "rename" =>
       /\ lv[q.new] # 0 /\ FollowsIn(q.new, lv, rw)
       /\ \A s \in Subjects : rw[<<q.name, s>>] # NoRow => rw[<<q.name, s>>].of \in {0, lv[q.new]}
       /\ q.pos = 1 /\ lv[q.new] \notin hd => Fine(rw[<<q.name, cr[lv[q.new]]>>])
       /\ q.pos = 2 => KeptIn(q.new, lv, rw, cr, hd)

-----------------------------------------------------------------------------
(* Ids are handed out in order, and each is given to one name.             *)
Numbered ==
  /\ \A n \in Names : live[n] <= made
  /\ \A m, n \in Names : live[m] = live[n] /\ live[m] # 0 => m = n
  /\ \A i \in 1 .. made : creator[i] \in Users
  /\ \A r \in Requests : req[r] # Idle => req[r].target <= made /\ Shaped(req[r], kind)

(* Requests that share a name are excused, with all of their names.        *)
Apart ==
  /\ \A r, s \in Requests : r # s /\ NamesOf(req[r]) \cap NamesOf(req[s]) # {} =>
       NamesOf(req[r]) \cup NamesOf(req[s]) \subseteq excused
  /\ \A r \in Requests : NamesOf(req[r]) \cap excused # {} => NamesOf(req[r]) \subseteq excused

(* A resource has the name its request knows, or a request that has moved  *)
(* it excuses both.                                                        *)
Meant ==
  \A r \in Requests : req[r] # Idle /\ ById /\ req[r].pc = "call" /\ req[r].op # "create" =>
    \A n \in Names : live[n] = req[r].target => n = req[r].name \/ {n, req[r].name} \subseteq excused

NamesRight == \A n \in Names \ (excused \cup Busy) : Right(n, live, row, creator, handed)

RequestsInOrder ==
  \A r \in Requests : req[r] # Idle /\ NamesOf(req[r]) \cap excused = {} =>
    InOrder(req[r], kind, live, row, creator, handed)

ByName == Apart /\ Meant /\ NamesRight /\ RequestsInOrder

(* Experiments: no row is of another one, and who has taken a row of MANAGE*)
(* away is about to grant one.                                             *)
Promoting(q, n, rw) ==
  /\ q # Idle /\ q.name = n
  /\ \/ q.pc = "promote"
     \/ q.pc = "insert" /\ rw[<<n, q.subject>>] = NoRow
     \/ q.pc = "grant" /\ rw[<<n, q.by>>] = NoRow

ManagesIn(n, rw) == \E u \in Users : rw[<<n, u>>] # NoRow /\ rw[<<n, u>>].perm = "MANAGE"

Owned(n) ==
  n \notin excused /\ live[n] # 0 /\ live[n] \notin handed /\ (\A s \in Holders(n) : row[<<n, s>>].of # 0) =>
    ManagesIn(n, row) \/ \E r \in Requests : Promoting(req[r], n, row)

ByOwner ==
  /\ \A n \in Names : FollowsIn(n, live, row) /\ Owned(n)
  /\ \A r \in Requests : req[r] # Idle => req[r].target \in {0, live[req[r].name]}

IInv == TypeOK /\ Numbered /\ (IF HasOwner THEN ByOwner ELSE ByName)

-----------------------------------------------------------------------------
LEMMA InitIInv == Init => IInv
<1> SUFFICES ASSUME Init PROVE IInv
  OBVIOUS
<1>1. TypeOK
  BY ConstantsAssumption DEF Init, TypeOK, Ids
<1>2. Numbered
  BY ConstantsAssumption DEF Init, Numbered
<1>3. ByName
  BY DEF Init, ByName, Apart, Meant, NamesRight, RequestsInOrder, NamesOf, Right, FollowsIn, KeptIn
<1>4. ByOwner
  BY DEF Init, ByOwner, FollowsIn, Owned
<1> QED
  BY <1>1, <1>2, <1>3, <1>4 DEF IInv

-----------------------------------------------------------------------------
(* Types                                                                   *)

LEMMA Active ==
  ASSUME IInv, NEW r \in Requests, req[r].pc # "idle"
  PROVE  /\ req[r] \in Request /\ req[r] # Idle /\ Shaped(req[r], kind) /\ req[r].target <= made
         /\ NamesOf(req[r]) = {req[r].name, req[r].new}
BY DEF IInv, TypeOK, Numbered, NamesOf, Idle

LEMMA Asked ==
  ASSUME IInv, NEW r \in Requests, Asks(r)
  PROVE  \E q \in Request :
           /\ q.pc \in {"call", "write", "demote", "promote"} /\ q.pos = 1 /\ q.target = live[q.name]
           /\ q # Idle /\ Shaped(q, kind)
           /\ req[r] = Idle /\ req' = [req EXCEPT ![r] = q]
           /\ excused' = excused \cup Excused({q.name, q.new})
           /\ q.op = "create" /\ HasOwner => live[q.name] = 0
           /\ UNCHANGED <<kind, live, versions, row, made, creator, faults, handed>>
           /\ writes' \in {writes, writes + 1}
<1> DEFINE Q(pc, op, u, n, new, s, p, owner) ==
       [pc |-> pc, op |-> op, by |-> u, name |-> n, new |-> new, target |-> live[n],
        subject |-> s, perm |-> p, pos |-> 1, owner |-> owner]
<1>1. \A n \in Names : live[n] \in Ids
  BY DEF IInv, TypeOK
<1>2. \A pc \in {"call", "write", "demote", "promote"}, op \in Operations, u \in Users, n \in Names, new \in Names,
        s \in Subjects, p \in Permissions, owner \in Users \cup {NoRow} :
        Q(pc, op, u, n, new, s, p, owner) \in Request /\ Q(pc, op, u, n, new, s, p, owner) # Idle
  BY <1>1 DEF Request, Idle
<1>3. \A pc, op, u, n, new, s, p, owner :
        /\ Q(pc, op, u, n, new, s, p, owner).pc = pc /\ Q(pc, op, u, n, new, s, p, owner).op = op
        /\ Q(pc, op, u, n, new, s, p, owner).name = n /\ Q(pc, op, u, n, new, s, p, owner).new = new
        /\ Q(pc, op, u, n, new, s, p, owner).target = live[n] /\ Q(pc, op, u, n, new, s, p, owner).pos = 1
        /\ Q(pc, op, u, n, new, s, p, owner).subject = s /\ Q(pc, op, u, n, new, s, p, owner).owner = owner
        /\ AskFor(r, pc, op, u, n, new, s, p, owner) =>
             /\ req' = [req EXCEPT ![r] = Q(pc, op, u, n, new, s, p, owner)]
             /\ excused' = excused \cup Excused({n, new})
             /\ UNCHANGED <<kind, live, versions, row, made, creator, faults, handed>>
  BY DEF AskFor, world
<1>4. Subjects = Users \cup {Group} /\ {"EDIT", "MANAGE"} = Permissions /\ req[r] = Idle
  BY DEF Subjects, Permissions, Asks
<1> HIDE DEF Q
<1> DEFINE Good(q) ==
           /\ q.pc \in {"call", "write", "demote", "promote"} /\ q.pos = 1 /\ q.target = live[q.name]
           /\ q # Idle /\ Shaped(q, kind)
           /\ req[r] = Idle /\ req' = [req EXCEPT ![r] = q]
           /\ excused' = excused \cup Excused({q.name, q.new})
           /\ q.op = "create" /\ HasOwner => live[q.name] = 0
           /\ UNCHANGED <<kind, live, versions, row, made, creator, faults, handed>>
           /\ writes' \in {writes, writes + 1}
<1>5. ASSUME NEW u \in Users, NEW n \in Names, AskCreate(r, u, n)
      PROVE  \E q \in Request : Good(q)
  <2> DEFINE q == Q("call", "create", u, n, n, u, "MANAGE", NoRow)
  <2>1. q \in Request /\ q # Idle
    BY <1>2, <1>4 DEF Operations
  <2>2. q.pc = "call" /\ q.op = "create" /\ q.name = n /\ q.new = n /\ q.target = live[n] /\ q.pos = 1
    BY <1>3
  <2>3. AskFor(r, "call", "create", u, n, n, u, "MANAGE", NoRow) /\ writes' = writes
        /\ (HasOwner => live[n] = 0)
    BY <1>5 DEF AskCreate, Ask, Taken
  <2>4. /\ req' = [req EXCEPT ![r] = q]
        /\ excused' = excused \cup Excused({n, n})
        /\ UNCHANGED <<kind, live, versions, row, made, creator, faults, handed>>
    BY <1>3, <2>3
  <2> HIDE DEF q
  <2> QED
    BY <1>4, <2>1, <2>2, <2>3, <2>4 DEF Shaped
<1>6. ASSUME NEW u \in Users, NEW n \in Names, AskDelete(r, u, n)
      PROVE  \E q \in Request : Good(q)
  <2> DEFINE q == Q("call", "delete", u, n, n, u, "MANAGE", NoRow)
  <2>1. q \in Request /\ q # Idle
    BY <1>2, <1>4 DEF Operations
  <2>2. q.pc = "call" /\ q.op = "delete" /\ q.name = n /\ q.new = n /\ q.target = live[n] /\ q.pos = 1
    BY <1>3
  <2>3. AskFor(r, "call", "delete", u, n, n, u, "MANAGE", NoRow) /\ writes' = writes
        /\ kind # "experiment" /\ live[n] # 0
    BY <1>6 DEF AskDelete, Ask, HasOwner
  <2>4. /\ req' = [req EXCEPT ![r] = q]
        /\ excused' = excused \cup Excused({n, n})
        /\ UNCHANGED <<kind, live, versions, row, made, creator, faults, handed>>
    BY <1>3, <2>3
  <2> HIDE DEF q
  <2> QED
    BY <1>4, <2>1, <2>2, <2>3, <2>4 DEF Shaped
<1>7. ASSUME NEW u \in Users, NEW n \in Names, NEW new \in Names, AskRename(r, u, n, new)
      PROVE  \E q \in Request : Good(q)
  <2> DEFINE q == Q("call", "rename", u, n, new, u, "MANAGE", NoRow)
  <2>1. q \in Request /\ q # Idle
    BY <1>2, <1>4 DEF Operations
  <2>2. q.pc = "call" /\ q.op = "rename" /\ q.name = n /\ q.new = new /\ q.target = live[n] /\ q.pos = 1
    BY <1>3
  <2>3. AskFor(r, "call", "rename", u, n, new, u, "MANAGE", NoRow) /\ writes' = writes
        /\ kind \in {"model", "endpoint"} /\ live[n] # 0 /\ new # n
    BY <1>7 DEF AskRename, Ask, Renamable
  <2>4. /\ req' = [req EXCEPT ![r] = q]
        /\ excused' = excused \cup Excused({n, new})
        /\ UNCHANGED <<kind, live, versions, row, made, creator, faults, handed>>
    BY <1>3, <2>3
  <2> HIDE DEF q
  <2> QED
    BY <1>4, <2>1, <2>2, <2>3, <2>4 DEF Shaped
<1>8. ASSUME NEW u \in Users, NEW n \in Names, NEW to \in Users, AskTransfer(r, u, n, to)
      PROVE  \E q \in Request : Good(q)
  <2>1. PICK owner \in Owners(n) \ {to} :
          /\ writes' = writes + 1 /\ HasOwner
          /\ AskFor(r, IF owner = NoRow THEN "promote" ELSE "demote", "transfer", u, n, n, to, "MANAGE", owner)
    BY <1>8 DEF AskTransfer
  <2>2. owner \in Users \cup {NoRow}
    BY DEF Owners, Managers
  <2> DEFINE pc == IF owner = NoRow THEN "promote" ELSE "demote"
  <2>6. /\ pc \in {"promote", "demote"} /\ (pc = "demote" => owner \in Users)
        /\ AskFor(r, pc, "transfer", u, n, n, to, "MANAGE", owner)
    BY <2>1, <2>2
  <2> HIDE DEF pc
  <2> DEFINE q == Q(pc, "transfer", u, n, n, to, "MANAGE", owner)
  <2>3. q \in Request /\ q # Idle
    BY <1>2, <1>4, <2>2, <2>6 DEF Operations
  <2>4. q.pc = pc /\ q.op = "transfer" /\ q.name = n /\ q.new = n /\ q.target = live[n] /\ q.pos = 1
        /\ q.subject = to /\ q.owner = owner
    BY <1>3
  <2>5. /\ req' = [req EXCEPT ![r] = q]
        /\ excused' = excused \cup Excused({n, n})
        /\ UNCHANGED <<kind, live, versions, row, made, creator, faults, handed>>
    BY <1>3, <2>6
  <2> HIDE DEF q
  <2>7. Shaped(q, kind)
    BY <2>1, <2>4, <2>6 DEF Shaped, HasOwner
  <2>8. writes' = writes + 1
    BY <2>1
  <2>9. ~(q.op = "create") /\ q.pc \in {"promote", "demote"}
    BY <2>4, <2>6
  <2> QED
    BY <1>4, <2>3, <2>4, <2>5, <2>7, <2>8, <2>9
<1>9. ASSUME NEW u \in Users, NEW n \in Names, NEW op \in {"grant", "update", "revoke"}, NEW s \in Subjects,
             NEW p \in Permissions, AskWrite(r, u, op, n, s, p)
      PROVE  \E q \in Request : Good(q)
  <2> DEFINE q == Q("write", op, u, n, n, s, p, NoRow)
  <2>1. q \in Request /\ q # Idle
    BY <1>2, <1>4 DEF Operations
  <2>2. q.pc = "write" /\ q.op = op /\ q.name = n /\ q.new = n /\ q.target = live[n] /\ q.pos = 1
    BY <1>3
  <2>3. AskFor(r, "write", op, u, n, n, s, p, NoRow) /\ writes' = writes
    BY <1>9 DEF AskWrite, Ask
  <2>4. /\ req' = [req EXCEPT ![r] = q]
        /\ excused' = excused \cup Excused({n, n})
        /\ UNCHANGED <<kind, live, versions, row, made, creator, faults, handed>>
    BY <1>3, <2>3
  <2> HIDE DEF q
  <2> QED
    BY <1>4, <2>1, <2>2, <2>3, <2>4 DEF Shaped
<1> HIDE DEF Good
<1>10. \E q \in Request : Good(q)
  <2>1. PICK u \in Users, n \in Names :
          \/ AskCreate(r, u, n) \/ AskDelete(r, u, n)
          \/ \E new \in Names : AskRename(r, u, n, new)
          \/ \E to \in Users : AskTransfer(r, u, n, to)
          \/ \E op \in {"grant", "update"}, s \in Subjects, p \in Permissions : AskWrite(r, u, op, n, s, p)
          \/ \E s \in Subjects : AskWrite(r, u, "revoke", n, s, "MANAGE")
    BY DEF Asks
  <2>2. ASSUME NEW s \in Subjects, AskWrite(r, u, "revoke", n, s, "MANAGE")
        PROVE  \E q \in Request : Good(q)
    BY <1>4, <1>9, <2>2
  <2> QED
    BY <1>5, <1>6, <1>7, <1>8, <1>9, <2>1, <2>2
<1> QED
  BY <1>10 DEF Good

(* A request that goes on, with everything but its phase.                  *)
SameBut(q, p) ==
  /\ q.op = p.op /\ q.by = p.by /\ q.name = p.name /\ q.new = p.new /\ q.target = p.target
  /\ q.subject = p.subject /\ q.perm = p.perm /\ q.owner = p.owner

Phases == {"call", "grant", "hook", "write", "demote", "promote", "insert"}

LEMMA Went ==
  ASSUME IInv, NEW r \in Requests, req[r].pc # "idle", NEW pc \in Phases, Goto(r, pc)
  PROVE  \E q \in Request :
           /\ q # Idle /\ q.pc = pc /\ q.pos = req[r].pos /\ SameBut(q, req[r])
           /\ NamesOf(q) = NamesOf(req[r]) /\ req' = [req EXCEPT ![r] = q]
<1> DEFINE q == [req[r] EXCEPT !.pc = pc]
<1>1. req[r] \in Request /\ NamesOf(req[r]) = {req[r].name, req[r].new}
  BY Active
<1>2. q \in Request
  BY <1>1 DEF Request, Phases
<1>3. q # Idle /\ q.pc = pc /\ q.pos = req[r].pos /\ SameBut(q, req[r])
  BY <1>1, <1>2 DEF Idle, Request, SameBut
<1>4. req' = [req EXCEPT ![r] = q]
  BY DEF Goto, IInv, TypeOK
<1> HIDE DEF q
<1> QED
  BY <1>1, <1>2, <1>3, <1>4 DEF NamesOf, SameBut

LEMMA RequestsTyped ==
  ASSUME IInv, NEW r \in Requests, NEW q \in Request \cup {Idle}, req' = [req EXCEPT ![r] = q],
         kind' = kind, made' \in Nat, made <= made', q # Idle => q.target <= made' /\ Shaped(q, kind)
  PROVE  /\ req' \in [Requests -> Request \cup {Idle}]
         /\ \A s \in Requests : req'[s] # Idle => req'[s].target <= made' /\ Shaped(req'[s], kind')
<1>1. \A s \in Requests : req'[s] = IF s = r THEN q ELSE req[s]
  BY DEF IInv, TypeOK
<1>2. made \in Nat /\ \A s \in Requests : req[s] # Idle => req[s].target \in Nat
  BY ConstantsAssumption DEF IInv, TypeOK, Request, Ids
<1> QED
  BY <1>1, <1>2 DEF IInv, TypeOK, Numbered

LEMMA AskTyped ==
  ASSUME IInv, NEW r \in Requests, Asks(r)
  PROVE  TypeOK' /\ Numbered'
<1>1. PICK q \in Request :
        /\ q.target = live[q.name] /\ Shaped(q, kind) /\ req' = [req EXCEPT ![r] = q]
        /\ excused' = excused \cup Excused({q.name, q.new})
        /\ UNCHANGED <<kind, live, versions, row, made, creator, faults, handed>>
        /\ writes' \in {writes, writes + 1}
  BY Asked
<1>2. q.name \in Names /\ q.new \in Names
  BY DEF Request
<1>3. \A s \in Requests : NamesOf(req[s]) \subseteq Names
  BY DEF NamesOf, IInv, TypeOK, Request
<1>4. excused' \subseteq Names
  BY <1>1, <1>2, <1>3 DEF Excused, IInv, TypeOK
<1>5. made' \in Nat /\ made <= made' /\ q.target <= made'
  BY <1>1, <1>2, ConstantsAssumption DEF IInv, TypeOK, Ids, Numbered
<1>6. /\ req' \in [Requests -> Request \cup {Idle}]
      /\ \A s \in Requests : req'[s] # Idle => req'[s].target <= made' /\ Shaped(req'[s], kind')
  BY <1>1, <1>5, RequestsTyped
<1>7. TypeOK'
  <2>1. /\ kind' = kind /\ live' = live /\ versions' = versions /\ row' = row /\ made' = made
        /\ creator' = creator /\ faults' = faults /\ handed' = handed
    BY <1>1
  <2>2. writes' \in Nat
    BY <1>1 DEF IInv, TypeOK
  <2> QED
    BY <2>1, <2>2, <1>4, <1>6 DEF IInv, TypeOK
<1>8. Numbered'
  BY <1>1, <1>6 DEF IInv, Numbered
<1> QED
  BY <1>7, <1>8

LEMMA StepTyped ==
  ASSUME IInv, NEW r \in Requests, req[r].pc # "idle", NEW q \in Request \cup {Idle},
         req' = [req EXCEPT ![r] = q], q # Idle => q.target = req[r].target /\ Shaped(q, kind),
         kind' = kind, world' = world, row' \in [Names \X Subjects -> Row \cup {NoRow}],
         writes' \in {writes, writes + 1}, faults' \in {faults, faults + 1},
         handed' \in {handed, handed \cup {live[req[r].name]}},
         excused' \in {excused, excused \cup NamesOf(req[r])}
  PROVE  TypeOK' /\ Numbered'
<1>1. req[r] \in Request /\ req[r].target <= made /\ NamesOf(req[r]) = {req[r].name, req[r].new}
  BY Active
<1>2. live' = live /\ versions' = versions /\ made' = made /\ creator' = creator
  BY DEF world
<1>3. made' \in Nat /\ made <= made'
  BY <1>2, ConstantsAssumption DEF IInv, TypeOK, Ids
<1>4. /\ req' \in [Requests -> Request \cup {Idle}]
      /\ \A s \in Requests : req'[s] # Idle => req'[s].target <= made' /\ Shaped(req'[s], kind')
  BY <1>1, <1>2, <1>3, RequestsTyped
<1>5. writes' \in Nat /\ faults' \in Nat
  BY DEF IInv, TypeOK
<1>6. req[r].name \in Names /\ req[r].new \in Names
  BY <1>1 DEF Request
<1>7. handed' \subseteq Ids /\ excused' \subseteq Names
  BY <1>1, <1>6 DEF IInv, TypeOK
<1>8. TypeOK'
  BY <1>2, <1>4, <1>5, <1>7 DEF IInv, TypeOK
<1>9. Numbered'
  BY <1>2, <1>4 DEF IInv, Numbered
<1> QED
  BY <1>8, <1>9

LEMMA CreateDoes ==
  ASSUME IInv, NEW r \in Requests, Create(r)
  PROVE  /\ req[r].pc = "call" /\ req[r].op = "create"
         /\ UNCHANGED <<kind, row, writes, faults, handed, excused>>
         /\ \E q \in Request \cup {Idle} :
              /\ req' = [req EXCEPT ![r] = q]
              /\ \/ /\ q = Idle /\ (HasOwner => live[req[r].name] # 0)
                    /\ UNCHANGED <<live, versions, made, creator>>
                 \/ /\ q # Idle /\ q.pc = "grant" /\ q.pos = 1 /\ NamesOf(q) = NamesOf(req[r])
                    /\ q.name = req[r].name /\ q.by = req[r].by /\ q.op = "create"
                    /\ q.new = req[r].new /\ q.target = live'[q.name]
                    /\ \/ /\ live[q.name] # 0 /\ kind = "scorer"
                          /\ UNCHANGED <<live, made, creator>>
                          /\ versions' \in [Names -> Nat]
                       \/ /\ live[q.name] = 0 /\ made < MaxMade /\ made' = made + 1
                          /\ live' = [live EXCEPT ![q.name] = made + 1]
                          /\ creator' = [creator EXCEPT ![made + 1] = q.by]
                          /\ versions' \in [Names -> Nat]
<1> DEFINE n == req[r].name
           Next_(t) == [req[r] EXCEPT !.pc = "grant", !.target = t]
<1>1. /\ req[r].pc = "call" /\ req[r].op = "create"
      /\ UNCHANGED <<kind, row, writes, faults, handed, excused>>
  BY DEF Create, history
<1>2. req[r] \in Request /\ req[r] # Idle /\ Shaped(req[r], kind) /\ NamesOf(req[r]) = {n, req[r].new}
  BY <1>1, Active
<1>3. n \in Names /\ req[r].pos = 1 /\ req[r].new = n
  BY <1>1, <1>2 DEF Request, Shaped
<1>4. \A t \in Ids : /\ Next_(t) \in Request /\ Next_(t) # Idle /\ Next_(t).pc = "grant" /\ Next_(t).pos = 1
                     /\ Next_(t).name = n /\ Next_(t).by = req[r].by /\ Next_(t).op = "create"
                     /\ Next_(t).new = req[r].new /\ Next_(t).target = t
                     /\ NamesOf(Next_(t)) = NamesOf(req[r])
  BY <1>1, <1>2, <1>3 DEF Request, Idle, NamesOf
<1>5. live \in [Names -> Ids] /\ versions \in [Names -> Nat] /\ req \in [Requests -> Request \cup {Idle}]
      /\ made \in Ids /\ MaxMade \in Nat
  BY ConstantsAssumption DEF IInv, TypeOK
<1>6. CASE live[n] # 0 /\ ~HasVersions
  <2>1. req' = [req EXCEPT ![r] = Idle] /\ UNCHANGED <<live, versions, made, creator>>
    BY <1>6 DEF Create, End
  <2> QED
    BY <1>1, <1>6, <2>1
<1>7. CASE live[n] # 0 /\ HasVersions
  <2>1. live[n] \in Ids
    BY <1>3, <1>5
  <2>2. /\ req' = [req EXCEPT ![r] = [@ EXCEPT !.pc = "grant", !.target = live[n]]]
        /\ versions' = [versions EXCEPT ![n] = @ + 1] /\ UNCHANGED <<live, made, creator>>
    BY <1>7 DEF Create
  <2> DEFINE q == Next_(live[n])
  <2>3. req' = [req EXCEPT ![r] = q]
    BY <2>2, Zenon
  <2>4. versions' \in [Names -> Nat]
    <3>1. versions[n] + 1 \in Nat /\ versions' = [versions EXCEPT ![n] = versions[n] + 1]
      BY <1>3, <1>5, <2>2
    <3> HIDE DEF n
    <3> QED
      BY <1>5, <3>1
  <2>5. /\ q \in Request /\ q # Idle /\ q.pc = "grant" /\ q.pos = 1 /\ q.name = n /\ q.by = req[r].by
        /\ q.op = "create" /\ q.new = req[r].new /\ q.target = live[n] /\ NamesOf(q) = NamesOf(req[r])
    BY <1>4, <2>1
  <2> HIDE DEF q, Next_
  <2>6. q.target = live'[q.name] /\ live[q.name] # 0 /\ kind = "scorer" /\ q.name = req[r].name
    BY <1>7, <2>2, <2>5 DEF HasVersions
  <2> HIDE DEF n
  <2> QED
    BY <1>1, <2>2, <2>3, <2>4, <2>5, <2>6
<1>8. CASE live[n] = 0
  <2>1. /\ made < MaxMade /\ made' = made + 1 /\ live' = [live EXCEPT ![n] = made + 1]
        /\ versions' = [versions EXCEPT ![n] = 1] /\ creator' = [creator EXCEPT ![made + 1] = req[r].by]
        /\ req' = [req EXCEPT ![r] = [@ EXCEPT !.pc = "grant", !.target = made + 1]]
    BY <1>8 DEF Create
  <2>2. made + 1 \in Ids
    BY <1>5, <2>1 DEF Ids
  <2> DEFINE q == Next_(made + 1)
  <2>3. req' = [req EXCEPT ![r] = q]
    BY <2>1, Zenon
  <2>4. versions' \in [Names -> Nat] /\ live'[n] = made + 1
    BY <1>3, <1>5, <2>1
  <2>5. /\ q \in Request /\ q # Idle /\ q.pc = "grant" /\ q.pos = 1 /\ q.name = n /\ q.by = req[r].by
        /\ q.op = "create" /\ q.new = req[r].new /\ q.target = made + 1 /\ NamesOf(q) = NamesOf(req[r])
    BY <1>4, <2>2
  <2> HIDE DEF q, Next_
  <2>6. /\ q.target = live'[q.name] /\ live[q.name] = 0 /\ q.name = req[r].name
        /\ live' = [live EXCEPT ![q.name] = made + 1] /\ creator' = [creator EXCEPT ![made + 1] = q.by]
    BY <1>8, <2>1, <2>4, <2>5
  <2> HIDE DEF n
  <2> QED
    BY <1>1, <2>1, <2>3, <2>4, <2>5, <2>6
<1> QED
  BY <1>6, <1>7, <1>8

LEMMA CreateTyped ==
  ASSUME IInv, NEW r \in Requests, Create(r)
  PROVE  TypeOK' /\ Numbered'
<1> DEFINE n == req[r].name
<1>1. PICK q \in Request \cup {Idle} :
        /\ req' = [req EXCEPT ![r] = q]
        /\ \/ q = Idle /\ UNCHANGED <<live, versions, made, creator>>
           \/ /\ q # Idle /\ q.pc = "grant" /\ q.pos = 1 /\ q.name = n /\ q.by = req[r].by
              /\ q.op = "create" /\ q.new = req[r].new /\ q.target = live'[q.name]
              /\ versions' \in [Names -> Nat]
              /\ \/ UNCHANGED <<live, made, creator>>
                 \/ /\ made < MaxMade /\ made' = made + 1
                    /\ live' = [live EXCEPT ![n] = made + 1]
                    /\ creator' = [creator EXCEPT ![made + 1] = q.by]
  BY CreateDoes
<1>2. req[r].pc = "call" /\ req[r].op = "create" /\ UNCHANGED <<kind, row, writes, faults, handed, excused>>
  BY CreateDoes
<1>3. req[r] \in Request /\ Shaped(req[r], kind)
  BY <1>2, Active
<1>4. n \in Names /\ req[r].by \in Users /\ req[r].new = n
  BY <1>2, <1>3 DEF Request, Shaped
<1>5. /\ live \in [Names -> Ids] /\ versions \in [Names -> Nat] /\ made \in Ids /\ MaxMade \in Nat
      /\ creator \in [1 .. MaxMade -> Users \cup {NoRow}] /\ Ids = 0 .. MaxMade
      /\ \A m \in Names : live[m] <= made
      /\ \A m, k \in Names : live[m] = live[k] /\ live[m] # 0 => m = k
      /\ \A i \in 1 .. made : creator[i] \in Users
  BY ConstantsAssumption DEF IInv, TypeOK, Numbered, Ids
<1> HIDE DEF n
<1>6. /\ live' \in [Names -> Ids] /\ versions' \in [Names -> Nat] /\ made' \in Ids /\ made <= made'
      /\ creator' \in [1 .. MaxMade -> Users \cup {NoRow}]
      /\ \A m \in Names : live'[m] <= made'
      /\ \A m, k \in Names : live'[m] = live'[k] /\ live'[m] # 0 => m = k
      /\ \A i \in 1 .. made' : creator'[i] \in Users
  <2>1. CASE UNCHANGED <<live, made, creator>>
    BY <1>1, <1>5, <2>1
  <2>2. CASE /\ made < MaxMade /\ made' = made + 1 /\ live' = [live EXCEPT ![n] = made + 1]
             /\ creator' = [creator EXCEPT ![made + 1] = req[r].by] /\ versions' \in [Names -> Nat]
    <3>1. made + 1 \in Ids /\ made + 1 \in 1 .. MaxMade /\ made \in Nat
      BY <1>5, <2>2
    <3>2. \A m \in Names : live'[m] = (IF m = n THEN made + 1 ELSE live[m]) /\ live[m] \in Nat
      BY <1>5, <2>2
    <3>3. live' \in [Names -> Ids] /\ made' \in Ids /\ made <= made'
      <4>1. live \in [Names -> Ids] /\ live' = [live EXCEPT ![n] = made + 1]
        BY <1>5, <2>2
      <4>2. made' \in Ids /\ made <= made'
        BY <2>2, <3>1
      <4> QED
        BY ONLY <3>1, <4>1, <4>2
    <3>4. \A m \in Names : live'[m] <= made'
      BY <1>5, <2>2, <3>1, <3>2
    <3>5. \A m, k \in Names : live'[m] = live'[k] /\ live'[m] # 0 => m = k
      BY <1>5, <3>1, <3>2
    <3>6. creator' \in [1 .. MaxMade -> Users \cup {NoRow}]
      BY <1>4, <1>5, <2>2, <3>1
    <3>7. \A i \in 1 .. MaxMade : creator'[i] = IF i = made + 1 THEN req[r].by ELSE creator[i]
      BY <1>5, <2>2, <3>1
    <3>8. \A i \in 1 .. made' : i \in 1 .. MaxMade /\ (i = made + 1 \/ i \in 1 .. made)
      BY <1>5, <2>2, <3>1
    <3>9. \A i \in 1 .. made' : creator'[i] \in Users
      BY <1>4, <1>5, <3>7, <3>8
    <3> QED
      BY <2>2, <3>3, <3>4, <3>5, <3>6, <3>9
  <2> QED
    BY <1>1, <2>1, <2>2
<1>7. q # Idle => q.target <= made' /\ Shaped(q, kind)
  BY <1>1, <1>3, <1>4, <1>6 DEF Shaped
<1>8. made' \in Nat
  BY <1>5, <1>6
<1>9. /\ req' \in [Requests -> Request \cup {Idle}]
      /\ \A s \in Requests : req'[s] # Idle => req'[s].target <= made' /\ Shaped(req'[s], kind')
  BY <1>1, <1>2, <1>6, <1>7, <1>8, RequestsTyped
<1>10. TypeOK'
  BY <1>2, <1>6, <1>9 DEF IInv, TypeOK
<1>11. Numbered'
  BY <1>6, <1>9 DEF Numbered
<1> QED
  BY <1>10, <1>11

LEMMA DeleteDoes ==
  ASSUME IInv, NEW r \in Requests, Delete(r)
  PROVE  /\ req[r].pc = "call" /\ req[r].op = "delete"
         /\ UNCHANGED <<kind, row, made, creator, writes, faults, handed>>
         /\ \E q \in Request \cup {Idle} :
              /\ req' = [req EXCEPT ![r] = q]
              /\ \/ q = Idle /\ UNCHANGED <<live, versions, excused>> /\ \A n \in NamesMeant(req[r]) : live[n] = 0
                 \/ /\ q # Idle /\ q.pc = "hook" /\ q.pos = 1 /\ SameBut(q, req[r]) /\ NamesOf(q) = NamesOf(req[r])
                    /\ versions' \in [Names -> Nat]
                    /\ \E n \in NamesMeant(req[r]) :
                         \/ live' = [live EXCEPT ![n] = 0] /\ excused' = excused
                         \/ kind = "scorer" /\ live' = live /\ excused' = excused \cup {n}
<1>1. /\ req[r].pc = "call" /\ req[r].op = "delete"
      /\ UNCHANGED <<kind, row, made, creator, writes, faults, handed>>
  BY DEF Delete
<1>2. req[r] \in Request /\ Shaped(req[r], kind)
  BY <1>1, Active
<1>3. NamesMeant(req[r]) \subseteq Names /\ req[r].pos = 1
  BY <1>1, <1>2 DEF NamesMeant, Request, Shaped
<1>4. CASE End(r) /\ UNCHANGED <<live, versions, excused>> /\ \A n \in NamesMeant(req[r]) : live[n] = 0
  BY <1>1, <1>4 DEF End
<1>5. ASSUME NEW n \in NamesMeant(req[r]), Goto(r, "hook"),
             \/ live' = [live EXCEPT ![n] = 0] /\ versions' = [versions EXCEPT ![n] = 0] /\ excused' = excused
             \/ /\ HasVersions /\ versions' = [versions EXCEPT ![n] = @ - 1] /\ live' = live
                /\ versions[n] > 1 /\ excused' = excused \cup {n}
      PROVE  \E q \in Request :
               /\ req' = [req EXCEPT ![r] = q]
               /\ q # Idle /\ q.pc = "hook" /\ q.pos = 1 /\ SameBut(q, req[r]) /\ NamesOf(q) = NamesOf(req[r])
               /\ versions' \in [Names -> Nat]
               /\ \E m \in NamesMeant(req[r]) :
                    \/ live' = [live EXCEPT ![m] = 0] /\ excused' = excused
                    \/ kind = "scorer" /\ live' = live /\ excused' = excused \cup {m}
  <2>1. PICK q \in Request : /\ q # Idle /\ q.pc = "hook" /\ q.pos = req[r].pos /\ SameBut(q, req[r])
                             /\ NamesOf(q) = NamesOf(req[r]) /\ req' = [req EXCEPT ![r] = q]
    BY <1>1, <1>5, Went DEF Phases
  <2>2. versions \in [Names -> Nat] /\ n \in Names
    BY <1>3 DEF IInv, TypeOK
  <2>3. versions' \in [Names -> Nat]
    BY <1>5, <2>2
  <2>4. \/ live' = [live EXCEPT ![n] = 0] /\ excused' = excused
        \/ kind = "scorer" /\ live' = live /\ excused' = excused \cup {n}
    BY <1>5 DEF HasVersions
  <2> QED
    BY <1>3, <2>1, <2>3, <2>4
<1> QED
  <2>1. \/ \E n \in NamesMeant(req[r]) :
              /\ live' = [live EXCEPT ![n] = 0] /\ versions' = [versions EXCEPT ![n] = 0]
              /\ excused' = excused /\ Goto(r, "hook")
        \/ \E n \in NamesMeant(req[r]) :
              /\ HasVersions /\ versions' = [versions EXCEPT ![n] = @ - 1] /\ live' = live
              /\ versions[n] > 1 /\ excused' = excused \cup {n} /\ Goto(r, "hook")
        \/ End(r) /\ UNCHANGED <<live, versions, excused>> /\ \A n \in NamesMeant(req[r]) : live[n] = 0
    BY DEF Delete
  <2> QED
    BY <1>1, <1>4, <1>5, <2>1

LEMMA RenameDoes ==
  ASSUME IInv, NEW r \in Requests, Rename(r)
  PROVE  /\ req[r].pc = "call" /\ req[r].op = "rename"
         /\ UNCHANGED <<kind, row, made, creator, writes, faults, handed, excused>>
         /\ \E q \in Request \cup {Idle} :
              /\ req' = [req EXCEPT ![r] = q]
              /\ \/ q = Idle /\ UNCHANGED <<live, versions>>
                 \/ /\ q # Idle /\ q.pc = "hook" /\ q.pos = 1 /\ SameBut(q, req[r]) /\ NamesOf(q) = NamesOf(req[r])
                    /\ versions' \in [Names -> Nat]
                    /\ \E n \in NamesMeant(req[r]) :
                         /\ n # q.new /\ live[n] # 0 /\ live[q.new] = 0
                         /\ live' = [live EXCEPT ![n] = 0, ![q.new] = live[n]]
<1> DEFINE new == req[r].new
<1>1. /\ req[r].pc = "call" /\ req[r].op = "rename"
      /\ UNCHANGED <<kind, row, made, creator, writes, faults, handed, excused>>
  BY DEF Rename, history
<1>2. req[r] \in Request /\ Shaped(req[r], kind)
  BY <1>1, Active
<1>3. NamesMeant(req[r]) \subseteq Names /\ req[r].pos = 1 /\ new \in Names
  BY <1>1, <1>2 DEF NamesMeant, Request, Shaped
<1>4. CASE End(r) /\ UNCHANGED <<live, versions>>
  BY <1>1, <1>4 DEF End
<1>5. ASSUME NEW n \in NamesMeant(req[r]), Goto(r, "hook"), live[n] # 0, live[new] = 0,
             live' = [live EXCEPT ![n] = 0, ![new] = live[n]],
             versions' = [versions EXCEPT ![n] = 0, ![new] = versions[n]]
      PROVE  \E q \in Request :
               /\ req' = [req EXCEPT ![r] = q]
               /\ q # Idle /\ q.pc = "hook" /\ q.pos = 1 /\ SameBut(q, req[r]) /\ NamesOf(q) = NamesOf(req[r])
               /\ versions' \in [Names -> Nat]
               /\ \E m \in NamesMeant(req[r]) :
                    /\ m # q.new /\ live[m] # 0 /\ live[q.new] = 0
                    /\ live' = [live EXCEPT ![m] = 0, ![q.new] = live[m]]
  <2>1. PICK q \in Request : /\ q # Idle /\ q.pc = "hook" /\ q.pos = req[r].pos /\ SameBut(q, req[r])
                             /\ NamesOf(q) = NamesOf(req[r]) /\ req' = [req EXCEPT ![r] = q]
    BY <1>1, <1>5, Went DEF Phases
  <2>2. versions \in [Names -> Nat] /\ n \in Names
    BY <1>3 DEF IInv, TypeOK
  <2>3. versions' \in [Names -> Nat]
    BY <1>3, <1>5, <2>2
  <2>4. q.new = new
    BY <2>1 DEF SameBut
  <2> QED
    BY <1>3, <1>5, <2>1, <2>3, <2>4
<1> QED
  <2>1. \/ \E n \in NamesMeant(req[r]) :
              /\ live[n] # 0 /\ live[new] = 0
              /\ live' = [live EXCEPT ![n] = 0, ![new] = live[n]]
              /\ versions' = [versions EXCEPT ![n] = 0, ![new] = versions[n]]
              /\ Goto(r, "hook")
        \/ End(r) /\ UNCHANGED <<live, versions>>
    BY DEF Rename
  <2> QED
    BY <1>1, <1>4, <1>5, <2>1

LEMMA DeleteTyped ==
  ASSUME IInv, NEW r \in Requests, Delete(r)
  PROVE  TypeOK' /\ Numbered'
<1>1. /\ req[r].pc = "call" /\ req[r].op = "delete"
      /\ UNCHANGED <<kind, row, made, creator, writes, faults, handed>>
  BY DeleteDoes
<1>2. req[r] \in Request /\ Shaped(req[r], kind) /\ req[r].target <= made
  BY <1>1, Active
<1>3. NamesMeant(req[r]) \subseteq Names
  BY <1>2 DEF NamesMeant, Request
<1>4. PICK q \in Request \cup {Idle} :
        /\ req' = [req EXCEPT ![r] = q]
        /\ \/ q = Idle /\ UNCHANGED <<live, versions, excused>>
           \/ /\ q # Idle /\ q.pc = "hook" /\ q.pos = 1 /\ SameBut(q, req[r])
              /\ versions' \in [Names -> Nat]
              /\ \E n \in NamesMeant(req[r]) : live' \in {live, [live EXCEPT ![n] = 0]}
                                               /\ excused' \in {excused, excused \cup {n}}
  BY DeleteDoes
<1>5. /\ live \in [Names -> Ids] /\ versions \in [Names -> Nat] /\ made \in Ids /\ 0 \in Ids /\ made \in Nat
  BY ConstantsAssumption DEF IInv, TypeOK, Ids
<1>6. versions' \in [Names -> Nat] /\ excused' \subseteq Names
  BY <1>3, <1>4, <1>5 DEF IInv, TypeOK
<1>7. live' \in [Names -> Ids] /\ \A n \in Names : live'[n] \in {live[n], 0}
  BY <1>3, <1>4, <1>5
<1>8. q # Idle => q.target <= made' /\ Shaped(q, kind)
  BY <1>1, <1>2, <1>4 DEF Shaped, SameBut
<1>9. made' = made /\ made <= made'
  BY <1>1, <1>5
<1>10. /\ req' \in [Requests -> Request \cup {Idle}]
       /\ \A s \in Requests : req'[s] # Idle => req'[s].target <= made' /\ Shaped(req'[s], kind')
  BY <1>1, <1>4, <1>5, <1>8, <1>9, RequestsTyped
<1>11. TypeOK'
  BY <1>1, <1>6, <1>7, <1>10 DEF IInv, TypeOK
<1>12. Numbered'
  BY <1>1, <1>5, <1>7, <1>10 DEF IInv, Numbered
<1> QED
  BY <1>11, <1>12

LEMMA RenameTyped ==
  ASSUME IInv, NEW r \in Requests, Rename(r)
  PROVE  TypeOK' /\ Numbered'
<1>1. /\ req[r].pc = "call" /\ req[r].op = "rename"
      /\ UNCHANGED <<kind, row, made, creator, writes, faults, handed, excused>>
  BY RenameDoes
<1>2. req[r] \in Request /\ Shaped(req[r], kind) /\ req[r].target <= made
  BY <1>1, Active
<1>3. NamesMeant(req[r]) \subseteq Names /\ req[r].new \in Names
  BY <1>2 DEF NamesMeant, Request
<1>4. PICK q \in Request \cup {Idle} :
        /\ req' = [req EXCEPT ![r] = q]
        /\ \/ q = Idle /\ UNCHANGED <<live, versions>>
           \/ /\ q # Idle /\ q.pc = "hook" /\ q.pos = 1 /\ SameBut(q, req[r])
              /\ versions' \in [Names -> Nat]
              /\ \E n \in NamesMeant(req[r]) :
                   n # q.new /\ live[n] # 0 /\ live[q.new] = 0 /\ live' = [live EXCEPT ![n] = 0, ![q.new] = live[n]]
  BY RenameDoes
<1>5. /\ live \in [Names -> Ids] /\ versions \in [Names -> Nat] /\ made \in Ids /\ 0 \in Ids /\ made \in Nat
      /\ \A n \in Names : live[n] <= made
      /\ \A m, k \in Names : live[m] = live[k] /\ live[m] # 0 => m = k
  BY ConstantsAssumption DEF IInv, TypeOK, Ids, Numbered
<1>6. versions' \in [Names -> Nat]
  BY <1>4, <1>5
<1>7. /\ live' \in [Names -> Ids] /\ \A n \in Names : live'[n] <= made
      /\ \A m, k \in Names : live'[m] = live'[k] /\ live'[m] # 0 => m = k
  <2>1. CASE live' = live
    BY <1>5, <2>1
  <2>2. ASSUME NEW n \in Names, n # req[r].new, live[n] # 0, live[req[r].new] = 0,
               live' = [live EXCEPT ![n] = 0, ![req[r].new] = live[n]]
        PROVE  <1>7!1 /\ <1>7!2
    <3>1. \A m \in Names : live'[m] = IF m = n THEN 0 ELSE IF m = req[r].new THEN live[n] ELSE live[m]
      BY <1>3, <1>5, <2>2
    <3>2. live' \in [Names -> Ids]
      BY <1>3, <1>5, <2>2
    <3>3. \A m \in Names : live'[m] <= made
      BY <1>5, <3>1
    <3>4. \A m, k \in Names : live'[m] = live'[k] /\ live'[m] # 0 => m = k
      BY <1>3, <1>5, <2>2, <3>1
    <3> QED
      BY <3>2, <3>3, <3>4
  <2> QED
    BY <1>3, <1>4, <2>1, <2>2 DEF SameBut
<1>8. q # Idle => q.target <= made' /\ Shaped(q, kind)
  BY <1>1, <1>2, <1>4 DEF Shaped, SameBut
<1>9. made' = made /\ made <= made'
  BY <1>1, <1>5
<1>10. /\ req' \in [Requests -> Request \cup {Idle}]
       /\ \A s \in Requests : req'[s] # Idle => req'[s].target <= made' /\ Shaped(req'[s], kind')
  BY <1>1, <1>4, <1>5, <1>8, <1>9, RequestsTyped
<1>11. TypeOK'
  BY <1>1, <1>6, <1>7, <1>10 DEF IInv, TypeOK
<1>12. Numbered'
  BY <1>1, <1>5, <1>7, <1>10 DEF IInv, Numbered
<1> QED
  BY <1>11, <1>12

LEMMA HookDoes ==
  ASSUME IInv, NEW r \in Requests, HookStep(r)
  PROVE  \E q \in Request \cup {Idle}, part \in SUBSET Subjects :
           LET p == req[r]
           IN  /\ p.pc = "hook" /\ req' = [req EXCEPT ![r] = q]
               /\ UNCHANGED <<kind, world, writes, faults, handed>>
               /\ p.pos = 1 => part = FirstPart(kind, p.op)
               /\ \/ /\ q # Idle /\ q.pc = "hook" /\ q.pos = 2 /\ SameBut(q, p) /\ NamesOf(q) = NamesOf(p)
                     /\ p.pos = 1 /\ kind # "scorer"
                  \/ q = Idle
               /\ \/ /\ \/ p.op = "delete" /\ row' = Wiped(p.name, part)
                        \/ p.op = "rename" /\ row' = Moved(p.name, p.new, part)
                           /\ part \cap Holders(p.name) \cap Holders(p.new) = {}
                     /\ q = Idle => Subjects \subseteq part \cup (IF p.pos = 2 THEN FirstPart(kind, p.op) ELSE {})
                     /\ excused' = excused
                  \/ /\ p.op = "rename" /\ row' = row /\ q = Idle
                     /\ excused' = IF Holders(p.name) = {} THEN excused ELSE excused \cup NamesOf(p)
<1> DEFINE p == req[r]
           order == HookOrder(p.op)
           part == order[p.pos]
           next == IF p.pos = Len(order) THEN Idle ELSE [p EXCEPT !.pos = @ + 1]
<1>1. /\ p.pc = "hook" /\ UNCHANGED <<kind, world, writes, faults, handed>>
      /\ \/ p.op = "delete" /\ row' = Wiped(p.name, part) /\ req' = [req EXCEPT ![r] = next] /\ excused' = excused
         \/ /\ p.op = "rename" /\ ~RenameRaises(p.name, p.new, part)
            /\ row' = Moved(p.name, p.new, part) /\ req' = [req EXCEPT ![r] = next] /\ excused' = excused
         \/ /\ p.op = "rename" /\ row' = row /\ req' = [req EXCEPT ![r] = Idle]
            /\ excused' = IF Holders(p.name) = {} THEN excused ELSE excused \cup NamesOf(p)
  BY DEF HookStep, End
<1>2. p \in Request /\ Shaped(p, kind) /\ NamesOf(p) = {p.name, p.new}
  BY <1>1, Active
<1>3. p.pos \in 1 .. 2 /\ (kind = "scorer" => p.pos = 1)
  BY <1>1, <1>2 DEF Request, Shaped
<1>4. p.pos = 1 =>
        LET q == [p EXCEPT !.pos = @ + 1]
        IN  q \in Request /\ q # Idle /\ q.pc = "hook" /\ q.pos = 2 /\ SameBut(q, p) /\ NamesOf(q) = NamesOf(p)
  BY <1>1, <1>2 DEF Request, Idle, SameBut, NamesOf
<1> DEFINE Next_ == p.pos = 1 /\ kind # "scorer" /\ next = [p EXCEPT !.pos = @ + 1]
           Over == next = Idle /\ Subjects \subseteq part \cup (IF p.pos = 2 THEN FirstPart(kind, p.op) ELSE {})
<1>5. part \subseteq Subjects /\ (p.pos = 1 => part = FirstPart(kind, p.op)) /\ (Next_ \/ Over)
  <2>1. CASE kind = "scorer"
    <3>1. order = <<Subjects>> /\ p.pos = 1
      BY <1>3, <2>1 DEF HookOrder
    <3>2. part = Subjects /\ next = Idle
      BY <3>1
    <3> QED
      BY <1>3, <2>1, <3>2 DEF FirstPart
  <2>2. CASE kind = "model" /\ p.op = "delete"
    <3>1. order = <<{Group}, Users>>
      BY <2>2 DEF HookOrder
    <3>2. /\ p.pos = 1 => part = {Group} /\ next = [p EXCEPT !.pos = @ + 1]
          /\ p.pos = 2 => part = Users /\ next = Idle
      BY <3>1
    <3>3. FirstPart(kind, p.op) = {Group} /\ kind # "scorer"
      BY <2>2 DEF FirstPart
    <3> QED
      BY <1>3, <3>2, <3>3 DEF Subjects
  <2>3. CASE kind # "scorer" /\ ~(kind = "model" /\ p.op = "delete")
    <3>1. order = <<Users, {Group}>>
      BY <2>3 DEF HookOrder
    <3>2. /\ p.pos = 1 => part = Users /\ next = [p EXCEPT !.pos = @ + 1]
          /\ p.pos = 2 => part = {Group} /\ next = Idle
      BY <3>1
    <3>3. FirstPart(kind, p.op) = Users
      BY <2>3 DEF FirstPart
    <3> QED
      BY <1>3, <2>3, <3>2, <3>3 DEF Subjects
  <2> QED
    BY <2>1, <2>2, <2>3
<1>6. ~RenameRaises(p.name, p.new, part) => part \cap Holders(p.name) \cap Holders(p.new) = {}
  BY DEF RenameRaises
<1>7. /\ next \in Request \cup {Idle}
      /\ next # Idle => /\ next.pc = "hook" /\ next.pos = 2 /\ SameBut(next, p) /\ NamesOf(next) = NamesOf(p)
                        /\ p.pos = 1 /\ kind # "scorer"
      /\ next = Idle => Subjects \subseteq part \cup (IF p.pos = 2 THEN FirstPart(kind, p.op) ELSE {})
  <2> HIDE DEF next, part
  <2>1. CASE Next_
    BY <1>4, <2>1
  <2>2. CASE Over
    BY <2>2
  <2> QED
    BY <1>5, <2>1, <2>2
<1>8. Idle \in Request \cup {Idle} /\ part \in SUBSET Subjects
  BY <1>5
<1> HIDE DEF next, part, order
<1>9. CASE req' = [req EXCEPT ![r] = next] /\ excused' = excused
           /\ \/ p.op = "delete" /\ row' = Wiped(p.name, part)
              \/ p.op = "rename" /\ ~RenameRaises(p.name, p.new, part) /\ row' = Moved(p.name, p.new, part)
  <2> next \in Request \cup {Idle} /\ part \in SUBSET Subjects
    BY <1>7, <1>8
  <2> WITNESS next \in Request \cup {Idle}, part \in SUBSET Subjects
  <2> QED
    BY <1>1, <1>5, <1>6, <1>7, <1>9
<1>10. CASE /\ p.op = "rename" /\ row' = row /\ req' = [req EXCEPT ![r] = Idle]
            /\ excused' = IF Holders(p.name) = {} THEN excused ELSE excused \cup NamesOf(p)
  <2> Idle \in Request \cup {Idle} /\ part \in SUBSET Subjects
    BY <1>8
  <2> WITNESS Idle \in Request \cup {Idle}, part \in SUBSET Subjects
  <2> QED
    BY <1>1, <1>5, <1>10
<1> QED
  BY <1>1, <1>9, <1>10

LEMMA HookTyped ==
  ASSUME IInv, NEW r \in Requests, HookStep(r)
  PROVE  TypeOK' /\ Numbered'
<1> DEFINE p == req[r]
<1>1. PICK q \in Request \cup {Idle}, part \in SUBSET Subjects :
        /\ p.pc = "hook" /\ req' = [req EXCEPT ![r] = q] /\ UNCHANGED <<kind, world, writes, faults, handed>>
        /\ q # Idle => q.pc = "hook" /\ q.pos = 2 /\ SameBut(q, p) /\ kind # "scorer"
        /\ row' \in {row, Wiped(p.name, part), Moved(p.name, p.new, part)}
        /\ excused' \in {excused, excused \cup NamesOf(p)}
  BY HookDoes
<1>2. p \in Request /\ Shaped(p, kind)
  BY <1>1, Active
<1>3. p.name \in Names /\ p.new \in Names /\ row \in [Names \X Subjects -> Row \cup {NoRow}]
  BY <1>2 DEF Request, IInv, TypeOK
<1>4. Wiped(p.name, part) \in [Names \X Subjects -> Row \cup {NoRow}]
  BY <1>3 DEF Wiped
<1>5. Moved(p.name, p.new, part) \in [Names \X Subjects -> Row \cup {NoRow}]
  <2>1. \A ns \in Names \X Subjects : ns[2] \in Subjects /\ <<p.name, ns[2]>> \in Names \X Subjects
    BY <1>3
  <2>2. \A ns \in Names \X Subjects : row[ns] \in Row \cup {NoRow} /\ row[<<p.name, ns[2]>>] \in Row \cup {NoRow}
    BY <1>3, <2>1
  <2> QED
    BY <2>2 DEF Moved
<1>6. row' \in [Names \X Subjects -> Row \cup {NoRow}]
  BY <1>1, <1>3, <1>4, <1>5
<1>7. q # Idle => q.target = req[r].target /\ Shaped(q, kind)
  BY <1>1, <1>2 DEF Shaped, SameBut
<1> QED
  BY <1>1, <1>6, <1>7, StepTyped

LEMMA RowsTyped ==
  ASSUME IInv, NEW r \in Requests
  PROVE  /\ HookFails(r) => TypeOK' /\ Numbered'
         /\ GrantToCreator(r) => TypeOK' /\ Numbered'
         /\ Write(r) => TypeOK' /\ Numbered'
         /\ Demote(r) => TypeOK' /\ Numbered'
         /\ Promote(r) => TypeOK' /\ Numbered'
         /\ Insert(r) => TypeOK' /\ Numbered'
<1> DEFINE p == req[r]
           Typed(rw) == rw \in [Names \X Subjects -> Row \cup {NoRow}]
<1>1. Typed(row)
  BY DEF IInv, TypeOK
<1>2. \A key \in Names \X Subjects, entry \in Row \cup {NoRow} : Typed([row EXCEPT ![key] = entry])
  BY <1>1
<1>3. p.pc # "idle" => /\ p \in Request /\ Shaped(p, kind) /\ p.name \in Names /\ p.target \in Ids /\ p.perm \in Permissions
                       /\ <<p.name, p.by>> \in Names \X Subjects /\ <<p.name, p.subject>> \in Names \X Subjects
  BY Active DEF Request, Subjects
<1>4. \A i \in Ids : Granted(i) \in Row
  BY DEF Granted, Row, Permissions
<1>5. \A key \in Names \X Subjects : row[key] # NoRow => row[key].of \in Ids
  BY <1>1 DEF Row
<1>6. \A i \in Ids, perm \in Permissions : [perm |-> perm, of |-> i] \in Row
  BY DEF Row
<1>7. {"EDIT", "MANAGE"} = Permissions
  BY DEF Permissions
<1>8. ASSUME NEW pc \in Phases, Goto(r, pc), p.pc # "idle", p.pos = 1,
             /\ pc \in {"promote", "insert"} /\ kind = "experiment" /\ p.subject \in Users /\ p.op \notin {"delete", "rename"}
      PROVE  \E q \in Request \cup {Idle} :
               req' = [req EXCEPT ![r] = q] /\ (q # Idle => q.target = p.target /\ Shaped(q, kind))
  BY <1>3, <1>8, Went DEF Shaped, SameBut
<1>9. HookFails(r) => TypeOK' /\ Numbered'
  <2> SUFFICES ASSUME HookFails(r) PROVE TypeOK' /\ Numbered'
    OBVIOUS
  <2> QED
    BY <1>1, StepTyped DEF HookFails, End
<1>10. GrantToCreator(r) => TypeOK' /\ Numbered'
  <2> SUFFICES ASSUME GrantToCreator(r) PROVE TypeOK' /\ Numbered'
    OBVIOUS
  <2>1. p.pc = "grant" /\ Typed(row')
    BY <1>1, <1>2, <1>3, <1>4 DEF GrantToCreator
  <2> QED
    BY <2>1, StepTyped DEF GrantToCreator, End, history
<1>11. Write(r) => TypeOK' /\ Numbered'
  <2> SUFFICES ASSUME Write(r) PROVE TypeOK' /\ Numbered'
    OBVIOUS
  <2>1. p.pc = "write" /\ Typed(row')
    BY <1>1, <1>2, <1>3, <1>6 DEF Write
  <2> QED
    BY <2>1, StepTyped DEF Write, End
<1>12. Demote(r) => TypeOK' /\ Numbered'
  <2> SUFFICES ASSUME Demote(r) PROVE TypeOK' /\ Numbered'
    OBVIOUS
  <2>1. /\ p.pc = "demote" /\ Goto(r, "promote") /\ UNCHANGED <<kind, world, writes, history>>
        /\ faults' \in {faults, faults + 1}
    BY DEF Demote
  <2>2. p.owner \in Users /\ <<p.name, p.owner>> \in Names \X Subjects
    BY <1>3, <2>1 DEF Shaped, Subjects
  <2>3. Typed(row')
    BY <1>1, <1>2, <1>5, <1>6, <1>7, <2>2 DEF Demote
  <2>4. \E q \in Request \cup {Idle} :
          req' = [req EXCEPT ![r] = q] /\ (q # Idle => q.target = p.target /\ Shaped(q, kind))
    BY <1>3, <1>8, <2>1 DEF Shaped, Phases
  <2> QED
    BY <2>1, <2>3, <2>4, StepTyped DEF history
<1>13. Promote(r) => TypeOK' /\ Numbered'
  <2> SUFFICES ASSUME Promote(r) PROVE TypeOK' /\ Numbered'
    OBVIOUS
  <2>1. /\ p.pc = "promote" /\ (Goto(r, "insert") \/ End(r)) /\ UNCHANGED <<kind, world, writes, faults, history>>
    BY DEF Promote
  <2>2. Typed(row')
    BY <1>1, <1>2, <1>3, <1>5, <1>6, <1>7, <2>1 DEF Promote
  <2>3. \E q \in Request \cup {Idle} :
          req' = [req EXCEPT ![r] = q] /\ (q # Idle => q.target = p.target /\ Shaped(q, kind))
    BY <1>3, <1>8, <2>1 DEF Shaped, Phases, End
  <2> QED
    BY <2>1, <2>2, <2>3, StepTyped DEF history
<1>14. Insert(r) => TypeOK' /\ Numbered'
  <2> SUFFICES ASSUME Insert(r) PROVE TypeOK' /\ Numbered'
    OBVIOUS
  <2>1. p.pc = "insert" /\ Typed(row')
    BY <1>1, <1>2, <1>3, <1>4 DEF Insert
  <2> QED
    BY <2>1, StepTyped DEF Insert, End, history
<1> QED
  BY <1>9, <1>10, <1>11, <1>12, <1>13, <1>14

LEMMA NextTyped ==
  ASSUME IInv, [Next]_vars
  PROVE  TypeOK' /\ Numbered'
<1>1. CASE UNCHANGED vars
  BY <1>1 DEF IInv, TypeOK, Numbered, Ids, vars, world, history
<1>2. ASSUME NEW r \in Requests,
             \/ Asks(r) \/ Create(r) \/ Delete(r) \/ Rename(r) \/ HookStep(r)
             \/ GrantToCreator(r) \/ HookFails(r) \/ Write(r) \/ Demote(r) \/ Promote(r) \/ Insert(r)
      PROVE  TypeOK' /\ Numbered'
  BY <1>2, AskTyped, CreateTyped, DeleteTyped, RenameTyped, HookTyped, RowsTyped
<1> QED
  BY <1>1, <1>2 DEF Next

(* Rows and resources that a step leaves alone.                            *)
LEMMA StillRight ==
  ASSUME NEW n \in Names, NEW lv, NEW rw, NEW cr, NEW hd, NEW lw, NEW rx, NEW cs, NEW he,
         Right(n, lv, rw, cr, hd), lw[n] = lv[n],
         \A s \in Subjects : rx[<<n, s>>] = rw[<<n, s>>],
         hd \subseteq he,
         lv[n] # 0 => cs[lv[n]] = cr[lv[n]] /\ cr[lv[n]] \in Users
  PROVE  Right(n, lw, rx, cs, he)
BY DEF Right, FollowsIn, KeptIn, Fine, Subjects

LEMMA StillInOrder ==
  ASSUME NEW q \in Request, NEW k, NEW lv, NEW rw, NEW cr, NEW hd, NEW lw, NEW rx, NEW cs, NEW he,
         InOrder(q, k, lv, rw, cr, hd), hd \subseteq he,
         \A n \in {q.name, q.new} : /\ lw[n] = lv[n] /\ \A s \in Subjects : rx[<<n, s>>] = rw[<<n, s>>]
                                    /\ lv[n] # 0 => cs[lv[n]] = cr[lv[n]] /\ cr[lv[n]] \in Users
  PROVE  InOrder(q, k, lw, rx, cs, he)
<1>1. q.name \in Names /\ q.new \in Names
  BY DEF Request
<1>2. q.pc \in {"call", "write"} => Right(q.name, lw, rx, cs, he) /\ Right(q.new, lw, rx, cs, he)
  BY <1>1, StillRight DEF InOrder
<1>3. /\ FollowsIn(q.name, lv, rw) => FollowsIn(q.name, lw, rx)
      /\ FollowsIn(q.new, lv, rw) => FollowsIn(q.new, lw, rx)
  BY DEF FollowsIn
<1>4. /\ KeptIn(q.name, lv, rw, cr, hd) => KeptIn(q.name, lw, rx, cs, he)
      /\ KeptIn(q.new, lv, rw, cr, hd) => KeptIn(q.new, lw, rx, cs, he)
  BY DEF KeptIn, Fine, Subjects
<1>5. FirstPart(k, q.op) \subseteq Subjects
  BY DEF FirstPart, Subjects
<1>6. q.pc = "grant" => cs[q.target] = cr[q.target]
  BY DEF InOrder
<1>7. q.pc = "hook" /\ q.op = "rename" /\ q.pos = 1 /\ lw[q.new] \notin he =>
        Fine(rx[<<q.name, cs[lw[q.new]]>>])
  BY DEF InOrder, Subjects
<1> QED
  BY <1>2, <1>3, <1>4, <1>5, <1>6, <1>7 DEF InOrder

-----------------------------------------------------------------------------
(* A step of one request changes its own names, or excused ones.           *)
LEMMA StepByName ==
  ASSUME IInv, ~HasOwner, NEW r \in Requests, req[r] # Idle, NEW q \in Request \cup {Idle},
         req' = [req EXCEPT ![r] = q], kind' = kind, handed \subseteq handed',
         q # Idle => NamesOf(q) = NamesOf(req[r]),
         excused' \in {excused, excused \cup NamesOf(req[r])},
         \A i \in 1 .. made : creator'[i] = creator[i],
         \A n \in Names \ (NamesOf(req[r]) \cup excused) :
           live'[n] = live[n] /\ \A s \in Subjects : row'[<<n, s>>] = row[<<n, s>>],
         NamesOf(req[r]) \cap excused' = {} =>
           IF q = Idle THEN \A n \in NamesOf(req[r]) : Right(n, live', row', creator', handed')
           ELSE InOrder(q, kind, live', row', creator', handed')
  PROVE  Apart' /\ NamesRight' /\ RequestsInOrder'
<1> DEFINE N == NamesOf(req[r])
<1>1. Apart /\ NamesRight /\ RequestsInOrder
  BY DEF IInv, ByName
<1>2. \A s \in Requests : req'[s] = IF s = r THEN q ELSE req[s]
  BY DEF IInv, TypeOK
<1>3. \A s \in Requests : NamesOf(req'[s]) \subseteq NamesOf(req[s])
  BY <1>2 DEF NamesOf
<1>4. NamesOf(req'[r]) \in {{}, N}
  BY <1>2 DEF NamesOf
<1>5. excused \subseteq excused'
  OBVIOUS
<1>6. \A s \in Requests : req[s] # Idle => NamesOf(req[s]) \subseteq Names /\ NamesOf(req[s]) # {}
  BY DEF IInv, TypeOK, Request, NamesOf
<1> HIDE DEF N
<1>7. Apart'
  <2>1. ASSUME NEW s \in Requests, NEW t \in Requests, s # t,
               NamesOf(req'[s]) \cap NamesOf(req'[t]) # {}
        PROVE  NamesOf(req'[s]) \cup NamesOf(req'[t]) \subseteq excused'
    BY <1>1, <1>3, <1>5, <2>1 DEF Apart
  <2>2. ASSUME NEW s \in Requests, NamesOf(req'[s]) \cap excused' # {}
        PROVE  NamesOf(req'[s]) \subseteq excused'
    <3>1. CASE s = r
      BY <1>1, <1>4, <1>5, <2>2, <3>1 DEF Apart, N
    <3>2. CASE s # r
      BY <1>1, <1>2, <1>5, <2>2, <3>2 DEF Apart, N
    <3> QED
      BY <3>1, <3>2
  <2> QED
    BY <2>1, <2>2 DEF Apart
<1>8. ASSUME NEW n \in Names, n \notin N \cup excused
      PROVE  /\ live'[n] = live[n] /\ \A s \in Subjects : row'[<<n, s>>] = row[<<n, s>>]
             /\ live[n] # 0 => creator'[live[n]] = creator[live[n]] /\ creator[live[n]] \in Users
  <2>1. live'[n] = live[n] /\ \A s \in Subjects : row'[<<n, s>>] = row[<<n, s>>]
    BY <1>8 DEF N
  <2>2. live[n] \in Nat /\ live[n] <= made /\ made \in Nat
    BY ConstantsAssumption DEF IInv, TypeOK, Ids, Numbered
  <2>3. live[n] # 0 => live[n] \in 1 .. made
    BY <2>2
  <2> QED
    BY <2>1, <2>3 DEF IInv, Numbered
<1>9. ASSUME NEW n \in Names, n \notin excused' \cup Busy'
      PROVE  Right(n, live', row', creator', handed')
  <2>1. CASE n \in N
    <3>1. NamesOf(req'[r]) = {} /\ n \notin excused'
      BY <1>4, <1>9, <2>1 DEF Busy
    <3>2. N \cap excused' = {}
      BY <1>1, <1>5, <1>9, <2>1 DEF Apart, N
    <3>3. q = Idle
      BY <1>2, <1>6, <3>1, <2>1 DEF N
    <3> QED
      BY <2>1, <3>2, <3>3 DEF N
  <2>2. CASE n \notin N
    <3>1. n \notin excused /\ n \notin Busy
      BY <1>2, <1>5, <1>9, <2>2 DEF Busy, N
    <3>2. Right(n, live, row, creator, handed)
      BY <1>1, <3>1 DEF NamesRight
    <3> QED
      BY <1>8, <2>2, <3>1, <3>2, StillRight
  <2> QED
    BY <2>1, <2>2
<1>10. ASSUME NEW s \in Requests, req'[s] # Idle, NamesOf(req'[s]) \cap excused' = {}
       PROVE  InOrder(req'[s], kind', live', row', creator', handed')
  <2>1. CASE s = r
    BY <1>2, <1>10, <2>1
  <2>2. CASE s # r
    <3>1. req'[s] = req[s] /\ NamesOf(req[s]) \cap excused = {} /\ req[s] # Idle
      BY <1>2, <1>5, <1>10, <2>2
    <3>2. NamesOf(req[s]) \cap N = {}
      BY <1>1, <1>6, <2>2, <3>1 DEF Apart, N
    <3>3. req[s] \in Request /\ NamesOf(req[s]) = {req[s].name, req[s].new}
          /\ {req[s].name, req[s].new} \subseteq Names
      BY <3>1 DEF IInv, TypeOK, NamesOf, Request
    <3>4. InOrder(req[s], kind, live, row, creator, handed)
      BY <1>1, <3>1 DEF RequestsInOrder
    <3>5. \A n \in {req[s].name, req[s].new} :
            /\ live'[n] = live[n] /\ \A x \in Subjects : row'[<<n, x>>] = row[<<n, x>>]
            /\ live[n] # 0 => creator'[live[n]] = creator[live[n]] /\ creator[live[n]] \in Users
      BY <1>8, <3>1, <3>2, <3>3
    <3> QED
      BY <3>1, <3>3, <3>4, <3>5, StillInOrder
  <2> QED
    BY <2>1, <2>2
<1> QED
  BY <1>7, <1>9, <1>10 DEF NamesRight, RequestsInOrder

-----------------------------------------------------------------------------
(* New requests                                                            *)

LEMMA AskByName ==
  ASSUME IInv, ~HasOwner, NEW r \in Requests, req[r] = Idle, NEW q \in Request,
         q.pc \in {"call", "write"}, q.target = live[q.name], q.pos = 1,
         req' = [req EXCEPT ![r] = q], excused' = excused \cup Excused({q.name, q.new}),
         UNCHANGED <<kind, live, row, creator, handed>>
  PROVE  Apart' /\ NamesRight' /\ RequestsInOrder'
<1> DEFINE touched == {q.name, q.new}
           met == {s \in Requests : NamesOf(req[s]) \cap touched # {}}
<1>1. Apart /\ NamesRight /\ RequestsInOrder
  BY DEF IInv, ByName
<1>2. \A s \in Requests : req'[s] = IF s = r THEN q ELSE req[s]
  BY DEF IInv, TypeOK
<1>3. NamesOf(req[r]) = {} /\ NamesOf(q) = touched /\ q # Idle
  BY DEF NamesOf, Idle, Request
<1>4. \A s \in Requests : NamesOf(req'[s]) = IF s = r THEN touched ELSE NamesOf(req[s])
  BY <1>2, <1>3
<1>5. \/ met = {} /\ excused \cap touched = {} /\ excused' = excused
      \/ excused' = excused \cup touched \cup UNION {NamesOf(req[s]) : s \in met}
  BY DEF Excused
<1>6. r \notin met
  BY <1>3
<1>7. ASSUME NEW s \in Requests, NEW t \in Requests, s # t,
             NamesOf(req'[s]) \cap NamesOf(req'[t]) # {}
      PROVE  NamesOf(req'[s]) \cup NamesOf(req'[t]) \subseteq excused'
  <2>1. CASE s # r /\ t # r
    BY <1>1, <1>4, <1>7, <2>1 DEF Apart
  <2>2. CASE s = r
    <3>1. t \in met
      BY <1>4, <1>7, <2>2
    <3> QED
      BY <1>4, <1>5, <1>7, <2>2, <3>1
  <2>3. CASE t = r
    <3>1. s \in met
      BY <1>4, <1>7, <2>3
    <3> QED
      BY <1>4, <1>5, <1>7, <2>3, <3>1
  <2> QED
    BY <2>1, <2>2, <2>3
<1>8. ASSUME NEW s \in Requests, NamesOf(req'[s]) \cap excused' # {}
      PROVE  NamesOf(req'[s]) \subseteq excused'
  <2>1. CASE s = r
    BY <1>4, <1>5, <1>8, <2>1
  <2>2. CASE s # r /\ NamesOf(req[s]) \cap excused # {}
    BY <1>1, <1>4, <2>2 DEF Apart
  <2>3. CASE s # r /\ NamesOf(req[s]) \cap excused = {}
    <3>1. excused' = excused \cup touched \cup UNION {NamesOf(req[t]) : t \in met}
      BY <1>4, <1>5, <1>8, <2>3
    <3>2. s \in met
      <4>1. CASE NamesOf(req[s]) \cap touched # {}
        BY <4>1
      <4>2. CASE NamesOf(req[s]) \cap touched = {}
        <5>0. PICK n \in NamesOf(req[s]) : n \in excused' /\ n \notin excused /\ n \notin touched
          BY <1>4, <1>8, <2>3, <4>2
        <5>1. PICK t \in met : n \in NamesOf(req[t])
          BY <3>1, <5>0
        <5>2. s = t
          BY <1>1, <2>3, <5>0, <5>1 DEF Apart
        <5> QED
          BY <5>1, <5>2
      <4> QED
        BY <4>1, <4>2
    <3> QED
      BY <1>4, <2>3, <3>1, <3>2
  <2> QED
    BY <2>1, <2>2, <2>3
<1>9. Apart'
  BY <1>7, <1>8 DEF Apart
<1>10. \A n \in Names \ (excused' \cup Busy') : n \notin excused \cup Busy
  BY <1>3, <1>4 DEF Busy
<1>11. NamesRight'
  BY <1>1, <1>10 DEF NamesRight
<1>12. ASSUME NEW s \in Requests, req'[s] # Idle, NamesOf(req'[s]) \cap excused' = {}
       PROVE  InOrder(req'[s], kind, live, row, creator, handed)
  <2>1. CASE s # r
    BY <1>1, <1>2, <1>4, <1>12, <2>1 DEF RequestsInOrder
  <2>2. CASE s = r
    <3>0. q.name \in touched /\ touched \cap excused' = {}
      BY <1>4, <1>12, <2>2
    <3>1. touched \cap excused = {} /\ met = {}
      BY <1>5, <3>0
    <3>2. touched \subseteq Names \ (excused \cup Busy)
      BY <3>1 DEF Busy, Request
    <3>3. Right(q.name, live, row, creator, handed) /\ Right(q.new, live, row, creator, handed)
      BY <1>1, <3>2 DEF NamesRight
    <3> QED
      BY <1>2, <2>2, <3>3 DEF InOrder
  <2> QED
    BY <2>1, <2>2
<1>13. RequestsInOrder'
  BY <1>12 DEF RequestsInOrder
<1> QED
  BY <1>9, <1>11, <1>13

(* No other request is taken to mean a resource by the name it has.        *)
LEMMA MeantStays ==
  ASSUME IInv, ~HasOwner, NEW r \in Requests, NEW q \in Request \cup {Idle}, req' = [req EXCEPT ![r] = q],
         q # Idle => q.pc # "call", kind' = kind, excused \subseteq excused',
         \A n \in Names : live'[n] \in {live[n], 0} \/ live'[n] > made
  PROVE  Meant'
<1>1. \A s \in Requests : req'[s] = IF s = r THEN q ELSE req[s]
  BY DEF IInv, TypeOK
<1>2. ASSUME NEW s \in Requests, req'[s] # Idle, ById', req'[s].pc = "call", req'[s].op # "create",
             NEW n \in Names, live'[n] = req'[s].target
      PROVE  n = req'[s].name \/ {n, req'[s].name} \subseteq excused'
  <2>1. s # r /\ req'[s] = req[s] /\ ById
    BY <1>1, <1>2 DEF ById
  <2>2. req[s] \in Request /\ Shaped(req[s], kind) /\ req[s].target <= made
    BY <1>2, <2>1 DEF IInv, TypeOK, Numbered
  <2>3. req[s].target # 0 /\ req[s].target \in Nat /\ made \in Nat
    BY <1>2, <2>1, <2>2, ConstantsAssumption DEF Shaped, Request, Ids, IInv, TypeOK
  <2>4. live[n] = req[s].target
    BY <1>2, <2>1, <2>2, <2>3
  <2> QED
    BY <1>2, <2>1, <2>4 DEF IInv, ByName, Meant
<1> QED
  BY <1>2 DEF Meant

LEMMA AskKeepsNames ==
  ASSUME IInv, ~HasOwner, NEW r \in Requests, Asks(r)
  PROVE  ByName'
<1>1. PICK q \in Request :
        /\ q.pc \in {"call", "write", "demote", "promote"} /\ q.pos = 1 /\ q.target = live[q.name] /\ Shaped(q, kind)
        /\ req[r] = Idle /\ req' = [req EXCEPT ![r] = q]
        /\ excused' = excused \cup Excused({q.name, q.new})
        /\ UNCHANGED <<kind, live, versions, row, made, creator, faults, handed>>
  BY Asked
<1>2. q.pc \in {"call", "write"}
  BY <1>1 DEF Shaped, HasOwner
<1>3. Apart' /\ NamesRight' /\ RequestsInOrder'
  BY <1>1, <1>2, AskByName
<1>4. \A s \in Requests : req'[s] = IF s = r THEN q ELSE req[s]
  BY <1>1 DEF IInv, TypeOK
<1>5. ASSUME NEW s \in Requests, req'[s] # Idle, ById', req'[s].pc = "call", req'[s].op # "create",
             NEW n \in Names, live'[n] = req'[s].target
      PROVE  n = req'[s].name \/ {n, req'[s].name} \subseteq excused'
  <2>1. CASE s # r
    BY <1>1, <1>4, <1>5, <2>1 DEF IInv, ByName, Meant, ById
  <2>2. CASE s = r
    <3>1. req'[s] = q /\ live[n] = live[q.name] /\ q.name \in Names
      BY <1>1, <1>4, <1>5, <2>2 DEF Request
    <3>2. live[q.name] # 0
      BY <1>1, <1>5, <3>1 DEF Shaped
    <3> QED
      BY <3>1, <3>2 DEF IInv, Numbered
  <2> QED
    BY <2>1, <2>2
<1> QED
  BY <1>3, <1>5 DEF ByName, Meant

-----------------------------------------------------------------------------
(* MLflow serves the request                                               *)

LEMMA CreateKeepsNames ==
  ASSUME IInv, ~HasOwner, NEW r \in Requests, Create(r)
  PROVE  ByName'
<1> DEFINE n == req[r].name
<1>1. /\ req[r].pc = "call" /\ req[r].op = "create" /\ kind' = kind /\ row' = row /\ handed' = handed
      /\ excused' = excused
  BY CreateDoes
<1>2. PICK q \in Request \cup {Idle} :
        /\ req' = [req EXCEPT ![r] = q]
        /\ \/ q = Idle /\ UNCHANGED <<live, made, creator>>
           \/ /\ q # Idle /\ q.pc = "grant" /\ q.pos = 1 /\ NamesOf(q) = NamesOf(req[r])
              /\ q.name = n /\ q.by = req[r].by /\ q.target = live'[q.name] /\ q.op = "create"
              /\ \/ live[n] # 0 /\ UNCHANGED <<live, made, creator>>
                 \/ /\ live[n] = 0 /\ made < MaxMade
                    /\ live' = [live EXCEPT ![n] = made + 1]
                    /\ creator' = [creator EXCEPT ![made + 1] = q.by]
  BY CreateDoes
<1>3. /\ req[r] \in Request /\ req[r] # Idle /\ Shaped(req[r], kind) /\ NamesOf(req[r]) = {n}
      /\ n \in Names
  BY <1>1, Active DEF Request, Shaped
<1>4. /\ live \in [Names -> Ids] /\ made \in Nat /\ creator \in [1 .. MaxMade -> Users \cup {NoRow}]
      /\ MaxMade \in Nat /\ \A m \in Names : live[m] \in Nat
  BY ConstantsAssumption DEF IInv, TypeOK, Ids
<1>5. NamesOf(req[r]) \cap excused = {} => InOrder(req[r], kind, live, row, creator, handed)
  BY <1>3 DEF IInv, ByName, RequestsInOrder
<1> HIDE DEF n
<1>6. CASE UNCHANGED <<live, made, creator>> /\ (q = Idle \/ live[n] # 0)
  <2>1. NamesOf(req[r]) \cap excused' = {} =>
          IF q = Idle THEN \A m \in NamesOf(req[r]) : Right(m, live', row', creator', handed')
          ELSE InOrder(q, kind, live', row', creator', handed')
    BY <1>1, <1>2, <1>3, <1>5, <1>6 DEF InOrder, n, Right
  <2>2. Apart' /\ NamesRight' /\ RequestsInOrder'
    BY <1>1, <1>2, <1>3, <1>6, <2>1, StepByName
  <2>3. Meant'
    BY <1>1, <1>2, <1>4, <1>6, MeantStays
  <2> QED
    BY <2>2, <2>3 DEF ByName
<1>7. CASE /\ q # Idle /\ live[n] = 0 /\ made < MaxMade
           /\ live' = [live EXCEPT ![n] = made + 1] /\ creator' = [creator EXCEPT ![made + 1] = q.by]
  <2>1. \A m \in Names : live'[m] = IF m = n THEN made + 1 ELSE live[m]
    BY <1>4, <1>7
  <2>2. \A i \in 1 .. MaxMade : creator'[i] = IF i = made + 1 THEN q.by ELSE creator[i]
    BY <1>4, <1>7
  <2>3. made + 1 \in 1 .. MaxMade /\ \A i \in 1 .. made : i \in 1 .. MaxMade /\ i # made + 1
    BY <1>4, <1>7
  <2>4. NamesOf(req[r]) \cap excused' = {} => InOrder(q, kind, live', row', creator', handed')
    <3> SUFFICES ASSUME n \notin excused PROVE InOrder(q, kind, live', row', creator', handed')
      BY <1>1, <1>3
    <3>1. q.pc = "grant" /\ q.pos = 1 /\ q.name = n /\ q.target = made + 1 /\ live'[n] = made + 1
      BY <1>2, <1>3, <1>7, <2>1
    <3>2. \A s \in Subjects : row[<<n, s>>] # NoRow => row[<<n, s>>].of = 0
      BY <1>1, <1>3, <1>5, <1>7 DEF InOrder, Right, FollowsIn, n
    <3>3. creator'[made + 1] = q.by /\ made + 1 # 0
      BY <1>4, <2>2, <2>3
    <3> QED
      BY <1>1, <3>1, <3>2, <3>3 DEF InOrder, FollowsIn
  <2>5. \A i \in 1 .. made : creator'[i] = creator[i]
    BY <2>2, <2>3
  <2>6. Apart' /\ NamesRight' /\ RequestsInOrder'
    BY <1>1, <1>2, <1>3, <1>7, <2>1, <2>4, <2>5, StepByName
  <2>7. Meant'
    <3>1. \A m \in Names : live'[m] \in {live[m], 0} \/ live'[m] > made
      BY <1>4, <2>1
    <3>2. req' = [req EXCEPT ![r] = q] /\ q.pc # "call"
      BY <1>2, <1>7
    <3> QED
      BY <1>1, <3>1, <3>2, MeantStays
  <2> QED
    BY <2>6, <2>7 DEF ByName
<1> QED
  BY <1>2, <1>6, <1>7

LEMMA DeleteKeepsNames ==
  ASSUME IInv, ~HasOwner, NEW r \in Requests, Delete(r)
  PROVE  ByName'
<1> DEFINE p == req[r]
           N == NamesOf(p)
<1>1. /\ p.pc = "call" /\ p.op = "delete"
      /\ kind' = kind /\ row' = row /\ made' = made /\ creator' = creator /\ handed' = handed
  BY DeleteDoes
<1>2. PICK q \in Request \cup {Idle} :
        /\ req' = [req EXCEPT ![r] = q]
        /\ \/ q = Idle /\ live' = live /\ excused' = excused
           \/ /\ q # Idle /\ q.pc = "hook" /\ q.pos = 1 /\ SameBut(q, p) /\ NamesOf(q) = N
              /\ \E n \in NamesMeant(p) :
                   \/ live' = [live EXCEPT ![n] = 0] /\ excused' = excused
                   \/ kind = "scorer" /\ live' = live /\ excused' = excused \cup {n}
  BY DeleteDoes
<1>3. /\ p \in Request /\ p # Idle /\ Shaped(p, kind) /\ N = {p.name} /\ p.name \in Names
  BY <1>1, Active DEF Request, Shaped
<1>4. N \cap excused = {} => InOrder(p, kind, live, row, creator, handed)
  BY <1>3 DEF IInv, ByName, RequestsInOrder
<1>5. live \in [Names -> Ids]
  BY DEF IInv, TypeOK
<1>6. CASE q = Idle /\ live' = live /\ excused' = excused
  <2>1. N \cap excused' = {} => \A n \in N : Right(n, live', row', creator', handed')
    BY <1>1, <1>3, <1>4, <1>6 DEF InOrder
  <2>2. Apart' /\ NamesRight' /\ RequestsInOrder'
    BY <1>1, <1>2, <1>3, <1>6, <2>1, StepByName
  <2>3. Meant'
    BY <1>2, <1>1, <1>6, MeantStays
  <2> QED
    BY <2>2, <2>3 DEF ByName
<1>7. ASSUME q # Idle, q.pc = "hook", q.pos = 1, SameBut(q, p), NamesOf(q) = N, NEW n \in NamesMeant(p),
             \/ live' = [live EXCEPT ![n] = 0] /\ excused' = excused
             \/ kind = "scorer" /\ live' = live /\ excused' = excused \cup {n}
      PROVE  ByName'
  <2>1. n \in Names /\ (n = p.name \/ {n, p.name} \subseteq excused)
    BY <1>1, <1>3, <1>7 DEF NamesMeant, IInv, ByName, Meant
  <2>2. kind = "scorer" => n = p.name
    BY <1>7 DEF NamesMeant, ById
  <2>3. excused' \in {excused, excused \cup N} /\ excused \subseteq excused'
    BY <1>3, <1>7, <2>2
  <2>4. \A m \in Names : live'[m] \in {live[m], 0} /\ (m # n => live'[m] = live[m])
    BY <1>5, <1>7
  <2>5. N \cap excused' = {} => InOrder(q, kind, live', row', creator', handed')
    <3> SUFFICES ASSUME p.name \notin excused' PROVE InOrder(q, kind, live', row', creator', handed')
      BY <1>3
    <3>1. n = p.name /\ live' = [live EXCEPT ![n] = 0]
      BY <1>7, <2>1, <2>2, <2>3
    <3>2. q.name = n /\ q.op = "delete" /\ live'[n] = 0
      BY <1>1, <1>3, <1>5, <1>7, <3>1 DEF SameBut
    <3> QED
      BY <1>7, <3>2 DEF InOrder
  <2>6. Apart' /\ NamesRight' /\ RequestsInOrder'
    <3>1. \A m \in Names \ (N \cup excused) : live'[m] = live[m] /\ \A s \in Subjects : row'[<<m, s>>] = row[<<m, s>>]
      BY <1>1, <1>3, <2>1, <2>4
    <3> QED
      BY <1>1, <1>2, <1>3, <1>7, <2>3, <2>5, <3>1, StepByName
  <2>7. Meant'
    BY <1>1, <1>2, <1>7, <2>3, <2>4, MeantStays
  <2> QED
    BY <2>6, <2>7 DEF ByName
<1> QED
  BY <1>2, <1>6, <1>7

LEMMA RenameKeepsNames ==
  ASSUME IInv, ~HasOwner, NEW r \in Requests, Rename(r)
  PROVE  ByName'
<1> DEFINE p == req[r]
           N == NamesOf(p)
<1>1. /\ p.pc = "call" /\ p.op = "rename"
      /\ kind' = kind /\ row' = row /\ made' = made /\ creator' = creator /\ handed' = handed /\ excused' = excused
  BY RenameDoes
<1>2. PICK q \in Request \cup {Idle} :
        /\ req' = [req EXCEPT ![r] = q]
        /\ \/ q = Idle /\ live' = live
           \/ /\ q # Idle /\ q.pc = "hook" /\ q.pos = 1 /\ SameBut(q, p) /\ NamesOf(q) = N
              /\ \E n \in NamesMeant(p) : /\ n # q.new /\ live[n] # 0 /\ live[q.new] = 0
                                          /\ live' = [live EXCEPT ![n] = 0, ![q.new] = live[n]]
  BY RenameDoes
<1>3. /\ p \in Request /\ p # Idle /\ Shaped(p, kind) /\ N = {p.name, p.new} /\ p.name \in Names /\ p.new \in Names
  BY <1>1, Active DEF Request
<1>4. N \cap excused = {} => InOrder(p, kind, live, row, creator, handed)
  BY <1>3 DEF IInv, ByName, RequestsInOrder
<1>5. live \in [Names -> Ids]
  BY DEF IInv, TypeOK
<1>6. CASE q = Idle /\ live' = live
  <2>1. N \cap excused' = {} => \A n \in N : Right(n, live', row', creator', handed')
    BY <1>1, <1>3, <1>4, <1>6 DEF InOrder
  <2>2. Apart' /\ NamesRight' /\ RequestsInOrder'
    BY <1>1, <1>2, <1>3, <1>6, <2>1, StepByName
  <2>3. Meant'
    BY <1>2, <1>1, <1>6, MeantStays
  <2> QED
    BY <2>2, <2>3 DEF ByName
<1>7. ASSUME q # Idle, q.pc = "hook", q.pos = 1, SameBut(q, p), NamesOf(q) = N, NEW n \in NamesMeant(p),
             n # q.new, live[n] # 0, live[q.new] = 0, live' = [live EXCEPT ![n] = 0, ![q.new] = live[n]]
      PROVE  ByName'
  <2>1. n \in Names /\ (n = p.name \/ {n, p.name} \subseteq excused)
    BY <1>1, <1>3, <1>7 DEF NamesMeant, IInv, ByName, Meant
  <2>2. q.new = p.new /\ q.name = p.name /\ q.op = "rename"
    BY <1>1, <1>7 DEF SameBut
  <2>3. \A m \in Names : live'[m] = IF m = n THEN 0 ELSE IF m = p.new THEN live[n] ELSE live[m]
    BY <1>3, <1>5, <1>7, <2>1, <2>2
  <2>4. N \cap excused' = {} => InOrder(q, kind, live', row', creator', handed')
    <3> SUFFICES ASSUME p.name \notin excused, p.new \notin excused
                 PROVE  InOrder(q, kind, live', row', creator', handed')
      BY <1>1, <1>3
    <3>0. n = p.name /\ n # p.new
      BY <1>1, <1>7, <2>1, <2>2
    <3>1. n = p.name /\ live'[n] = 0 /\ live'[p.new] = live[n] /\ n # p.new
      BY <1>3, <2>1, <2>3, <3>0
    <3>2. Right(p.name, live, row, creator, handed) /\ Right(p.new, live, row, creator, handed)
      BY <1>1, <1>3, <1>4 DEF InOrder
    <3>3. FollowsIn(q.new, live', row')
      BY <1>1, <1>7, <2>2, <3>2 DEF Right, FollowsIn
    <3>4. \A s \in Subjects : row'[<<q.name, s>>] # NoRow => row'[<<q.name, s>>].of \in {0, live'[q.new]}
      BY <1>1, <2>2, <3>1, <3>2 DEF Right, FollowsIn
    <3>5. live'[q.new] \notin handed' => Fine(row'[<<q.name, creator'[live'[q.new]]>>])
      BY <1>1, <1>7, <2>2, <3>1, <3>2 DEF Right, KeptIn
    <3>6. q.pc = "hook" /\ q.pos = 1 /\ live'[q.name] = 0 /\ live'[q.new] # 0
      BY <1>7, <2>2, <3>1
    <3> QED
      BY <3>3, <3>4, <3>5, <3>6 DEF InOrder
  <2>5. Apart' /\ NamesRight' /\ RequestsInOrder'
    <3>1. \A m \in Names \ (N \cup excused) : live'[m] = live[m] /\ \A s \in Subjects : row'[<<m, s>>] = row[<<m, s>>]
      BY <1>1, <1>3, <2>1, <2>3
    <3> QED
      BY <1>1, <1>2, <1>3, <1>7, <2>4, <3>1, StepByName
  <2>6. ASSUME NEW s \in Requests, req'[s] # Idle, ById', req'[s].pc = "call", req'[s].op # "create",
               NEW m \in Names, live'[m] = req'[s].target
        PROVE  m = req'[s].name \/ {m, req'[s].name} \subseteq excused'
    <3>1. s # r /\ req'[s] = req[s] /\ ById
      <4>1. \A t \in Requests : req'[t] = IF t = r THEN q ELSE req[t]
        BY <1>2 DEF IInv, TypeOK
      <4> QED
        BY <1>1, <1>7, <2>6, <4>1 DEF ById
    <3>2. req[s] \in Request /\ Shaped(req[s], kind) /\ NamesOf(req[s]) = {req[s].name, req[s].new}
      BY <2>6, <3>1 DEF IInv, TypeOK, Numbered, NamesOf
    <3>3. req[s].target # 0
      BY <2>6, <3>1, <3>2 DEF Shaped
    <3>4. CASE m # p.new
      <4>1. live[m] = req[s].target
        BY <2>3, <2>6, <3>1, <3>3, <3>4
      <4> QED
        BY <1>1, <2>6, <3>1, <4>1 DEF IInv, ByName, Meant
    <3>5. CASE m = p.new
      <4>1. live[n] = req[s].target
        BY <1>7, <2>2, <2>3, <2>6, <3>1, <3>5
      <4>2. n = req[s].name \/ {n, req[s].name} \subseteq excused
        BY <2>1, <2>6, <3>1, <4>1 DEF IInv, ByName, Meant
      <4>3. p.name \in excused => p.new \in excused
        BY <1>3 DEF IInv, ByName, Apart
      <4>4. p.name = req[s].name => {p.new, req[s].name} \subseteq excused
        BY <1>3, <3>1, <3>2 DEF IInv, ByName, Apart
      <4> QED
        BY <1>1, <2>1, <3>1, <3>5, <4>2, <4>3, <4>4
    <3> QED
      BY <3>4, <3>5
  <2> QED
    BY <2>5, <2>6 DEF ByName, Meant
<1> QED
  BY <1>2, <1>6, <1>7

-----------------------------------------------------------------------------
(* Rows are written                                                        *)

LEMMA RowsByName ==
  ASSUME IInv, ~HasOwner, NEW r \in Requests, req[r].pc # "idle", NEW q \in Request \cup {Idle},
         req' = [req EXCEPT ![r] = q], kind' = kind, world' = world, handed \subseteq handed',
         q # Idle => NamesOf(q) = NamesOf(req[r]) /\ q.pc # "call",
         excused' \in {excused, excused \cup NamesOf(req[r])},
         \A n \in Names \ NamesOf(req[r]), s \in Subjects : row'[<<n, s>>] = row[<<n, s>>],
         NamesOf(req[r]) \cap excused' = {} /\ InOrder(req[r], kind, live, row, creator, handed) =>
           IF q = Idle THEN \A n \in NamesOf(req[r]) : Right(n, live, row', creator, handed')
           ELSE InOrder(q, kind, live, row', creator, handed')
  PROVE  ByName'
<1>1. live' = live /\ creator' = creator /\ made' = made
  BY DEF world
<1>2. req[r] # Idle
  BY Active
<1>3. NamesOf(req[r]) \cap excused' = {} => InOrder(req[r], kind, live, row, creator, handed)
  BY <1>2 DEF IInv, ByName, RequestsInOrder
<1>4. Apart' /\ NamesRight' /\ RequestsInOrder'
  BY <1>1, <1>2, <1>3, StepByName
<1>5. Meant'
  BY <1>1, MeantStays
<1> QED
  BY <1>4, <1>5 DEF ByName

LEMMA HookFailsKeepsNames ==
  ASSUME IInv, ~HasOwner, NEW r \in Requests, HookFails(r)
  PROVE  ByName'
<1>1. NamesOf(req[r]) # {} /\ req[r].pc # "idle"
  BY Active DEF HookFails
<1> QED
  BY <1>1, RowsByName DEF HookFails, End

LEMMA GrantKeepsNames ==
  ASSUME IInv, ~HasOwner, NEW r \in Requests, GrantToCreator(r)
  PROVE  ByName'
<1> DEFINE p == req[r]
           n == p.name
           key == <<n, p.by>>
<1>1. /\ p.pc = "grant" /\ UNCHANGED <<kind, world, handed, excused>> /\ req' = [req EXCEPT ![r] = Idle]
      /\ row' = IF row[key] # NoRow THEN row ELSE [row EXCEPT ![key] = Granted(p.target)]
  BY DEF GrantToCreator, End, history
<1>2. /\ p \in Request /\ Shaped(p, kind) /\ NamesOf(p) = {n} /\ n \in Names /\ p.by \in Users
  BY <1>1, Active DEF Request, Shaped
<1>3. /\ row \in [Names \X Subjects -> Row \cup {NoRow}] /\ key \in Names \X Subjects
  BY <1>2 DEF IInv, TypeOK, Subjects
<1>4. \A m \in Names, s \in Subjects :
        row'[<<m, s>>] = IF <<m, s>> = key /\ row[key] = NoRow THEN Granted(p.target) ELSE row[<<m, s>>]
  BY <1>1, <1>3
<1>5. Granted(p.target) # NoRow /\ Granted(p.target).perm = "MANAGE" /\ Granted(p.target).of = p.target
  <2>1. Granted(p.target) \in Row
    BY <1>2 DEF Granted, Row, Request, Permissions
  <2> QED
    BY <2>1, ConstantsAssumption DEF Granted
<1> HIDE DEF n
<1>6. ASSUME InOrder(p, kind, live, row, creator, handed)
      PROVE  Right(n, live, row', creator, handed)
  <2>1. /\ live[n] = p.target /\ p.target # 0 /\ FollowsIn(n, live, row)
        /\ \/ KeptIn(n, live, row, creator, handed)
           \/ creator[p.target] = p.by /\ \A s \in Subjects : row[<<n, s>>] # NoRow => row[<<n, s>>].of = 0
    BY <1>1, <1>6 DEF InOrder, n
  <2>2. FollowsIn(n, live, row')
    BY <1>2, <1>4, <1>5, <2>1 DEF FollowsIn
  <2>3. creator[live[n]] \in Users
    <3>1. live[n] \in 1 .. made
      BY <1>2, <2>1, ConstantsAssumption DEF IInv, TypeOK, Ids, Numbered
    <3> QED
      BY <3>1 DEF IInv, Numbered
  <2>4. KeptIn(n, live, row', creator, handed)
    <3>1. CASE KeptIn(n, live, row, creator, handed)
      BY <1>2, <1>4, <1>5, <2>3, <3>1 DEF KeptIn, Fine, Subjects
    <3>2. CASE creator[p.target] = p.by /\ \A s \in Subjects : row[<<n, s>>] # NoRow => row[<<n, s>>].of = 0
      BY <1>2, <1>4, <1>5, <2>1, <2>3, <3>2 DEF KeptIn, Fine, Subjects
    <3> QED
      BY <2>1, <3>1, <3>2
  <2> QED
    BY <2>2, <2>4 DEF Right
<1>7. \A m \in Names \ {n}, s \in Subjects : row'[<<m, s>>] = row[<<m, s>>]
  BY <1>4
<1>8. kind' = kind /\ world' = world /\ handed' = handed /\ excused' = excused
  BY <1>1
<1> HIDE DEF p
<1> QED
  BY <1>1, <1>2, <1>6, <1>7, <1>8, RowsByName DEF p

LEMMA WriteKeepsNames ==
  ASSUME IInv, ~HasOwner, NEW r \in Requests, Write(r)
  PROVE  ByName'
<1> DEFINE p == req[r]
           n == p.name
           key == <<n, p.subject>>
           entry == IF p.op = "revoke" THEN NoRow ELSE [perm |-> p.perm, of |-> p.target]
<1>1. /\ p.pc = "write" /\ UNCHANGED <<kind, world, excused>> /\ req' = [req EXCEPT ![r] = Idle]
      /\ \/ row' = row /\ handed' = handed
         \/ /\ row' = [row EXCEPT ![key] = entry]
            /\ handed' = IF live[n] # 0 /\ (creator[live[n]] = p.subject \/ HasOwner)
                         THEN handed \cup {live[n]} ELSE handed
  BY DEF Write, End
<1>2. /\ p \in Request /\ Shaped(p, kind) /\ NamesOf(p) = {n} /\ n \in Names /\ p.subject \in Subjects
  BY <1>1, Active DEF Request, Shaped
<1>3. row \in [Names \X Subjects -> Row \cup {NoRow}] /\ key \in Names \X Subjects
  BY <1>2 DEF IInv, TypeOK
<1>4. entry # NoRow => entry.of = p.target
  OBVIOUS
<1> HIDE DEF n, entry
<1>5. ASSUME InOrder(p, kind, live, row, creator, handed)
      PROVE  Right(n, live, row', creator, handed')
  <2>1. live[n] = p.target /\ Right(n, live, row, creator, handed)
    BY <1>1, <1>5 DEF InOrder, n
  <2>2. CASE row' = row /\ handed' = handed
    BY <2>1, <2>2
  <2>3. CASE /\ row' = [row EXCEPT ![key] = entry]
             /\ handed' = IF live[n] # 0 /\ (creator[live[n]] = p.subject \/ HasOwner)
                          THEN handed \cup {live[n]} ELSE handed
    <3>1. \A s \in Subjects : row'[<<n, s>>] = IF s = p.subject THEN entry ELSE row[<<n, s>>]
      BY <1>2, <1>3, <2>3
    <3>2. FollowsIn(n, live, row')
      BY <1>4, <2>1, <3>1 DEF Right, FollowsIn
    <3>3. live[n] # 0 => creator[live[n]] \in Subjects
      <4>1. live[n] # 0 => live[n] \in 1 .. made
        BY <1>2, ConstantsAssumption DEF IInv, TypeOK, Ids, Numbered
      <4> QED
        BY <4>1 DEF IInv, Numbered, Subjects
    <3>4. KeptIn(n, live, row', creator, handed')
      BY <2>1, <2>3, <3>1, <3>3 DEF Right, KeptIn
    <3> QED
      BY <3>2, <3>4 DEF Right
  <2> QED
    BY <1>1, <2>2, <2>3
<1>6. \A m \in Names \ {n}, s \in Subjects : row'[<<m, s>>] = row[<<m, s>>]
  BY <1>1, <1>3
<1>7. handed \subseteq handed'
  BY <1>1
<1> QED
  BY <1>1, <1>2, <1>5, <1>6, <1>7, RowsByName

LEMMA HookKeepsNames ==
  ASSUME IInv, ~HasOwner, NEW r \in Requests, HookStep(r)
  PROVE  ByName'
<1> DEFINE p == req[r]
           old == p.name
           new == p.new
           First == FirstPart(kind, p.op)
<1>1. PICK q \in Request \cup {Idle}, part \in SUBSET Subjects :
        /\ p.pc = "hook" /\ req' = [req EXCEPT ![r] = q] /\ UNCHANGED <<kind, world, handed>>
        /\ p.pos = 1 => part = First
        /\ \/ q # Idle /\ q.pc = "hook" /\ q.pos = 2 /\ SameBut(q, p) /\ NamesOf(q) = NamesOf(p) /\ p.pos = 1
           \/ q = Idle
        /\ \/ /\ \/ p.op = "delete" /\ row' = Wiped(old, part)
                 \/ p.op = "rename" /\ row' = Moved(old, new, part)
              /\ q = Idle => Subjects \subseteq part \cup (IF p.pos = 2 THEN First ELSE {})
              /\ excused' = excused
           \/ /\ p.op = "rename" /\ row' = row /\ q = Idle
              /\ excused' = IF Holders(old) = {} THEN excused ELSE excused \cup NamesOf(p)
  BY HookDoes
<1>2. /\ p \in Request /\ Shaped(p, kind) /\ NamesOf(p) = {old, new} /\ old \in Names /\ new \in Names
      /\ p.pos \in 1 .. 2
  BY <1>1, Active DEF Request
<1>3. row \in [Names \X Subjects -> Row \cup {NoRow}]
  BY DEF IInv, TypeOK
<1>4. First \subseteq Subjects /\ (p.op = "rename" => First = Users)
  BY <1>2 DEF FirstPart, Subjects, Shaped
<1>5. \A m \in Names, s \in Subjects :
        /\ Wiped(old, part)[<<m, s>>] = IF m = old /\ s \in part THEN NoRow ELSE row[<<m, s>>]
        /\ Moved(old, new, part)[<<m, s>>] =
             IF s \notin part \/ row[<<old, s>>] = NoRow THEN row[<<m, s>>]
             ELSE IF m = new THEN row[<<old, s>>] ELSE IF m = old THEN NoRow ELSE row[<<m, s>>]
  BY DEF Wiped, Moved, Holders
<1>6. live[new] # 0 => creator[live[new]] \in Users
  <2>1. live[new] # 0 => live[new] \in 1 .. made
    BY <1>2, ConstantsAssumption DEF IInv, TypeOK, Ids, Numbered
  <2> QED
    BY <2>1 DEF IInv, Numbered
<1>7. \A m \in Names \ {old, new}, s \in Subjects : row'[<<m, s>>] = row[<<m, s>>]
  <2>1. row' = row \/ row' = Wiped(old, part) \/ row' = Moved(old, new, part)
    BY <1>1
  <2> HIDE DEF old, new
  <2> QED
    BY <1>5, <2>1
<1>8. excused' \in {excused, excused \cup NamesOf(p)}
  BY <1>1
<1> HIDE DEF old, new, First
<1>9. ASSUME old \notin excused', InOrder(p, kind, live, row, creator, handed)
      PROVE  IF q = Idle THEN \A n \in {old, new} : Right(n, live, row', creator, handed)
             ELSE InOrder(q, kind, live, row', creator, handed)
  <2>1. /\ live[old] = 0
        /\ p.pos = 2 => \A s \in First : row[<<old, s>>] = NoRow
        /\ p.op = "rename" =>
             /\ live[new] # 0 /\ FollowsIn(new, live, row)
             /\ \A s \in Subjects : row[<<old, s>>] # NoRow => row[<<old, s>>].of \in {0, live[new]}
             /\ p.pos = 1 /\ live[new] \notin handed => Fine(row[<<old, creator[live[new]]>>])
             /\ p.pos = 2 => KeptIn(new, live, row, creator, handed)
    BY <1>1, <1>9 DEF InOrder, old, new, First
  <2>2. q # Idle => /\ q.pc = "hook" /\ q.pos = 2 /\ q.name = old /\ q.new = new /\ q.op = p.op /\ p.pos = 1
                    /\ part = First /\ First = FirstPart(kind, q.op)
    BY <1>1 DEF SameBut, old, new, First
  <2>3. CASE p.op = "delete" /\ row' = Wiped(old, part)
             /\ (q = Idle => Subjects \subseteq part \cup (IF p.pos = 2 THEN First ELSE {}))
    <3>1. \A s \in Subjects : row'[<<old, s>>] = IF s \in part THEN NoRow ELSE row[<<old, s>>]
      BY <1>2, <1>5, <2>3
    <3>2. CASE q # Idle
      <4>1. \A s \in First : row'[<<old, s>>] = NoRow
        BY <1>4, <2>2, <3>1, <3>2
      <4> QED
        BY <2>1, <2>2, <2>3, <3>2, <4>1 DEF InOrder
    <3>3. CASE q = Idle
      <4>1. \A s \in Subjects : row'[<<old, s>>] = NoRow
        BY <1>4, <2>1, <2>3, <3>1, <3>3
      <4>2. new = old
        BY <1>2, <2>3 DEF Shaped, old, new
      <4> QED
        BY <2>1, <3>3, <4>1, <4>2 DEF Right, FollowsIn, KeptIn
    <3> QED
      BY <3>2, <3>3
  <2>4. CASE p.op = "rename" /\ row' = Moved(old, new, part)
             /\ (q = Idle => Subjects \subseteq part \cup (IF p.pos = 2 THEN First ELSE {}))
    <3>1. new # old
      BY <1>2, <2>4 DEF Shaped, old, new
    <3>2. \A s \in Subjects :
            /\ row'[<<old, s>>] = IF s \in part THEN NoRow ELSE row[<<old, s>>]
            /\ row'[<<new, s>>] = IF s \in part /\ row[<<old, s>>] # NoRow THEN row[<<old, s>>] ELSE row[<<new, s>>]
      BY <1>2, <1>5, <2>4, <3>1
    <3>3. FollowsIn(new, live, row')
      BY <2>1, <2>4, <3>2 DEF FollowsIn
    <3>4. KeptIn(new, live, row', creator, handed)
      <4>1. creator[live[new]] \in Users /\ creator[live[new]] \in Subjects /\ First = Users
        BY <1>4, <1>6, <2>1, <2>4 DEF Subjects
      <4>2. CASE p.pos = 1
        <5>1. part = Users
          BY <1>1, <4>1, <4>2 DEF First
        <5> QED
          BY <2>1, <2>4, <3>2, <4>1, <4>2, <5>1 DEF KeptIn, Fine
      <4>3. CASE p.pos = 2
        BY <2>1, <2>4, <3>2, <4>1, <4>3 DEF KeptIn
      <4> QED
        BY <1>2, <4>2, <4>3
    <3>5. CASE q # Idle
      <4>1. \A s \in First : row'[<<old, s>>] = NoRow
        BY <1>4, <2>2, <3>2, <3>5
      <4>2. \A s \in Subjects : row'[<<old, s>>] # NoRow => row'[<<old, s>>].of \in {0, live[new]}
        BY <2>1, <2>4, <3>2
      <4> QED
        BY <2>1, <2>2, <2>4, <3>3, <3>4, <3>5, <4>1, <4>2 DEF InOrder
    <3>6. CASE q = Idle
      <4>1. \A s \in Subjects : row'[<<old, s>>] = NoRow
        BY <1>4, <2>1, <2>4, <3>2, <3>6
      <4> QED
        BY <2>1, <3>3, <3>4, <3>6, <4>1 DEF Right, FollowsIn, KeptIn
    <3> QED
      BY <3>5, <3>6
  <2>5. CASE /\ p.op = "rename" /\ row' = row /\ q = Idle
             /\ excused' = IF Holders(old) = {} THEN excused ELSE excused \cup NamesOf(p)
    <3>1. \A s \in Subjects : row[<<old, s>>] = NoRow
      BY <1>2, <1>9, <2>5 DEF Holders
    <3>2. KeptIn(new, live, row, creator, handed)
      BY <1>2, <1>6, <2>1, <2>5, <3>1 DEF KeptIn, Fine, Subjects
    <3> QED
      BY <2>1, <2>5, <3>1, <3>2 DEF Right, FollowsIn, KeptIn
  <2> QED
    BY <1>1, <2>3, <2>4, <2>5
<1>10. q # Idle => NamesOf(q) = NamesOf(p) /\ q.pc # "call"
  BY <1>1
<1>11. kind' = kind /\ world' = world /\ handed' = handed /\ req' = [req EXCEPT ![r] = q] /\ p.pc # "idle"
  BY <1>1
<1> HIDE DEF p
<1> QED
  BY <1>2, <1>7, <1>8, <1>9, <1>10, <1>11, RowsByName DEF p

LEMMA NextByName ==
  ASSUME IInv, ~HasOwner, [Next]_vars
  PROVE  ByName'
<1>1. CASE UNCHANGED vars
  BY <1>1 DEF IInv, ByName, Apart, Meant, NamesRight, RequestsInOrder, ById, Busy, vars, world, history
<1>2. ASSUME NEW r \in Requests, Demote(r) \/ Promote(r) \/ Insert(r)
      PROVE  FALSE
  BY <1>2, Active DEF Demote, Promote, Insert, Shaped, HasOwner
<1>3. ASSUME NEW r \in Requests,
             \/ Asks(r) \/ Create(r) \/ Delete(r) \/ Rename(r) \/ HookStep(r)
             \/ GrantToCreator(r) \/ HookFails(r) \/ Write(r)
      PROVE  ByName'
  BY <1>3, AskKeepsNames, CreateKeepsNames, DeleteKeepsNames, RenameKeepsNames, HookKeepsNames,
     GrantKeepsNames, HookFailsKeepsNames, WriteKeepsNames
<1> QED
  BY <1>1, <1>2, <1>3 DEF Next

-----------------------------------------------------------------------------
(* Experiments and their owners                                            *)

(* A step of one request is about its own experiment.                      *)
LEMMA StepByOwner ==
  ASSUME IInv, HasOwner, NEW r \in Requests, req[r].pc # "idle", NEW n \in Names, n = req[r].name,
         NEW q \in Request \cup {Idle}, req' = [req EXCEPT ![r] = q],
         q # Idle => q.name = n /\ q.target \in {0, live'[n]},
         \A m \in Names \ {n} : live'[m] = live[m] /\ \A s \in Subjects : row'[<<m, s>>] = row[<<m, s>>],
         live'[n] = live[n] \/ live[n] = 0,
         handed \subseteq handed', excused \subseteq excused',
         FollowsIn(n, live', row'), Owned(n)'
  PROVE  ByOwner'
<1>1. \A s \in Requests : req'[s] = IF s = r THEN q ELSE req[s]
  BY DEF IInv, TypeOK
<1>2. \A s \in Requests : req[s] # Idle => req[s] \in Request /\ req[s].name \in Names
  BY DEF IInv, TypeOK, Request
<1>3. /\ \A m \in Names : FollowsIn(m, live, row) /\ Owned(m)
      /\ \A s \in Requests : req[s] # Idle => req[s].target \in {0, live[req[s].name]}
  BY DEF IInv, ByOwner
<1>4. ASSUME NEW m \in Names, m # n
      PROVE  FollowsIn(m, live', row') /\ Owned(m)'
  <2>1. FollowsIn(m, live', row')
    BY <1>3, <1>4 DEF FollowsIn
  <2>2. \A s \in Requests : Promoting(req[s], m, row) => Promoting(req'[s], m, row')
    <3> TAKE s \in Requests
    <3>1. CASE s = r
      BY <1>4, <3>1 DEF Promoting
    <3>2. CASE s # r
      <4> SUFFICES ASSUME Promoting(req[s], m, row) PROVE Promoting(req[s], m, row')
        BY <1>1, <3>2
      <4>1. req[s] \in Request /\ req[s].subject \in Subjects /\ req[s].by \in Subjects
        BY <1>2 DEF Promoting, Request, Subjects
      <4> QED
        BY <1>4, <4>1 DEF Promoting
    <3> QED
      BY <3>1, <3>2
  <2>3. ManagesIn(m, row) => ManagesIn(m, row')
    BY <1>4 DEF ManagesIn, Subjects
  <2>4. Holders(m)' = Holders(m) /\ \A s \in Holders(m) : row'[<<m, s>>] = row[<<m, s>>]
    BY <1>4 DEF Holders
  <2> QED
    BY <1>3, <1>4, <2>1, <2>2, <2>3, <2>4 DEF Owned
<1>5. \A m \in Names : FollowsIn(m, live', row') /\ Owned(m)'
  BY <1>4
<1>6. ASSUME NEW s \in Requests, req'[s] # Idle
      PROVE  req'[s].target \in {0, live'[req'[s].name]}
  <2>1. CASE s = r
    BY <1>1, <1>6, <2>1
  <2>2. CASE s # r
    BY <1>1, <1>2, <1>3, <1>6, <2>2
  <2> QED
    BY <2>1, <2>2
<1> QED
  BY <1>5, <1>6 DEF ByOwner

LEMMA AskKeepsOwner ==
  ASSUME IInv, HasOwner, NEW r \in Requests, Asks(r)
  PROVE  ByOwner'
<1>1. PICK q \in Request :
        /\ q.target = live[q.name] /\ req[r] = Idle /\ req' = [req EXCEPT ![r] = q]
        /\ excused' = excused \cup Excused({q.name, q.new})
        /\ UNCHANGED <<kind, live, versions, row, made, creator, faults, handed>>
  BY Asked
<1>2. excused' = excused
  BY <1>1 DEF Excused
<1>3. \A s \in Requests : req'[s] = IF s = r THEN q ELSE req[s]
  BY <1>1 DEF IInv, TypeOK
<1>4. ASSUME NEW n \in Names
      PROVE  FollowsIn(n, live', row') /\ Owned(n)'
  <2>1. \A s \in Requests : Promoting(req[s], n, row) => Promoting(req'[s], n, row')
    BY <1>1, <1>3 DEF Promoting
  <2>2. FollowsIn(n, live, row) /\ Owned(n)
    BY DEF IInv, ByOwner
  <2>3. Holders(n)' = Holders(n)
    BY <1>1 DEF Holders
  <2> QED
    BY <1>1, <1>2, <2>1, <2>2, <2>3 DEF Owned
<1>5. \A s \in Requests : req'[s] # Idle => req'[s].target \in {0, live'[req'[s].name]}
  BY <1>1, <1>3 DEF IInv, ByOwner
<1> QED
  BY <1>4, <1>5 DEF ByOwner

LEMMA CreateKeepsOwner ==
  ASSUME IInv, HasOwner, NEW r \in Requests, Create(r)
  PROVE  ByOwner'
<1>1. PICK n : n = req[r].name
  OBVIOUS
<1>2. req[r].pc = "call" /\ row' = row /\ handed' = handed /\ excused' = excused
  BY CreateDoes
<1>3. PICK q \in Request \cup {Idle} :
        /\ req' = [req EXCEPT ![r] = q]
        /\ \/ q = Idle /\ live' = live
           \/ /\ q # Idle /\ q.pc = "grant" /\ q.name = n /\ q.by = req[r].by /\ q.target = live'[q.name]
              /\ live[n] = 0 /\ live' = [live EXCEPT ![n] = made + 1]
  BY <1>1, CreateDoes DEF HasOwner
<1>4. req[r] \in Request /\ n \in Names /\ req[r].by \in Users
  BY <1>1, <1>2, Active DEF Request
<1>5. live \in [Names -> Ids] /\ \A s \in Requests : req'[s] = IF s = r THEN q ELSE req[s]
  BY <1>3 DEF IInv, TypeOK
<1>6. FollowsIn(n, live, row) /\ Owned(n)
  BY <1>4 DEF IInv, ByOwner
<1>7. Holders(n)' = Holders(n)
  BY <1>2 DEF Holders
<1>8. CASE q = Idle /\ live' = live
  <2>1. \A s \in Requests : Promoting(req[s], n, row) => Promoting(req'[s], n, row')
    BY <1>2, <1>5, <1>8 DEF Promoting
  <2>2. FollowsIn(n, live', row') /\ Owned(n)'
    BY <1>2, <1>6, <1>7, <1>8, <2>1 DEF Owned
  <2> QED
    BY <1>1, <1>2, <1>3, <1>4, <1>8, <2>2, StepByOwner
<1>9. CASE q # Idle
  <2>1. /\ q.pc = "grant" /\ q.name = n /\ q.by = req[r].by /\ q.target = live'[n] /\ live[n] = 0
        /\ \A m \in Names \ {n} : live'[m] = live[m]
    BY <1>3, <1>4, <1>5, <1>9
  <2>2. \A s \in Subjects : row[<<n, s>>] # NoRow => row[<<n, s>>].of = 0
    BY <1>6, <2>1 DEF FollowsIn
  <2>3. FollowsIn(n, live', row')
    BY <1>2, <2>2 DEF FollowsIn
  <2>4. Owned(n)'
    <3>1. CASE row[<<n, q.by>>] = NoRow
      <4>1. Promoting(q, n, row')
        BY <1>2, <1>9, <2>1, <3>1 DEF Promoting
      <4>2. \E s \in Requests : Promoting(req'[s], n, row')
        BY <1>5, <4>1
      <4> QED
        BY <4>2 DEF Owned
    <3>2. CASE row[<<n, q.by>>] # NoRow
      <4>1. q.by \in Subjects /\ q.by \in Holders(n)'
        BY <1>2, <1>4, <2>1, <3>2 DEF Holders, Subjects
      <4>2. row'[<<n, q.by>>].of = 0
        BY <1>2, <2>2, <3>2, <4>1
      <4> QED
        BY <4>1, <4>2 DEF Owned
    <3> QED
      BY <3>1, <3>2
  <2> QED
    BY <1>1, <1>2, <1>3, <1>4, <2>1, <2>3, <2>4, StepByOwner
<1> QED
  BY <1>3, <1>8, <1>9

(* A row of MANAGE is left, a promise of one, or a reason why not.         *)
LEMMA RowByOwner ==
  ASSUME IInv, HasOwner, NEW r \in Requests, req[r].pc # "idle", NEW n \in Names, n = req[r].name,
         NEW q \in Request \cup {Idle}, req' = [req EXCEPT ![r] = q], q # Idle => SameBut(q, req[r]),
         world' = world, handed \subseteq handed', excused \subseteq excused',
         NEW x \in Subjects, NEW entry \in Row \cup {NoRow},
         entry # NoRow => entry.of \in {0, live[n]},
         row' = row \/ row' = [row EXCEPT ![<<n, x>>] = entry],
         \/ n \in excused' \/ live[n] = 0 \/ live[n] \in handed'
         \/ row' = row /\ ~Promoting(req[r], n, row)
         \/ Promoting(q, n, row')
         \/ x \in Users /\ entry # NoRow /\ entry.perm = "MANAGE" /\ row' = [row EXCEPT ![<<n, x>>] = entry]
  PROVE  ByOwner'
<1>1. live' = live
  BY DEF world
<1>2. row \in [Names \X Subjects -> Row \cup {NoRow}] /\ <<n, x>> \in Names \X Subjects
  BY DEF IInv, TypeOK
<1>3. \A m \in Names, s \in Subjects :
        \/ row'[<<m, s>>] = row[<<m, s>>]
        \/ m = n /\ s = x /\ row'[<<m, s>>] = entry /\ row' = [row EXCEPT ![<<n, x>>] = entry]
  BY <1>2
<1>4. \A s \in Requests : req'[s] = IF s = r THEN q ELSE req[s]
  BY DEF IInv, TypeOK
<1>5. FollowsIn(n, live, row) /\ Owned(n) /\ req[r].target \in {0, live[n]}
  <2>1. req[r] # Idle
    BY Active
  <2> QED
    BY <2>1 DEF IInv, ByOwner
<1>6. FollowsIn(n, live', row')
  BY <1>1, <1>3, <1>5 DEF FollowsIn
<1>7. Owned(n)'
  <2>1. CASE n \in excused' \/ live[n] = 0 \/ live[n] \in handed'
    BY <1>1, <2>1 DEF Owned
  <2>2. CASE row' = row /\ ~Promoting(req[r], n, row)
    <3>1. \A s \in Requests : Promoting(req[s], n, row) => Promoting(req'[s], n, row')
      BY <1>4, <2>2
    <3>2. Holders(n)' = Holders(n)
      BY <2>2 DEF Holders
    <3> QED
      BY <1>1, <1>5, <2>2, <3>1, <3>2 DEF Owned
  <2>3. CASE Promoting(q, n, row')
    <3>1. \E s \in Requests : Promoting(req'[s], n, row')
      BY <1>4, <2>3
    <3> QED
      BY <3>1 DEF Owned
  <2>4. CASE x \in Users /\ entry # NoRow /\ entry.perm = "MANAGE" /\ row' = [row EXCEPT ![<<n, x>>] = entry]
    <3>1. row'[<<n, x>>] = entry
      BY <1>2, <2>4
    <3>2. ManagesIn(n, row')
      BY <2>4, <3>1 DEF ManagesIn
    <3> QED
      BY <3>2 DEF Owned
  <2> QED
    BY <2>1, <2>2, <2>3, <2>4
<1>8. q # Idle => q.name = n /\ q.target \in {0, live'[n]}
  BY <1>1, <1>5 DEF SameBut
<1>9. \A m \in Names \ {n} : live'[m] = live[m] /\ \A s \in Subjects : row'[<<m, s>>] = row[<<m, s>>]
  BY <1>1, <1>3
<1> QED
  BY <1>1, <1>6, <1>7, <1>8, <1>9, StepByOwner

LEMMA NoRowByOwner ==
  ASSUME IInv, HasOwner, NEW r \in Requests, req[r].pc # "idle", NEW n \in Names, n = req[r].name,
         NEW q \in Request \cup {Idle}, req' = [req EXCEPT ![r] = q], q # Idle => SameBut(q, req[r]),
         world' = world, handed \subseteq handed', excused \subseteq excused', row' = row,
         n \in excused' \/ ~Promoting(req[r], n, row) \/ Promoting(q, n, row')
  PROVE  ByOwner'
<1>1. Group \in Subjects /\ NoRow \in Row \cup {NoRow}
  BY DEF Subjects
<1> QED
  BY <1>1, RowByOwner

LEMMA RowsKeepOwner ==
  ASSUME IInv, HasOwner, NEW r \in Requests
  PROVE  /\ HookFails(r) => ByOwner'
         /\ GrantToCreator(r) => ByOwner'
         /\ Write(r) => ByOwner'
         /\ Demote(r) => ByOwner'
         /\ Promote(r) => ByOwner'
         /\ Insert(r) => ByOwner'
<1> DEFINE p == req[r]
           n == p.name
<1>1. p.pc # "idle" =>
        /\ p \in Request /\ p # Idle /\ Shaped(p, kind) /\ NamesOf(p) = {p.name, p.new} /\ n \in Names
        /\ p.by \in Users /\ p.by \in Subjects /\ p.subject \in Subjects /\ p.target \in {0, live[n]}
        /\ p.target \in Ids /\ p.perm \in Permissions
  BY Active DEF Request, Subjects, IInv, ByOwner
<1>2. \A i \in Ids, perm \in Permissions : [perm |-> perm, of |-> i] \in Row
  BY DEF Row
<1>3. {"EDIT", "MANAGE"} = Permissions /\ NoRow \notin Row
  BY ConstantsAssumption DEF Permissions
<1>4. ASSUME p.pc # "idle", NEW s \in Subjects, row[<<n, s>>] # NoRow
      PROVE  row[<<n, s>>].of \in {0, live[n]} /\ row[<<n, s>>].of \in Ids
  <2>1. FollowsIn(n, live, row) /\ row[<<n, s>>] \in Row
    BY <1>1, <1>4 DEF IInv, ByOwner, TypeOK
  <2> QED
    BY <1>4, <2>1 DEF FollowsIn, Row
<1>5. Idle \in Request \cup {Idle} /\ Idle.pc = "idle"
  BY DEF Idle
<1>0. n = req[r].name
  OBVIOUS
<1> HIDE DEF n
<1>6. HookFails(r) => ByOwner'
  <2> SUFFICES ASSUME HookFails(r) PROVE ByOwner'
    OBVIOUS
  <2>1. /\ p.pc # "idle" /\ world' = world /\ row' = row /\ handed' = handed
        /\ req' = [req EXCEPT ![r] = Idle] /\ excused' = excused \cup NamesOf(p)
    BY DEF HookFails, End
  <2>2. n \in excused' /\ excused \subseteq excused'
    BY <1>1, <2>1 DEF n
  <2>3. handed \subseteq handed' /\ row' = row
    BY <2>1
  <2> QED
    BY <1>0, <1>1, <1>5, <2>1, <2>2, <2>3, NoRowByOwner
<1>7. GrantToCreator(r) => ByOwner'
  <2> SUFFICES ASSUME GrantToCreator(r) PROVE ByOwner'
    OBVIOUS
  <2> DEFINE entry == Granted(p.target)
  <2>1. /\ p.pc = "grant" /\ world' = world /\ UNCHANGED <<handed, excused>> /\ req' = [req EXCEPT ![r] = Idle]
        /\ row' = IF row[<<n, p.by>>] # NoRow THEN row ELSE [row EXCEPT ![<<n, p.by>>] = entry]
    BY DEF GrantToCreator, End, history, n
  <2>2. entry \in Row /\ entry.perm = "MANAGE" /\ entry.of = p.target
    BY <1>1, <1>2, <1>3, <2>1 DEF Granted
  <2>3. row[<<n, p.by>>] # NoRow => ~Promoting(p, n, row)
    BY <2>1 DEF Promoting
  <2> HIDE DEF entry
  <2>4. CASE row[<<n, p.by>>] # NoRow
    BY <1>0, <1>1, <1>5, <2>1, <2>3, <2>4, NoRowByOwner
  <2>5. CASE row[<<n, p.by>>] = NoRow
    <3>1. row' = [row EXCEPT ![<<n, p.by>>] = entry] /\ entry # NoRow /\ p.by \in Users /\ p.by \in Subjects
      BY <1>1, <1>3, <2>1, <2>2, <2>5
    <3>2. entry \in Row \cup {NoRow} /\ entry.of \in {0, live[n]} /\ entry.perm = "MANAGE"
      BY <1>1, <2>1, <2>2
    <3>3. /\ p.pc # "idle" /\ world' = world /\ handed \subseteq handed' /\ excused \subseteq excused'
          /\ req' = [req EXCEPT ![r] = Idle] /\ n \in Names
      BY <1>1, <2>1
    <3> QED
      BY <1>0, <1>5, <3>1, <3>2, <3>3, RowByOwner
  <2> QED
    BY <2>4, <2>5
<1>8. Insert(r) => ByOwner'
  <2> SUFFICES ASSUME Insert(r) PROVE ByOwner'
    OBVIOUS
  <2> DEFINE entry == Granted(p.target)
  <2>1. /\ p.pc = "insert" /\ world' = world /\ UNCHANGED <<handed, excused>> /\ req' = [req EXCEPT ![r] = Idle]
        /\ row' = IF row[<<n, p.subject>>] # NoRow THEN row ELSE [row EXCEPT ![<<n, p.subject>>] = entry]
    BY DEF Insert, End, history, n
  <2>2. entry \in Row /\ entry.perm = "MANAGE" /\ entry.of = p.target /\ p.subject \in Users
    BY <1>1, <1>2, <1>3, <2>1 DEF Granted, Shaped
  <2>3. row[<<n, p.subject>>] # NoRow => ~Promoting(p, n, row)
    BY <2>1 DEF Promoting
  <2> HIDE DEF entry
  <2>4. CASE row[<<n, p.subject>>] # NoRow
    BY <1>0, <1>1, <1>5, <2>1, <2>3, <2>4, NoRowByOwner
  <2>5. CASE row[<<n, p.subject>>] = NoRow
    <3>1. row' = [row EXCEPT ![<<n, p.subject>>] = entry] /\ entry # NoRow /\ p.subject \in Users /\ p.subject \in Subjects
      BY <1>1, <1>3, <2>1, <2>2, <2>5
    <3>2. entry \in Row \cup {NoRow} /\ entry.of \in {0, live[n]} /\ entry.perm = "MANAGE"
      BY <1>1, <2>1, <2>2
    <3>3. /\ p.pc # "idle" /\ world' = world /\ handed \subseteq handed' /\ excused \subseteq excused'
          /\ req' = [req EXCEPT ![r] = Idle] /\ n \in Names
      BY <1>1, <2>1
    <3> QED
      BY <1>0, <1>5, <3>1, <3>2, <3>3, RowByOwner
  <2> QED
    BY <2>4, <2>5
<1>9. Write(r) => ByOwner'
  <2> SUFFICES ASSUME Write(r) PROVE ByOwner'
    OBVIOUS
  <2> DEFINE entry == IF p.op = "revoke" THEN NoRow ELSE [perm |-> p.perm, of |-> p.target]
  <2>1. /\ p.pc = "write" /\ world' = world /\ excused' = excused /\ req' = [req EXCEPT ![r] = Idle]
        /\ \/ row' = row /\ handed' = handed
           \/ /\ row' = [row EXCEPT ![<<n, p.subject>>] = entry] /\ handed \subseteq handed'
              /\ live[n] = 0 \/ live[n] \in handed'
    BY DEF Write, End, n
  <2>2. entry \in Row \cup {NoRow} /\ (entry # NoRow => entry.of = p.target)
    BY <1>1, <1>2, <2>1
  <2>3. ~Promoting(p, n, row)
    BY <2>1 DEF Promoting
  <2> HIDE DEF entry
  <2>4. CASE row' = row /\ handed' = handed
    BY <1>0, <1>1, <1>5, <2>1, <2>3, <2>4, NoRowByOwner
  <2>5. CASE /\ row' = [row EXCEPT ![<<n, p.subject>>] = entry] /\ handed \subseteq handed'
             /\ live[n] = 0 \/ live[n] \in handed'
    <3>1. p.subject \in Subjects /\ (entry # NoRow => entry.of \in {0, live[n]})
      BY <1>1, <2>1, <2>2
    <3> QED
      BY <1>0, <1>1, <1>5, <2>1, <2>2, <2>5, <3>1, RowByOwner
  <2> QED
    BY <2>1, <2>4, <2>5
<1>10. Demote(r) => ByOwner'
  <2> SUFFICES ASSUME Demote(r) PROVE ByOwner'
    OBVIOUS
  <2> DEFINE entry == IF row[<<n, p.owner>>] = NoRow THEN NoRow ELSE [perm |-> "EDIT", of |-> row[<<n, p.owner>>].of]
  <2>1. /\ p.pc = "demote" /\ world' = world /\ UNCHANGED <<handed, excused>> /\ Goto(r, "promote")
        /\ row' = row \/ row' = [row EXCEPT ![<<n, p.owner>>] = entry]
    BY DEF Demote, history, n
  <2>2. p.owner \in Users /\ p.owner \in Subjects
    BY <1>1, <2>1 DEF Shaped, Subjects
  <2>3. entry \in Row \cup {NoRow} /\ (entry # NoRow => entry.of \in {0, live[n]})
    BY <1>2, <1>3, <1>4, <2>1, <2>2
  <2>4. PICK q \in Request : q # Idle /\ q.pc = "promote" /\ SameBut(q, p) /\ req' = [req EXCEPT ![r] = q]
    BY <2>1, Went DEF Phases
  <2>5. Promoting(q, n, row')
    BY <2>4 DEF Promoting, SameBut, n
  <2> HIDE DEF entry
  <2> QED
    BY <1>1, <2>1, <2>2, <2>3, <2>4, <2>5, RowByOwner DEF n
<1>11. Promote(r) => ByOwner'
  <2> SUFFICES ASSUME Promote(r) PROVE ByOwner'
    OBVIOUS
  <2>1. /\ p.pc = "promote" /\ world' = world /\ UNCHANGED <<handed, excused>>
        /\ IF row[<<n, p.subject>>] = NoRow THEN Goto(r, "insert") /\ row' = row
           ELSE /\ row' = [row EXCEPT ![<<n, p.subject>>] = [perm |-> "MANAGE", of |-> row[<<n, p.subject>>].of]]
                /\ req' = [req EXCEPT ![r] = Idle]
    BY DEF Promote, End, history, n
  <2>2. p.subject \in Users /\ p.subject \in Subjects
    BY <1>1, <2>1 DEF Shaped
  <2>3. CASE row[<<n, p.subject>>] = NoRow
    <3>1. PICK q \in Request : q # Idle /\ q.pc = "insert" /\ SameBut(q, p) /\ req' = [req EXCEPT ![r] = q]
      BY <2>1, <2>3, Went DEF Phases
    <3>2. Promoting(q, n, row') /\ row' = row
      BY <2>1, <2>3, <3>1 DEF Promoting, SameBut, n
    <3> QED
      BY <1>0, <1>1, <2>1, <3>1, <3>2, NoRowByOwner
  <2>4. CASE row[<<n, p.subject>>] # NoRow
    <3> DEFINE entry == [perm |-> "MANAGE", of |-> row[<<n, p.subject>>].of]
    <3>1. row' = [row EXCEPT ![<<n, p.subject>>] = entry] /\ req' = [req EXCEPT ![r] = Idle]
      BY <2>1, <2>4
    <3>2. entry \in Row /\ entry.of \in {0, live[n]} /\ entry.perm = "MANAGE"
      BY <1>2, <1>3, <1>4, <2>1, <2>2, <2>4
    <3> HIDE DEF entry
    <3> QED
      BY <1>1, <1>3, <1>5, <2>1, <2>2, <3>1, <3>2, RowByOwner DEF n
  <2> QED
    BY <2>3, <2>4
<1> QED
  BY <1>6, <1>7, <1>8, <1>9, <1>10, <1>11

LEMMA NextByOwner ==
  ASSUME IInv, HasOwner, [Next]_vars
  PROVE  ByOwner'
<1>1. CASE UNCHANGED vars
  BY <1>1 DEF IInv, ByOwner, Owned, Holders, vars, world, history
<1>2. ASSUME NEW r \in Requests, Delete(r) \/ Rename(r) \/ HookStep(r)
      PROVE  FALSE
  BY <1>2, Active DEF Delete, Rename, HookStep, Shaped, HasOwner
<1>3. ASSUME NEW r \in Requests,
             \/ Asks(r) \/ Create(r) \/ GrantToCreator(r) \/ HookFails(r) \/ Write(r)
             \/ Demote(r) \/ Promote(r) \/ Insert(r)
      PROVE  ByOwner'
  BY <1>3, AskKeepsOwner, CreateKeepsOwner, RowsKeepOwner
<1> QED
  BY <1>1, <1>2, <1>3 DEF Next

-----------------------------------------------------------------------------
LEMMA NextIInv == IInv /\ [Next]_vars => IInv'
<1> SUFFICES ASSUME IInv, [Next]_vars PROVE IInv'
  OBVIOUS
<1>1. TypeOK' /\ Numbered'
  BY NextTyped
<1>2. kind' = kind
  <2>1. ASSUME NEW r \in Requests, Asks(r) PROVE kind' = kind
    BY <2>1, Asked
  <2>2. ASSUME NEW r \in Requests, Create(r) \/ Delete(r) \/ Rename(r) PROVE kind' = kind
    BY <2>2 DEF Create, Delete, Rename
  <2>3. ASSUME NEW r \in Requests,
               \/ GrantToCreator(r) \/ HookStep(r) \/ HookFails(r) \/ Write(r)
               \/ Demote(r) \/ Promote(r) \/ Insert(r)
        PROVE  kind' = kind
    BY <2>3 DEF GrantToCreator, HookStep, HookFails, Write, Demote, Promote, Insert
  <2> QED
    BY <2>1, <2>2, <2>3 DEF Next, vars
<1>3. HasOwner' = HasOwner
  BY <1>2 DEF HasOwner
<1> QED
  BY <1>1, <1>3, NextByName, NextByOwner DEF IInv

THEOREM Invariance == Spec => []IInv
BY InitIInv, NextIInv, PTL DEF Spec

(* The variables keep their types, for every number of users, resources    *)
(* and requests.                                                           *)
THEOREM TypeCorrect == Spec => []TypeOK
<1>1. IInv => TypeOK
  BY DEF IInv
<1> QED
  BY <1>1, Invariance, PTL

(* No row of a resource that is gone gives a right to one that takes its   *)
(* name, under any default permission and any number of requests, as long  *)
(* as those on one name do not overlap and no hook fails.                  *)
THEOREM RightsFollowResources == Spec => []RightsFollow
<1>1. IInv => RightsFollow
  <2> SUFFICES ASSUME IInv, NEW n \in Names \ (excused \cup Busy), NEW s \in Holders(n)
               PROVE  row[<<n, s>>].of \in {0, live[n]}
    BY DEF RightsFollow, Follows
  <2>1. FollowsIn(n, live, row)
    BY DEF IInv, ByName, NamesRight, Right, ByOwner
  <2> QED
    BY <2>1 DEF FollowsIn, Holders
<1> QED
  BY <1>1, Invariance, PTL

(* The creator's MANAGE follows the resource through creations, deletions  *)
(* and renames, until it is changed by request.                            *)
THEOREM CreatorsKeep == Spec => []CreatorKept
<1>1. IInv => CreatorKept
  BY DEF IInv, ByName, NamesRight, Right, KeptIn, Fine, CreatorKept
<1> QED
  BY <1>1, Invariance, PTL

(* However many transfers of an experiment overlap, somebody manages it    *)
(* once they are over.                                                     *)
THEOREM OwnersRemain == Spec => []OwnerRemains
<1>1. IInv => OwnerRemains
  <2> SUFFICES ASSUME IInv, HasOwner, NEW n \in Names \ excused, live[n] # 0, live[n] \notin handed, Settled(n)
               PROVE  Managers(n) # {}
    BY DEF OwnerRemains
  <2>1. \A r \in Requests : ~Promoting(req[r], n, row)
    BY DEF Settled, Promoting
  <2>2. ManagesIn(n, row)
    BY <2>1 DEF IInv, ByOwner, Owned, Settled
  <2> QED
    BY <2>2 DEF ManagesIn, Managers
<1> QED
  BY <1>1, Invariance, PTL
=============================================================================
