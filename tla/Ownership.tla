------------------------------ MODULE Ownership ------------------------------
(***************************************************************************)
(* Permission rows follow the MLflow resources they are about             *)
(* (hooks/before_request.py, hooks/after_request.py, dependencies.py, the  *)
(* permission routers, repository/_base.py and its subclasses).            *)
(*                                                                         *)
(* Models, gateway endpoints, gateway secrets and scorers are known by     *)
(* name, and a name may be used again; experiments have ids, and owners    *)
(* who pass them on.  A request is authorised first, is then served by     *)
(* MLflow, and its after-request hook brings the rows of users and groups  *)
(* up to date, one transaction at a time.  Every row records, as history,  *)
(* which resource it was granted for.                                      *)
(***************************************************************************)
EXTENDS Naturals, FiniteSets, Sequences

CONSTANTS
  Users,
  Admins,        \* users whose requests are not checked
  Keepers,       \* users with MANAGE on the experiment of the scorers
  Group,         \* one group
  Members,       \* and its users
  Names,         \* names, or the ids of experiments
  Kinds,         \* kinds of resource, one is chosen for each behaviour
  Overlapping,   \* bound: operations that other ones of them may overlap
  Requests,      \* requests that may be under way at a time
  NoRow,
  Default,       \* config.DEFAULT_MLFLOW_PERMISSION, NoRow for NO_PERMISSIONS
  MaxMade,       \* bound: resources created
  MaxVersions,   \* bound: versions of a scorer
  MaxWrites,     \* bound: rows granted, updated or revoked by request
  MaxTransfers,  \* bound: these and transfers of experiments
  MaxFaults      \* bound: hooks that fail

VARIABLES
  kind,      \* the kind of resource, never changes
  live,      \* name -> the resource of that name in MLflow, 0 for none
  versions,  \* name -> its versions, if it is a scorer
  row,       \* <<name, user or group>> -> NoRow or [perm, of]
  req,       \* the requests
  made, writes, faults,
  creator,   \* history: resource -> who created it
  handed,    \* history: resources whose creator's row was changed by request,
             \* experiments of which any row was
  excused    \* history: names whose rows may be wrong, for a known reason

world == <<live, versions, made, creator>>
history == <<handed, excused>>
vars == <<kind, world, row, req, writes, faults, history>>

Subjects == Users \cup {Group}
Permissions == {"EDIT", "MANAGE"}
Ids == 0 .. MaxMade
Row == [perm : Permissions, of : Ids]

ASSUME ConstantsAssumption ==
  /\ Admins \subseteq Users /\ Keepers \subseteq Users /\ Members \subseteq Users /\ Group \notin Users
  /\ Kinds \subseteq {"model", "endpoint", "secret", "scorer", "experiment"}
  /\ Default \in Permissions \cup {NoRow} /\ NoRow \notin Permissions /\ NoRow \notin Row
  /\ {MaxMade, MaxVersions, MaxWrites, MaxTransfers, MaxFaults} \subseteq Nat

Idle == [pc |-> "idle"]
Operations == {"create", "delete", "rename", "grant", "update", "revoke", "transfer"}

Request ==
  [pc : {"call", "grant", "hook", "write", "demote", "promote", "insert"}, op : Operations,
   by : Users, name : Names, new : Names, target : Ids, subject : Subjects, perm : Permissions,
   pos : 1 .. 2, owner : Users \cup {NoRow}]

Init ==
  /\ kind \in Kinds
  /\ live = [n \in Names |-> 0] /\ versions = [n \in Names |-> 0]
  /\ row = [ns \in Names \X Subjects |-> NoRow]
  /\ req = [r \in Requests |-> Idle]
  /\ made = 0 /\ writes = 0 /\ faults = 0
  /\ creator = [i \in 1 .. MaxMade |-> NoRow]
  /\ handed = {} /\ excused = {}

-----------------------------------------------------------------------------
(* How the kinds differ *)

Renamable == kind \in {"model", "endpoint"}
HasVersions == kind = "scorer"

(* Gateway requests name their resource by id; the hooks use the name it   *)
(* had when the request was authorised.                                    *)
ById == kind \in {"endpoint", "secret"}

(* An experiment keeps its id for ever; deleting it changes no row.        *)
HasOwner == kind = "experiment"

(* The registered-model repositories raise when they find no row to rename.*)
RefusesEmptyRename == kind = "model"

(* Mistake: the group's rows are forgotten.                                *)
UserRowsOnly(op) == <<Users>>

(* The transactions of a hook, each with the rows it covers.               *)
HookOrder(op) ==
  CASE kind = "scorer" -> <<Subjects>>
    [] kind = "model" /\ op = "delete" -> <<{Group}, Users>>
    [] OTHER -> <<Users, {Group}>>

-----------------------------------------------------------------------------
(* Authorisation *)

(* The user's own row comes first, then the group's, then the default.     *)
Effective(u, n) ==
  IF row[<<n, u>>] # NoRow THEN row[<<n, u>>].perm
  ELSE IF u \in Members /\ row[<<n, Group>>] # NoRow THEN row[<<n, Group>>].perm
  ELSE Default

CanUpdate(u, n) == u \in Admins \/ Effective(u, n) \in {"EDIT", "MANAGE"}
CanManage(u, n) == u \in Admins \/ Effective(u, n) = "MANAGE"

(* Rows of models and experiments are written by who manages them, of      *)
(* scorers by who manages the experiment, of gateway resources by admins.  *)
CanGrant(u, n) ==
  \/ u \in Admins
  \/ kind \in {"model", "experiment"} /\ CanManage(u, n)
  \/ kind = "scorer" /\ u \in Keepers

-----------------------------------------------------------------------------
(* Requests that overlap on a name may leave its rows wrong; so may one    *)
(* that takes rows from an excused name to another.                        *)

NamesOf(q) == IF q = Idle THEN {} ELSE {q.name, q.new}
Busy == UNION {NamesOf(req[r]) : r \in Requests}

Excused(touched) ==
  LET met == {r \in Requests : NamesOf(req[r]) \cap touched # {}}
  IN  IF HasOwner \/ (met = {} /\ excused \cap touched = {}) THEN {}
      ELSE touched \cup UNION {NamesOf(req[r]) : r \in met}

(* before_request_hook, or the dependency of a router: the request is      *)
(* authorised and, for a gateway resource, its name noted.                 *)
AskFor(r, pc, op, u, n, new, s, p, owner) ==
  /\ \A q \in Requests : req[q] # Idle => {op, req[q].op} \subseteq Overlapping
  /\ excused' = excused \cup Excused({n, new})
  /\ req' = [req EXCEPT ![r] =
       [pc |-> pc, op |-> op, by |-> u, name |-> n, new |-> new, target |-> live[n],
        subject |-> s, perm |-> p, pos |-> 1, owner |-> owner]]
  /\ UNCHANGED <<kind, world, row, faults, handed>>

Ask(r, pc, op, u, n, new, s, p) ==
  AskFor(r, pc, op, u, n, new, s, p, NoRow) /\ UNCHANGED writes

(* The id of an experiment is new.                                         *)
Taken(n) == live[n] # 0 \/ \E r \in Requests : req[r] # Idle /\ req[r].op = "create" /\ req[r].name = n

AskCreate(r, u, n) ==
  /\ made < MaxMade
  /\ HasVersions => u \in Admins \cup Keepers /\ versions[n] < MaxVersions
  /\ HasOwner => ~Taken(n)
  /\ Ask(r, "call", "create", u, n, n, u, "MANAGE")

AskDelete(r, u, n) ==
  /\ live[n] # 0 /\ CanManage(u, n) /\ ~HasOwner
  /\ Ask(r, "call", "delete", u, n, n, u, "MANAGE")

AskRename(r, u, n, new) ==
  /\ Renamable /\ live[n] # 0 /\ new # n /\ CanUpdate(u, n)
  /\ Ask(r, "call", "rename", u, n, new, u, "MANAGE")

AskWrite(r, u, op, n, s, p) ==
  /\ writes < MaxWrites /\ CanGrant(u, n)
  /\ Ask(r, "write", op, u, n, n, s, p)

(* get_experiment_owner: of several managers, whichever the store lists    *)
(* first.                                                                  *)
Managers(n) == {u \in Users : row[<<n, u>>] # NoRow /\ row[<<n, u>>].perm = "MANAGE"}
Owners(n) == IF Managers(n) = {} THEN {NoRow} ELSE Managers(n)

AskTransfer(r, u, n, to) ==
  \E owner \in Owners(n) \ {to} :
    /\ writes < MaxTransfers /\ writes' = writes + 1
    /\ HasOwner /\ (u \in Admins \/ u = owner)
    /\ AskFor(r, IF owner = NoRow THEN "promote" ELSE "demote", "transfer", u, n, n, to, "MANAGE", owner)

-----------------------------------------------------------------------------
(* MLflow serves the request; a refusal ends it, without a hook            *)

Goto(r, pc) == req' = [req EXCEPT ![r].pc = pc]
End(r) == req' = [req EXCEPT ![r] = Idle]

(* The names of the resource the request is about.                         *)
NamesMeant(q) == IF ById THEN {n \in Names : live[n] = q.target} ELSE {q.name}

Create(r) ==
  LET n == req[r].name
  IN  /\ req[r].pc = "call" /\ req[r].op = "create"
      /\ IF live[n] # 0 /\ ~HasVersions
         THEN End(r) /\ UNCHANGED <<live, versions, made, creator>>
         ELSE IF live[n] # 0
         THEN /\ versions' = [versions EXCEPT ![n] = @ + 1]
              /\ req' = [req EXCEPT ![r] = [@ EXCEPT !.pc = "grant", !.target = live[n]]]
              /\ UNCHANGED <<live, made, creator>>
         ELSE /\ made < MaxMade
              /\ made' = made + 1
              /\ live' = [live EXCEPT ![n] = made + 1]
              /\ versions' = [versions EXCEPT ![n] = 1]
              /\ creator' = [creator EXCEPT ![made + 1] = req[r].by]
              /\ req' = [req EXCEPT ![r] = [@ EXCEPT !.pc = "grant", !.target = made + 1]]
      /\ UNCHANGED <<kind, row, writes, faults, history>>

(* One version of a scorer may be deleted, or the whole scorer; the hook is*)
(* the same.                                                               *)
Delete(r) ==
  /\ req[r].pc = "call" /\ req[r].op = "delete"
  /\ \/ \E n \in NamesMeant(req[r]) :
          /\ live[n] # 0
          /\ live' = [live EXCEPT ![n] = 0] /\ versions' = [versions EXCEPT ![n] = 0]
          /\ Goto(r, "hook")
          /\ UNCHANGED excused
     \/ \E n \in NamesMeant(req[r]) :
          /\ HasVersions /\ versions[n] > 1
          /\ versions' = [versions EXCEPT ![n] = @ - 1]
          /\ excused' = excused \cup {n}
          /\ Goto(r, "hook")
          /\ UNCHANGED live
     \/ /\ \A n \in NamesMeant(req[r]) : live[n] = 0
        /\ End(r)
        /\ UNCHANGED <<live, versions, excused>>
  /\ UNCHANGED <<kind, made, creator, row, writes, faults, handed>>

Rename(r) ==
  LET new == req[r].new
  IN  /\ req[r].pc = "call" /\ req[r].op = "rename"
      /\ \/ \E n \in NamesMeant(req[r]) :
              /\ live[n] # 0 /\ live[new] = 0
              /\ live' = [live EXCEPT ![n] = 0, ![new] = live[n]]
              /\ versions' = [versions EXCEPT ![n] = 0, ![new] = versions[n]]
              /\ Goto(r, "hook")
         \/ /\ \A n \in NamesMeant(req[r]) : live[n] = 0 \/ live[new] # 0
            /\ End(r)
            /\ UNCHANGED <<live, versions>>
      /\ UNCHANGED <<kind, made, creator, row, writes, faults, history>>

-----------------------------------------------------------------------------
(* The after-request hooks *)

Granted(i) == [perm |-> "MANAGE", of |-> i]

(* The creator gets MANAGE, unless a row is in the way.                    *)
GrantToCreator(r) ==
  LET key == <<req[r].name, req[r].by>>
  IN  /\ req[r].pc = "grant"
      /\ row' = IF row[key] # NoRow THEN row ELSE [row EXCEPT ![key] = Granted(req[r].target)]
      /\ End(r)
      /\ UNCHANGED <<kind, world, writes, faults, history>>

(* The subjects with a row under this name.                                *)
Holders(n) == {s \in Subjects : row[<<n, s>>] # NoRow}

Wiped(n, part) ==
  [ns \in Names \X Subjects |-> IF ns[1] = n /\ ns[2] \in part THEN NoRow ELSE row[ns]]

(* Mistake: the rows are copied to the new name and not removed.           *)
MovedByCopy(old, new, part) ==
  [ns \in Names \X Subjects |->
     IF ns[1] = new /\ ns[2] \in part \cap Holders(old) THEN row[<<old, ns[2]>>] ELSE row[ns]]

Moved(old, new, part) ==
  [ns \in Names \X Subjects |->
     IF ns[2] \notin part \cap Holders(old) THEN row[ns]
     ELSE IF ns[1] = new THEN row[<<old, ns[2]>>]
     ELSE IF ns[1] = old THEN NoRow ELSE row[ns]]

(* The transaction of a rename raises when rows are in the way, and, for   *)
(* some kinds, when there are none to move.                                *)
RenameRaises(old, new, part) ==
  \/ part \cap Holders(old) \cap Holders(new) # {}
  \/ RefusesEmptyRename /\ part \cap Holders(old) = {}

(* One transaction of a hook.  An exception ends the hook, be it answered  *)
(* with an error or swallowed.                                             *)
HookStep(r) ==
  LET q == req[r]
      order == HookOrder(q.op)
      part == order[q.pos]
      next == IF q.pos = Len(order) THEN Idle ELSE [q EXCEPT !.pos = @ + 1]
  IN  /\ q.pc = "hook"
      /\ \/ /\ q.op = "delete"
            /\ row' = Wiped(q.name, part)
            /\ req' = [req EXCEPT ![r] = next]
            /\ UNCHANGED excused
         \/ /\ q.op = "rename" /\ ~RenameRaises(q.name, q.new, part)
            /\ row' = Moved(q.name, q.new, part)
            /\ req' = [req EXCEPT ![r] = next]
            /\ UNCHANGED excused
         \/ /\ q.op = "rename" /\ RenameRaises(q.name, q.new, part)
            /\ excused' = IF Holders(q.name) = {} THEN excused ELSE excused \cup NamesOf(q)
            /\ End(r)
            /\ UNCHANGED row
      /\ UNCHANGED <<kind, world, writes, faults, handed>>

(* The store fails, or the process dies between MLflow's answer and the    *)
(* end of the hook, or while an experiment has no owner.                   *)
HookFails(r) ==
  /\ req[r].pc \in {"grant", "hook", "promote", "insert"}
  /\ faults < MaxFaults /\ faults' = faults + 1
  /\ excused' = excused \cup NamesOf(req[r])
  /\ End(r)
  /\ UNCHANGED <<kind, world, row, writes, handed>>

-----------------------------------------------------------------------------
(* The permission routers: rows are created, changed and removed by        *)
(* request.  Whether the resource exists is not asked.                     *)

Allowed(op, key) ==
  \/ op = "grant" /\ row[key] = NoRow
  \/ op \in {"update", "revoke"} /\ row[key] # NoRow

Write(r) ==
  LET q == req[r]
      key == <<q.name, q.subject>>
      i == live[q.name]
  IN  /\ q.pc = "write"
      /\ IF ~Allowed(q.op, key) THEN UNCHANGED <<row, writes, handed>>
         ELSE /\ row' = [row EXCEPT ![key] =
                   IF q.op = "revoke" THEN NoRow ELSE [perm |-> q.perm, of |-> q.target]]
              /\ writes' = writes + 1
              /\ handed' = IF i # 0 /\ (creator[i] = q.subject \/ HasOwner)
                           THEN handed \cup {i} ELSE handed
      /\ End(r)
      /\ UNCHANGED <<kind, world, faults, excused>>

-----------------------------------------------------------------------------
(* transfer_experiment_ownership, after it has read the owner.             *)

(* The owner becomes an editor; a failure is ignored.                      *)
Demote(r) ==
  LET q == req[r]
      key == <<q.name, q.owner>>
  IN  /\ q.pc = "demote"
      /\ \/ /\ row' = IF row[key] = NoRow THEN row
                      ELSE [row EXCEPT ![key] = [perm |-> "EDIT", of |-> row[key].of]]
            /\ UNCHANGED faults
         \/ faults < MaxFaults /\ faults' = faults + 1 /\ UNCHANGED row
      /\ Goto(r, "promote")
      /\ UNCHANGED <<kind, world, writes, history>>

(* Mistake: a new owner who has a row already keeps it.                    *)
PromoteNewcomer(r) ==
  LET key == <<req[r].name, req[r].subject>>
  IN  /\ req[r].pc = "promote"
      /\ IF row[key] = NoRow THEN Goto(r, "insert") ELSE End(r)
      /\ UNCHANGED <<kind, world, row, writes, faults, history>>

(* The new owner's row is updated, or made when there is none.             *)
Promote(r) ==
  LET key == <<req[r].name, req[r].subject>>
  IN  /\ req[r].pc = "promote"
      /\ IF row[key] = NoRow THEN Goto(r, "insert") /\ UNCHANGED row
         ELSE /\ row' = [row EXCEPT ![key] = [perm |-> "MANAGE", of |-> row[key].of]]
              /\ End(r)
      /\ UNCHANGED <<kind, world, writes, faults, history>>

Insert(r) ==
  LET key == <<req[r].name, req[r].subject>>
  IN  /\ req[r].pc = "insert"
      /\ row' = IF row[key] # NoRow THEN row ELSE [row EXCEPT ![key] = Granted(req[r].target)]
      /\ End(r)
      /\ UNCHANGED <<kind, world, writes, faults, history>>

-----------------------------------------------------------------------------
Asks(r) ==
  /\ req[r] = Idle
  /\ \E u \in Users, n \in Names :
      \/ AskCreate(r, u, n) \/ AskDelete(r, u, n)
      \/ \E new \in Names : AskRename(r, u, n, new)
      \/ \E to \in Users : AskTransfer(r, u, n, to)
      \/ \E op \in {"grant", "update"}, s \in Subjects, p \in Permissions : AskWrite(r, u, op, n, s, p)
      \/ \E s \in Subjects : AskWrite(r, u, "revoke", n, s, "MANAGE")

Next ==
  \E r \in Requests :
    \/ Asks(r) \/ Create(r) \/ Delete(r) \/ Rename(r)
    \/ GrantToCreator(r) \/ HookStep(r) \/ HookFails(r) \/ Write(r)
    \/ Demote(r) \/ Promote(r) \/ Insert(r)

Spec == Init /\ [][Next]_vars

-----------------------------------------------------------------------------
(* The variables' types; rows and names hold the ids of the resources they  *)
(* were granted for.                                                       *)
TypeOK ==
  /\ kind \in Kinds
  /\ live \in [Names -> Ids] /\ versions \in [Names -> Nat] /\ made \in Ids
  /\ row \in [Names \X Subjects -> Row \cup {NoRow}]
  /\ req \in [Requests -> Request \cup {Idle}]
  /\ {writes, faults} \subseteq Nat
  /\ creator \in [1 .. MaxMade -> Users \cup {NoRow}]
  /\ handed \subseteq Ids /\ excused \subseteq Names

(* Every row of this name was granted for the resource of this name, or    *)
(* ahead of any.                                                           *)
Follows(n) ==
  \A s \in Holders(n) : row[<<n, s>>].of \in {0, live[n]}

(* "When resources are deleted or renamed, associated permissions are      *)
(* automatically updated": no one gets a right to a resource from a row    *)
(* left by another one of its name.  Overlapping requests on one name,     *)
(* failed hooks, and renames that raise before the last row, excuse a name.*)
RightsFollow == \A n \in Names \ (excused \cup Busy) : Follows(n)

(* "Rename registered model: All permission records are updated to the new *)
(* name": the same, without the excuses.                                   *)
RowsRenamed == \A n \in Names \ Busy : Follows(n)

(* The creator of a resource has MANAGE on it, under whatever name it goes *)
(* by, until someone who may changes that by request, unless a row was     *)
(* granted ahead of its creation.                                          *)
CreatorKept ==
  ~HasOwner => \A n \in {m \in Names \ (excused \cup Busy) : live[m] # 0 /\ live[m] \notin handed} :
    LET rights == row[<<n, creator[live[n]]>>]
    IN  rights # NoRow /\ (rights.perm = "MANAGE" \/ rights.of = 0)

(* However transfers overlap, an experiment is not left without an owner:  *)
(* once they are over somebody has MANAGE, unless the store failed between *)
(* the two halves of one, or a row was written through the routers.        *)
Settled(n) ==
  /\ \A r \in Requests : req[r] # Idle /\ req[r].name = n => req[r].pc \notin {"grant", "promote", "insert"}
  /\ \A s \in Holders(n) : row[<<n, s>>].of # 0

OwnerRemains ==
  HasOwner => \A n \in Names \ excused :
    live[n] # 0 /\ live[n] \notin handed /\ Settled(n) => Managers(n) # {}
=============================================================================
