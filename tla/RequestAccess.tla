---------------------------- MODULE RequestAccess ----------------------------
(***************************************************************************)
(* The way of a request through authentication and authorisation, and the  *)
(* accounts it is judged by (middleware/auth_middleware.py,                *)
(* hooks/before_request.py, validators/, graphql/middleware.py,            *)
(* middleware/fastapi_permission_middleware.py, dependencies.py,           *)
(* routers/users.py, repository/user.py).                                  *)
(*                                                                         *)
(* A request reads the store several times, each time in a transaction of  *)
(* its own: credentials, the admin flag, what it names, one permission per *)
(* thing it names.  Other requests, administrators and MLflow change all   *)
(* of these in between.                                                    *)
(***************************************************************************)
EXTENDS Naturals, Sequences, FiniteSets

CONSTANTS
  Users,
  Things,        \* experiments, registered models, scorers, gateways, workspaces
  Names,         \* names of experiments
  Children,      \* runs, traces, logged models, jobs: judged by their experiment
  Requests,
  Operations,    \* what may be asked for
  FirstAdmins,   \* users that are admins in the beginning
  Grants,        \* levels that are granted
  None,
  Default,       \* level of config.DEFAULT_MLFLOW_PERMISSION
  MaxTerm,       \* longest term of a token, 366 days, in ticks of the clock
  MaxTime,       \* bound: ticks of the clock
  MaxTokens,     \* bound: tokens issued
  MaxSends,      \* bound: requests sent
  MaxChanges     \* bound: changes of rights and of what names denote

(* A Permission by what it allows: no=0, read=1, use=2, update=3, all=4    *)
Levels == 0 .. 4
Times == 0 .. (MaxTime + MaxTerm)
Refs == Names \cup Children

(* How an operation is guarded:  things: each of them needs the level;     *)
(* child, name: so does the experiment the reference leads to;  filter:    *)
(* GraphQL searches, narrowed to what is readable;  path: an artifact path *)
(* that names no experiment;  open: any user;  admin: _deny_non_admin;     *)
(* managed, token, create, delete: routers with their own dependencies.    *)
Hooked == {"things", "child", "name", "filter", "path", "open", "admin"}
Routed == {"managed", "token", "create", "delete"}

Asked ==
  [by : Hooked \cup Routed, need : Levels, on : SUBSET Things, ref : Refs \cup {None},
   user : Users \cup {None}, until : Times \cup {None}, flag : BOOLEAN]

(* A user's row; token 0 is the random password nobody was told.           *)
Accounts == [admin : BOOLEAN, token : 0 .. MaxTokens, expires : Times \cup {None}]

VARIABLES
  acct,        \* users
  issued,      \* history: the user each token was made for and the term asked for
  right,       \* effective level of each user for each thing
  place,       \* the experiment a name or a child leads to
  req,
  now, sends, changes

vars == <<acct, issued, right, place, req, now, sends, changes>>
budget == <<sends, changes>>

Phases ==
  {"sent", "flag", "lookup", "check", "act", "depend", "look", "write", "make", "done"}

(* via: 0 for a session or a bearer token, else the token of Basic         *)
(* authentication;  admin: the flag as read;  left, ok: things still to be *)
(* checked, and checked.  History: did, what the request touched, and had, *)
(* what its sender was entitled to at some moment since it was sent.       *)
Administration == "administration"
Self == "self"
Entitlements == Things \cup {Administration, Self}

Active ==
  [pc : Phases, user : Users, via : 0 .. MaxTokens, op : Operations, admin : BOOLEAN,
   left : SUBSET Things, ok : SUBSET Things, did : SUBSET Entitlements, had : SUBSET Entitlements]

Idle == [pc |-> "idle"]

ASSUME ConstantsAssumption ==
  /\ Default \in Levels /\ Grants \subseteq Levels
  /\ MaxTerm \in Nat /\ MaxTime \in Nat /\ MaxTokens \in Nat
  /\ MaxSends \in Nat /\ MaxChanges \in Nat
  /\ None \notin Accounts \cup Things \cup Times
  /\ Administration \notin Things /\ Self \notin Things

(* An operation names what its guard looks at.                             *)
ASSUME OperationsAssumption ==
  /\ Operations \subseteq Asked
  /\ \A op \in Operations :
       /\ op.by \in {"child", "name"} => op.ref \in (IF op.by = "name" THEN Names ELSE Children)
       /\ op.by \in {"token", "create", "delete"} => op.user \in Users
       /\ op.by \in {"path", "open"} => op.on = {}

-----------------------------------------------------------------------------
Current(a, u, k) == a[u] # None /\ a[u].token = k /\ ~(a[u].expires # None /\ a[u].expires < now)

IsAdmin(a, u) == a[u] # None /\ a[u].admin

Entitled(r, a, rt) ==
  {x \in Things : rt[r.user][x] >= r.op.need}
  \cup (IF IsAdmin(a, r.user) THEN Things \cup {Administration} ELSE {})
  \cup (IF r.via = 0 \/ Current(a, r.user, r.via) THEN {Self} ELSE {})

Witnessed(rs, a, rt) ==
  [r \in Requests |-> IF rs[r] = Idle THEN Idle
                      ELSE [rs[r] EXCEPT !.had = @ \cup Entitled(rs[r], a, rt)]]

Init ==
  /\ acct = [u \in Users |-> [admin |-> u \in FirstAdmins, token |-> 0, expires |-> None]]
  /\ issued = <<>>
  /\ right = [u \in Users |-> [x \in Things |-> Default]]
  /\ place \in [Refs -> Things \cup {None}] /\ (\A c \in Children : place[c] # None)
  /\ req = [r \in Requests |-> Idle]
  /\ now = 0 /\ sends = 0 /\ changes = 0

(* A step of request r alone: to phase pc, changing f.                     *)
Step(r, pc, rec) == req' = [req EXCEPT ![r] = [rec EXCEPT !.pc = pc]]
NoOther == UNCHANGED <<acct, issued, right, place, now, budget>>

Send(r, u, via, op) ==
  LET rec == [pc |-> "sent", user |-> u, via |-> via, op |-> op, admin |-> FALSE,
              left |-> {}, ok |-> {}, did |-> {}, had |-> {}]
  IN /\ req[r] = Idle /\ sends < MaxSends /\ sends' = sends + 1
     /\ req' = [req EXCEPT ![r] = [rec EXCEPT !.had = Entitled(rec, acct, right)]]
     /\ UNCHANGED <<acct, issued, right, place, now, changes>>

Refuse(r) == req' = [req EXCEPT ![r] = Idle] /\ NoOther

(* AuthMiddleware._authenticate_user: Basic credentials in one transaction;*)
(* a session or a bearer token has been judged elsewhere.                  *)
Authenticate(r) ==
  /\ req[r].pc = "sent"
  /\ IF req[r].via = 0 \/ Current(acct, req[r].user, req[r].via)
     THEN Step(r, "flag", req[r]) /\ NoOther
     ELSE Refuse(r)

(* _get_user_admin_status, in another one; the hooks keep to this flag.    *)
ReadAdmin(r) ==
  LET admin == IsAdmin(acct, req[r].user)
  IN /\ req[r].pc = "flag"
     /\ Step(r, IF req[r].op.by \in Routed THEN "depend" ELSE IF admin THEN "act" ELSE "lookup",
             [req[r] EXCEPT !.admin = admin])
     /\ NoOther

-----------------------------------------------------------------------------
(* before_request_hook, the FastAPI middleware and the GraphQL middleware  *)
(* for who is no admin: the validator finds out what the request is about. *)

(* Ids and names in the request itself.                                    *)
LookUpThings(r) ==
  /\ req[r].pc = "lookup" /\ req[r].op.by \in {"things", "filter"}
  /\ Step(r, "check", [req[r] EXCEPT !.left = req[r].op.on])
  /\ NoOther

(* A child is looked up in MLflow's store: one that is unknown is an error.*)
LookUpChild(r) ==
  LET x == place[req[r].op.ref]
  IN /\ req[r].pc = "lookup" /\ req[r].op.by = "child"
     /\ IF x = None THEN Refuse(r)
        ELSE Step(r, "check", [req[r] EXCEPT !.left = {x}]) /\ NoOther

(* So is a name, but one that denotes nothing gives all permissions.       *)
LookUpName(r) ==
  LET x == place[req[r].op.ref]
  IN /\ req[r].pc = "lookup" /\ req[r].op.by = "name"
     /\ IF x = None THEN Step(r, "act", req[r])
        ELSE Step(r, "check", [req[r] EXCEPT !.left = {x}])
     /\ NoOther

(* A path of the artifact proxy without an experiment: the default.        *)
LookUpPath(r) ==
  /\ req[r].pc = "lookup" /\ req[r].op.by = "path"
  /\ IF Default >= req[r].op.need THEN Step(r, "act", req[r]) /\ NoOther ELSE Refuse(r)

(* Routes without a validator, and those whose validator says yes or no.   *)
LetPass(r) ==
  /\ req[r].pc = "lookup" /\ req[r].op.by = "open"
  /\ Step(r, "act", req[r]) /\ NoOther

DenyNonAdmin(r) ==
  /\ req[r].pc = "lookup" /\ req[r].op.by = "admin"
  /\ Refuse(r)

(* Mistake: the first thing of a list speaks for the others.               *)
CheckFirst(r, x) ==
  /\ req[r].pc = "check" /\ x \in req[r].left
  /\ IF right[req[r].user][x] >= req[r].op.need
     THEN Step(r, "act", [req[r] EXCEPT !.left = {}, !.ok = req[r].op.on]) /\ NoOther
     ELSE Refuse(r)

(* One effective permission, in transactions of its own: the lists of ids  *)
(* stop at the first refusal, a search goes on without the thing.          *)
Check(r, x) ==
  LET rest == [req[r] EXCEPT !.left = @ \ {x}]
  IN /\ req[r].pc = "check" /\ x \in req[r].left
     /\ IF right[req[r].user][x] >= req[r].op.need
        THEN Step(r, "check", [rest EXCEPT !.ok = @ \cup {x}]) /\ NoOther
        ELSE IF req[r].op.by = "filter" THEN Step(r, "check", rest) /\ NoOther
        ELSE Refuse(r)

Checked(r) ==
  /\ req[r].pc = "check" /\ req[r].left = {}
  /\ IF req[r].op.by = "filter" /\ req[r].ok = {} THEN Refuse(r)
     ELSE Step(r, "act", req[r]) /\ NoOther

(* The handler: MLflow looks a reference up again.                         *)
Denoted(x) == IF x = None THEN {} ELSE {x}

Touched(q) ==
  CASE q.op.by = "filter" -> IF q.admin THEN q.op.on ELSE q.ok
    [] q.op.by \in {"child", "name"} -> Denoted(place[q.op.ref])
    [] q.op.by = "admin" -> {Administration}
    [] OTHER -> q.op.on

Act(r) ==
  /\ req[r].pc = "act"
  /\ Step(r, "done", [req[r] EXCEPT !.did = Touched(req[r]) \cup {Self}])
  /\ NoOther

-----------------------------------------------------------------------------
(* A token's term: not over yet, and MaxTerm at most.                      *)
(* Mistake: any term in the future is fine.                                *)
NotPast(until) == until = None \/ now <= until
InTerm(until) == until = None \/ (now <= until /\ until <= now + MaxTerm)

(* A token is rotated by its user or an admin, and accounts are an admin's.*)
OwnToken(q) == q.op.by = "token" /\ q.op.user = q.user
MayWrite(q, admin) == OwnToken(q) \/ admin

(* The routers read the flag again (get_is_admin): who is no user is       *)
(* refused.  The routes below a resource are for who manages it.           *)
DependOnManaged(r) ==
  LET admin == IsAdmin(acct, req[r].user)
  IN /\ req[r].pc = "depend" /\ req[r].op.by = "managed"
     /\ IF acct[req[r].user] = None THEN Refuse(r)
        ELSE /\ Step(r, IF admin THEN "act" ELSE "check",
                     [req[r] EXCEPT !.admin = admin, !.left = IF admin THEN {} ELSE req[r].op.on])
             /\ NoOther

DependOnAdmin(r) ==
  LET q == req[r]
      admin == IsAdmin(acct, q.user)
  IN /\ q.pc = "depend" /\ q.op.by \in {"token", "create", "delete"}
     /\ IF acct[q.user] # None /\ MayWrite(q, admin) /\ (q.op.by = "token" => InTerm(q.op.until))
        THEN Step(r, "look", [q EXCEPT !.admin = admin]) /\ NoOther
        ELSE Refuse(r)

(* get_user_profile of the account the request is about                    *)
Look(r) ==
  /\ req[r].pc = "look"
  /\ IF acct[req[r].op.user] # None THEN Step(r, "write", req[r]) /\ NoOther
     ELSE IF req[r].op.by = "create" THEN Step(r, "make", req[r]) /\ NoOther
     ELSE Refuse(r)

(* A request that writes ends; what everybody is entitled to has changed.  *)
Power(q) == IF OwnToken(q) THEN {} ELSE {Administration}

WroteAs(r, a, rt) ==
  req' = [Witnessed(req, a, rt) EXCEPT
            ![r] = [req[r] EXCEPT !.pc = "done", !.did = Power(req[r]) \cup {Self}]]

Issue(u, until) ==
  /\ Len(issued) < MaxTokens
  /\ issued' = Append(issued, [user |-> u, until |-> until])

(* Mistake: the term of the new token is not written.                      *)
RotateOnly(r) ==
  LET u == req[r].op.user
      a == [acct EXCEPT ![u] = [acct[u] EXCEPT !.token = Len(issued) + 1]]
  IN /\ req[r].pc = "write" /\ req[r].op.by = "token" /\ acct[u] # None
     /\ Issue(u, req[r].op.until)
     /\ acct' = a /\ WroteAs(r, a, right)
     /\ UNCHANGED <<right, place, now, budget>>

(* Token and term are one transaction; no term keeps the one of the token  *)
(* before.                                                                 *)
Rotate(r) ==
  LET u == req[r].op.user
      until == req[r].op.until
      term == IF until = None THEN acct[u].expires ELSE until
      a == [acct EXCEPT ![u] = [acct[u] EXCEPT !.token = Len(issued) + 1, !.expires = term]]
  IN /\ req[r].pc = "write" /\ req[r].op.by = "token" /\ acct[u] # None
     /\ Issue(u, until)
     /\ acct' = a /\ WroteAs(r, a, right)
     /\ UNCHANGED <<right, place, now, budget>>

(* create_user for an account that exists: its flags are set.              *)
SetFlags(r) ==
  LET u == req[r].op.user
      a == [acct EXCEPT ![u] = [acct[u] EXCEPT !.admin = req[r].op.flag]]
  IN /\ req[r].pc = "write" /\ req[r].op.by = "create" /\ acct[u] # None
     /\ acct' = a /\ WroteAs(r, a, right)
     /\ UNCHANGED <<issued, right, place, now, budget>>

(* The account goes with all that was granted to it.                       *)
DeleteAccount(r) ==
  LET u == req[r].op.user
      a == [acct EXCEPT ![u] = None]
      rt == [right EXCEPT ![u] = [x \in Things |-> Default]]
  IN /\ req[r].pc = "write" /\ req[r].op.by = "delete" /\ acct[u] # None
     /\ acct' = a /\ right' = rt /\ WroteAs(r, a, rt)
     /\ UNCHANGED <<issued, place, now, budget>>

(* The account has gone since Look: an error, but create_user goes on to   *)
(* make it.                                                                *)
WriteNoAccount(r) ==
  /\ req[r].pc = "write" /\ acct[req[r].op.user] = None
  /\ IF req[r].op.by = "create" THEN Step(r, "make", req[r]) /\ NoOther ELSE Refuse(r)

(* create_user: an account under a random password, unless there is one.   *)
Make(r) ==
  LET u == req[r].op.user
      a == [acct EXCEPT ![u] = [admin |-> req[r].op.flag, token |-> 0, expires |-> None]]
  IN /\ req[r].pc = "make"
     /\ IF acct[u] # None THEN Refuse(r)
        ELSE /\ acct' = a /\ WroteAs(r, a, right)
             /\ UNCHANGED <<issued, right, place, now, budget>>

Finish(r) == req[r].pc = "done" /\ Refuse(r)

-----------------------------------------------------------------------------
(* Meanwhile: permissions are granted and revoked, experiments are renamed,*)
(* made and deleted, and time passes.                                      *)

ChangeRight(u, x, level) ==
  LET rt == [right EXCEPT ![u][x] = level]
  IN /\ changes < MaxChanges /\ changes' = changes + 1
     /\ acct[u] # None /\ right[u][x] # level
     /\ right' = rt /\ req' = Witnessed(req, acct, rt)
     /\ UNCHANGED <<acct, issued, place, now, sends>>

(* A run or a trace stays with its experiment, until it is deleted.        *)
Move(ref, x) ==
  /\ changes < MaxChanges /\ changes' = changes + 1
  /\ place[ref] # x /\ (ref \in Children => x = None)
  /\ place' = [place EXCEPT ![ref] = x]
  /\ UNCHANGED <<acct, issued, right, req, now, sends>>

Tick ==
  /\ now < MaxTime /\ now' = now + 1
  /\ UNCHANGED <<acct, issued, right, place, req, budget>>

Answer(r) ==
  \/ Authenticate(r) \/ ReadAdmin(r)
  \/ LookUpThings(r) \/ LookUpChild(r) \/ LookUpName(r) \/ LookUpPath(r)
  \/ LetPass(r) \/ DenyNonAdmin(r)
  \/ (\E x \in Things : Check(r, x)) \/ Checked(r) \/ Act(r)
  \/ DependOnManaged(r) \/ DependOnAdmin(r) \/ Look(r)
  \/ Rotate(r) \/ SetFlags(r) \/ DeleteAccount(r) \/ WriteNoAccount(r) \/ Make(r)
  \/ Finish(r)

Next ==
  \/ \E r \in Requests : Answer(r)
  \/ \E r \in Requests, u \in Users, via \in 0 .. Len(issued), op \in Operations : Send(r, u, via, op)
  \/ \E u \in Users, x \in Things, level \in Grants : ChangeRight(u, x, level)
  \/ \E ref \in Refs, x \in Things \cup {None} : Move(ref, x)
  \/ Tick

Spec == Init /\ [][Next]_vars

-----------------------------------------------------------------------------
(* The variables' types: no account's term is longer than allowed.         *)
TypeOK ==
  /\ acct \in [Users -> Accounts \cup {None}]
  /\ issued \in Seq([user : Users, until : Times \cup {None}]) /\ Len(issued) <= MaxTokens
  /\ \A u \in Users : acct[u] # None => acct[u].token <= Len(issued)
  /\ \A u \in Users : acct[u] # None /\ acct[u].expires # None => acct[u].expires <= now + MaxTerm
  /\ right \in [Users -> [Things -> Levels]]
  /\ place \in [Refs -> Things \cup {None}]
  /\ req \in [Requests -> {Idle} \cup Active]
  /\ now \in 0 .. MaxTime /\ sends \in 0 .. MaxSends /\ changes \in 0 .. MaxChanges

(* Nobody gets at anything without having been entitled to it: whatever a  *)
(* request touched in the end, experiments, accounts or the deployment's   *)
(* configuration, its sender had the level for it, or was an admin, or was *)
(* known by a token in force, at some moment since the request was sent,   *)
(* although every one of these is read in another transaction.  The one    *)
(* exception is an experiment asked for by a name that denoted nothing, or *)
(* another experiment, when it was checked.                                *)
ActsWithinRights ==
  \A r \in Requests : req[r].pc = "done" =>
    \/ req[r].did \subseteq req[r].had
    \/ req[r].op.by = "name" /\ req[r].did \ {Self} # req[r].ok

(* A token is in force for the term it was asked for: the row's expiry is  *)
(* that of its token, or, for a token without a term, one that was asked   *)
(* for with an earlier token of the same user.  Overlapping rotations never*)
(* give one request's token the term of another.                           *)
TokensKeepTheirTerm ==
  \A u \in Users : acct[u] # None /\ acct[u].token # 0 =>
    LET t == issued[acct[u].token]
    IN /\ t.user = u
       /\ t.until # None => acct[u].expires = t.until
       /\ t.until = None =>
            \/ acct[u].expires = None
            \/ \E i \in 1 .. acct[u].token : issued[i].user = u /\ issued[i].until = acct[u].expires
=============================================================================
