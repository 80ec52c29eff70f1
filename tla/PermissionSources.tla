-------------------------- MODULE PermissionSources --------------------------
(***************************************************************************)
(* The permission tables, the routes that manage them and what they say.   *)
(*                                                                         *)
(* A kind of resource has four sources of permissions: rows of users, rows *)
(* of groups, patterns of users and patterns of groups.  Administrators    *)
(* and managers write them through routers/user_permissions.py and         *)
(* routers/group_permissions.py; a login sets the groups of a user.        *)
(* A request is decided from them one resource at a time                   *)
(* (utils/permissions.py), a management page in bulk                       *)
(* (utils/batch_permissions.py).                                           *)
(*                                                                         *)
(* Kinds that share no table do not affect each other, so a behaviour is   *)
(* about one family of kinds.  A regular expression is an element of       *)
(* Patterns; Matches says which names it matches, Broken ones do not       *)
(* compile.  The cache in front of the resolution is PermissionCache.      *)
(***************************************************************************)
EXTENDS Naturals, Sequences, FiniteSets

CONSTANTS
  Users,          \* users that are not administrators
  Groups,         \* names of groups
  Names,          \* names of resources
  ExperimentOf,   \* the experiment that holds a scorer
  Patterns,       \* regular expressions
  Matches,        \* the names a pattern matches
  Broken,         \* the patterns that re.compile refuses
  Priorities,
  Permissions,    \* the permissions that are granted
  Fallback,       \* the answer when no source has one: default or workspace
  SourceOrder,    \* PERMISSION_SOURCE_ORDER
  Admin,          \* an administrator, or any
  NoRow, Raised,
  MaxWrites       \* bound on the writes of a behaviour

Gateways == {"gateway_endpoint", "gateway_secret", "gateway_model_definition"}
Families == {{"experiment", "scorer"}, {"registered_model", "prompt"}}
              \cup {{k} : k \in Gateways}
Sources == {"user", "group", "regex", "group-regex"}

\* permissions.py: the number a permission is compared by.
Priority == [p \in {"READ", "USE", "EDIT", "MANAGE", "NO_PERMISSIONS"} |->
               CASE p = "READ" -> 1 [] p = "USE" -> 2 [] p = "EDIT" -> 3
                 [] p = "MANAGE" -> 4 [] OTHER -> 100]
\* What a permission allows, as a number: can_read, can_use, can_update, can_manage.
\* A request whose resolution raises is refused.
Rights(p) == IF p \in {"NO_PERMISSIONS", Raised} THEN 0 ELSE Priority[p]

Subjects == ({"user"} \X Users) \cup ({"group"} \X Groups)

ASSUME SourcesAssumption ==
  /\ ExperimentOf \in [Names -> Names]
  /\ Matches \in [Patterns -> SUBSET Names]
  /\ Broken \subseteq Patterns
  /\ Priorities \subseteq Nat
  /\ Permissions \cup {Fallback} \subseteq DOMAIN Priority
  /\ "MANAGE" \in Permissions
  /\ SourceOrder \in Seq(Sources)
  /\ Admin \notin Users
  /\ {NoRow, Raised} \cap DOMAIN Priority = {}
  /\ NoRow # Raised
  /\ MaxWrites \in Nat

VARIABLES
  family,    \* the kinds this behaviour is about
  staffed,   \* whether an administrator is at work
  members,   \* the groups of each user
  rows,      \* the permission of each table, name and subject
  prompts,   \* the group rows of models that carry the prompt flag
  patterns,  \* the priority and permission of each kind, subject and pattern
  writes     \* writes so far

vars == <<family, staffed, members, rows, prompts, patterns, writes>>

\* Prompts are registered models: they have patterns of their own, not rows.
Table(k) == IF k = "prompt" THEN "registered_model" ELSE k
Entries == [priority : Priorities, permission : Permissions]

\* The tables of one family; a prompt flag marks a group's row of a model.
TypeOK ==
  /\ family \in Families
  /\ staffed \in BOOLEAN
  /\ members \in [Users -> SUBSET Groups]
  /\ rows \in [{Table(k) : k \in family} \X Names \X Subjects -> Permissions \cup {NoRow}]
  /\ prompts \subseteq Names \X Groups
  /\ patterns \in [family \X Subjects \X Patterns -> Entries \cup {NoRow}]
  /\ writes \in 0..MaxWrites

\* A behaviour starts with empty tables, or with the row of a creator, and with
\* users in every group.
Init ==
  /\ family \in Families
  /\ staffed \in BOOLEAN
  /\ members = [u \in Users |-> Groups]
  /\ \E n \in Names, u \in Users, p \in {"MANAGE", NoRow} :
       rows = [r \in {Table(k) : k \in family} \X Names \X Subjects |->
                 IF \E k \in family : r = <<Table(k), n, <<"user", u>>>> THEN p ELSE NoRow]
  /\ prompts = {}
  /\ patterns = [e \in family \X Subjects \X Patterns |-> NoRow]
  /\ writes = 0

-----------------------------------------------------------------------------
(* What the sources answer.  An answer is a set: entries of one priority    *)
(* come from the database in no particular order.                           *)

UserRow(k, n, u) == rows[<<Table(k), n, <<"user", u>>>>]

\* The rows a user's groups have for a name.
RowsOfGroups(k, n, u) ==
  {rows[<<Table(k), n, <<"group", g>>>>] : g \in members[u]} \ {NoRow}

\* get_group_permission_for_user_resource keeps the row of the highest priority.
WeakestRow(k, n, u) ==
  LET found == RowsOfGroups(k, n, u) IN
    IF found = {} THEN NoRow
    ELSE CHOOSE p \in found : \A q \in found : Priority[p] <= Priority[q]

StrongestRow(k, n, u) ==
  LET found == RowsOfGroups(k, n, u) IN
    IF found = {} THEN NoRow
    ELSE CHOOSE p \in found : \A q \in found : Priority[p] >= Priority[q]

\* The gateways' source looks for a group that is named like the user.
RowOfNamesake(k, n, u) == IF u \in Groups THEN rows[<<k, n, <<"group", u>>>>] ELSE NoRow

GroupRow(k, n, u) ==
  IF k \in Gateways THEN RowOfNamesake(k, n, u) ELSE StrongestRow(k, n, u)

\* The entries of some subjects that the walk over patterns stops at.
Stops(k, n, subjects) ==
  {e \in {k} \X subjects \X Patterns :
     patterns[e] # NoRow /\ (e[3] \in Broken \/ n \in Matches[e[3]])}
Said(stops) == {IF e[3] \in Broken THEN Raised ELSE patterns[e].permission : e \in stops}

LastMatch(k, n, subjects) ==
  LET stops == Stops(k, n, subjects) IN
    IF stops = {} THEN {NoRow}
    ELSE Said({e \in stops : \A d \in stops : patterns[e].priority >= patterns[d].priority})

\* The first entry by priority that matches; one that does not compile raises.
FirstMatch(k, n, subjects) ==
  LET stops == Stops(k, n, subjects) IN
    IF stops = {} THEN {NoRow}
    ELSE Said({e \in stops : \A d \in stops : patterns[e].priority <= patterns[d].priority})

UserMatch(k, n, u) == FirstMatch(k, n, {<<"user", u>>})
GroupMatch(k, n, u) == FirstMatch(k, n, {"group"} \X members[u])

WalkPastDenials(answers) ==
  LET found == {i \in DOMAIN SourceOrder :
                  answers[SourceOrder[i]] \notin {{NoRow}, {"NO_PERMISSIONS"}}} IN
    IF found = {} THEN {Fallback}
    ELSE answers[SourceOrder[CHOOSE i \in found : \A j \in found : i <= j]]

\* The first source in the configured order that has an answer.
Walk(answers) ==
  LET found == {i \in DOMAIN SourceOrder : answers[SourceOrder[i]] # {NoRow}} IN
    IF found = {} THEN {Fallback}
    ELSE answers[SourceOrder[CHOOSE i \in found : \A j \in found : i <= j]]

\* resolve_permission: what a request is decided by.
Resolve(k, n, u) ==
  Walk([s \in Sources |-> CASE s = "user"  -> {UserRow(k, n, u)}
                            [] s = "group" -> {GroupRow(k, n, u)}
                            [] s = "regex" -> UserMatch(k, n, u)
                            [] s = "group-regex" -> GroupMatch(k, n, u)])

BatchKinds == {"experiment", "registered_model", "prompt"}

RowOfAnyGroup(k, n, u) ==
  LET found == {rows[<<Table(k), n, <<"group", g>>>>] : g \in Groups} \ {NoRow} IN
    IF found = {} THEN {NoRow} ELSE found

\* A dictionary by name keeps the row of any one of the user's groups.
AnyRowOfGroups(k, n, u) ==
  IF RowsOfGroups(k, n, u) = {} THEN {NoRow} ELSE RowsOfGroups(k, n, u)

\* resolve_*_permission_from_context: all sources are read before the walk, so
\* a pattern that does not compile raises also when another source decides.
BatchResolve(k, n, u) ==
  LET matched == UserMatch(k, n, u) \cup GroupMatch(k, n, u)
      answers == [s \in Sources |-> CASE s = "user"  -> {UserRow(k, n, u)}
                                      [] s = "group" -> AnyRowOfGroups(k, n, u)
                                      [] s = "regex" -> UserMatch(k, n, u) \ {Raised}
                                      [] s = "group-regex" -> GroupMatch(k, n, u) \ {Raised}]
  IN (matched \cap {Raised}) \cup (IF {} \in {answers[s] : s \in Sources} THEN {} ELSE Walk(answers))

\* What the page of user u shows viewer a about a name: nothing, or a permission.
Shown(a, k, n, u) ==
  LET held == BatchResolve(k, n, u) \ {Raised} IN
    IF a = Admin THEN held
    ELSE IF a = u THEN held \ {"NO_PERMISSIONS"}
    ELSE {p \in held : "MANAGE" \in BatchResolve(k, n, a)}

-----------------------------------------------------------------------------
(* The routes.  Each kind has its own, for rows and patterns of users and   *)
(* of groups.  A route that raises changes nothing.                         *)

Actors == Users \cup (IF staffed THEN {Admin} ELSE {})
Updates(a, k, n) ==
  IF a = Admin THEN TRUE ELSE \E p \in Resolve(k, n, a) : Rights(p) > 0
Manages(a, k, n) == IF a = Admin THEN TRUE ELSE "MANAGE" \in Resolve(k, n, a)

\* POST: the tables allow one row per name and subject.
CreateRow(t, n, s) ==
  /\ rows[<<t, n, s>>] = NoRow
  /\ \E p \in Permissions : rows' = [rows EXCEPT ![<<t, n, s>>] = p]

\* PATCH and DELETE need a row.
ChangeRow(t, n, s) ==
  /\ rows[<<t, n, s>>] # NoRow
  /\ \E p \in Permissions \cup {NoRow} : rows' = [rows EXCEPT ![<<t, n, s>>] = p]

WriteUserRow(t, n, u) ==
  /\ CreateRow(t, n, <<"user", u>>) \/ ChangeRow(t, n, <<"user", u>>)
  /\ UNCHANGED <<members, prompts, patterns>>

\* Rows of groups on models: only those made by the prompt routes carry the
\* flag, and the prompt routes find only those.
CreateGroupRow(t, n, g, flag) ==
  /\ CreateRow(t, n, <<"group", g>>)
  /\ prompts' = prompts \cup (IF flag THEN {<<n, g>>} ELSE {})
ChangeGroupRow(t, n, g, flag) ==
  /\ flag => <<n, g>> \in prompts
  /\ ChangeRow(t, n, <<"group", g>>)
  /\ prompts' = IF rows'[<<t, n, <<"group", g>>>>] = NoRow THEN prompts \ {<<n, g>>} ELSE prompts
WriteGroupRow(t, n, g, flag) ==
  /\ CreateGroupRow(t, n, g, flag) \/ ChangeGroupRow(t, n, g, flag)
  /\ UNCHANGED <<members, patterns>>

ExperimentUserRow(a, n, u) ==
  "experiment" \in family /\ Manages(a, "experiment", n) /\ WriteUserRow("experiment", n, u)
PromptUserRow(a, n, u) ==
  "prompt" \in family /\ Manages(a, "registered_model", n) /\ WriteUserRow("registered_model", n, u)
ModelUserRow(a, n, u) ==
  "registered_model" \in family /\ Manages(a, "registered_model", n) /\ WriteUserRow("registered_model", n, u)
\* Whoever manages the experiment manages the rows of its scorers.
ScorerUserRow(a, n, u) ==
  "scorer" \in family /\ Manages(a, "experiment", ExperimentOf[n]) /\ WriteUserRow("scorer", n, u)
EndpointUserRow(a, n, u) ==
  "gateway_endpoint" \in family /\ a = Admin /\ WriteUserRow("gateway_endpoint", n, u)
SecretUserRow(a, n, u) ==
  "gateway_secret" \in family /\ a = Admin /\ WriteUserRow("gateway_secret", n, u)
ModelDefinitionUserRow(a, n, u) ==
  "gateway_model_definition" \in family /\ a = Admin /\ WriteUserRow("gateway_model_definition", n, u)

ExperimentGroupRow(a, n, g) ==
  "experiment" \in family /\ Manages(a, "experiment", n) /\ WriteGroupRow("experiment", n, g, FALSE)
ModelGroupRow(a, n, g) ==
  /\ "registered_model" \in family /\ Manages(a, "registered_model", n)
  /\ WriteGroupRow("registered_model", n, g, FALSE)
PromptGroupRow(a, n, g) ==
  "prompt" \in family /\ Manages(a, "prompt", n) /\ WriteGroupRow("registered_model", n, g, TRUE)
ScorerGroupRow(a, n, g) ==
  /\ "scorer" \in family /\ Manages(a, "experiment", ExperimentOf[n])
  /\ WriteGroupRow("scorer", n, g, FALSE)
EndpointGroupRow(a, n, g) ==
  "gateway_endpoint" \in family /\ a = Admin /\ WriteGroupRow("gateway_endpoint", n, g, FALSE)
SecretGroupRow(a, n, g) ==
  "gateway_secret" \in family /\ a = Admin /\ WriteGroupRow("gateway_secret", n, g, FALSE)
ModelDefinitionGroupRow(a, n, g) ==
  /\ "gateway_model_definition" \in family /\ a = Admin
  /\ WriteGroupRow("gateway_model_definition", n, g, FALSE)

\* An update finds an entry by its id; one that keeps the regular expression
\* checks the new one and does not store it.
UpdatePattern(k, s, p, q, e, keeps) ==
  /\ patterns[<<k, s, p>>] # NoRow
  /\ IF keeps THEN patterns' = [patterns EXCEPT ![<<k, s, p>>] = e]
     ELSE /\ q \in {p} \cup {x \in Patterns : patterns[<<k, s, x>>] = NoRow}
          /\ patterns' = [patterns EXCEPT ![<<k, s, p>>] = NoRow, ![<<k, s, q>>] = e]

\* Patterns are the administrators' alone.  admitted: those the repository accepts.
WritePatterns(a, k, s, admitted, keeps) ==
  /\ k \in family /\ a = Admin
  /\ \/ \E p \in admitted, e \in Entries :
          patterns[<<k, s, p>>] = NoRow /\ patterns' = [patterns EXCEPT ![<<k, s, p>>] = e]
     \/ \E p \in Patterns, q \in admitted, e \in Entries : UpdatePattern(k, s, p, q, e, keeps)
     \/ \E p \in Patterns :
          patterns[<<k, s, p>>] # NoRow /\ patterns' = [patterns EXCEPT ![<<k, s, p>>] = NoRow]
  /\ UNCHANGED <<members, rows, prompts>>

Compiling == Patterns \ Broken
UserPattern(a, k, u, keeps) == WritePatterns(a, k, <<"user", u>>, Compiling, keeps)
GroupPattern(a, k, g, admitted) == WritePatterns(a, k, <<"group", g>>, admitted, FALSE)

ExperimentUserPattern(a, u) == UserPattern(a, "experiment", u, FALSE)
ScorerUserPattern(a, u) == UserPattern(a, "scorer", u, FALSE)
UncheckedModelUserPattern(a, u) ==
  WritePatterns(a, "registered_model", <<"user", u>>, Patterns, TRUE)
ModelUserPattern(a, u) == UserPattern(a, "registered_model", u, TRUE)
PromptUserPattern(a, u) == UserPattern(a, "prompt", u, TRUE)
EndpointUserPattern(a, u) == UserPattern(a, "gateway_endpoint", u, TRUE)
SecretUserPattern(a, u) == UserPattern(a, "gateway_secret", u, TRUE)
ModelDefinitionUserPattern(a, u) == UserPattern(a, "gateway_model_definition", u, TRUE)

ExperimentGroupPattern(a, g) == GroupPattern(a, "experiment", g, Compiling)
ScorerGroupPattern(a, g) == GroupPattern(a, "scorer", g, Compiling)
\* The repository of the models' group patterns does not call validate_regex.
ModelGroupPattern(a, g) == GroupPattern(a, "registered_model", g, Patterns)
PromptGroupPattern(a, g) == GroupPattern(a, "prompt", g, Patterns)
EndpointGroupPattern(a, g) == GroupPattern(a, "gateway_endpoint", g, Compiling)
SecretGroupPattern(a, g) == GroupPattern(a, "gateway_secret", g, Compiling)
ModelDefinitionGroupPattern(a, g) == GroupPattern(a, "gateway_model_definition", g, Compiling)

\* A login replaces the groups of a user.
SetGroups(u) ==
  /\ \E gs \in SUBSET Groups : members' = [members EXCEPT ![u] = gs]
  /\ UNCHANGED <<rows, prompts, patterns>>

UserRoutes(a, u) ==
  \/ \E n \in Names : \/ ExperimentUserRow(a, n, u) \/ ScorerUserRow(a, n, u)
                      \/ ModelUserRow(a, n, u) \/ PromptUserRow(a, n, u)
                      \/ EndpointUserRow(a, n, u) \/ SecretUserRow(a, n, u)
                      \/ ModelDefinitionUserRow(a, n, u)
  \/ ExperimentUserPattern(a, u) \/ ScorerUserPattern(a, u)
  \/ ModelUserPattern(a, u) \/ PromptUserPattern(a, u)
  \/ EndpointUserPattern(a, u) \/ SecretUserPattern(a, u)
  \/ ModelDefinitionUserPattern(a, u)

GroupRoutes(a, g) ==
  \/ \E n \in Names : \/ ExperimentGroupRow(a, n, g) \/ ScorerGroupRow(a, n, g)
                      \/ ModelGroupRow(a, n, g) \/ PromptGroupRow(a, n, g)
                      \/ EndpointGroupRow(a, n, g) \/ SecretGroupRow(a, n, g)
                      \/ ModelDefinitionGroupRow(a, n, g)
  \/ ExperimentGroupPattern(a, g) \/ ScorerGroupPattern(a, g)
  \/ ModelGroupPattern(a, g) \/ PromptGroupPattern(a, g)
  \/ EndpointGroupPattern(a, g) \/ SecretGroupPattern(a, g)
  \/ ModelDefinitionGroupPattern(a, g)

Next ==
  /\ writes < MaxWrites
  /\ \/ \E a \in Actors : \/ \E u \in Users : UserRoutes(a, u)
                         \/ \E g \in Groups : GroupRoutes(a, g)
     \/ \E u \in Users : SetGroups(u)
  /\ writes' = writes + 1
  /\ UNCHANGED <<family, staffed>>

Spec == Init /\ [][Next]_vars

-----------------------------------------------------------------------------

Answered(k, n, u, p) == Resolve(k, n, u) = {p}

\* No source before the groups' rows answers.
GroupsDecide(k, n, u) ==
  \E i \in DOMAIN SourceOrder :
    /\ SourceOrder[i] = "group"
    /\ \A j \in 1..i-1 : CASE SourceOrder[j] = "user"  -> UserRow(k, n, u) = NoRow
                           [] SourceOrder[j] = "group" -> TRUE
                           [] SourceOrder[j] = "regex" -> UserMatch(k, n, u) = {NoRow}
                           [] SourceOrder[j] = "group-regex" -> GroupMatch(k, n, u) = {NoRow}

\* What the rows of a member's groups give: a denial beats everything, else
\* nothing less than any of them.
MembersGetTheRows(k, n, u) ==
  LET found == RowsOfGroups(k, n, u) IN
    GroupsDecide(k, n, u) /\ found # {} =>
      \E p \in found : /\ Answered(k, n, u, p)
                      /\ IF "NO_PERMISSIONS" \in found THEN p = "NO_PERMISSIONS"
                         ELSE \A q \in found : Rights(p) >= Rights(q)

\* The rows of a user's groups decide wherever no earlier source does, also
\* after they were rewritten through the other routes of the same table or
\* another login (repository/_base.py, get_group_permission_for_user_resource).
GroupRowsReachMembers ==
  \A k \in family \ Gateways, n \in Names, u \in Users : MembersGetTheRows(k, n, u)

\* docs/permissions.md says it of the gateways as well.
GatewayGroupsReachMembers ==
  \A k \in family \cap Gateways, n \in Names, u \in Users : MembersGetTheRows(k, n, u)

\* A permission page agrees with the requests: what it shows of a user is what
\* a request of that user gets, it leaves out nothing the user may do, and
\* another user sees what that user manages.  Users with groups that disagree
\* about the name are left out: a page keeps any one of their rows.
ListingTellsTheTruth ==
  \A k \in family \cap BatchKinds, n \in Names, u \in Users :
    (\A v \in Users : Cardinality(RowsOfGroups(k, n, v)) <= 1) =>
      LET truth == Resolve(k, n, u) IN
      /\ \A a \in Users \cup {Admin} :
           /\ Shown(a, k, n, u) \subseteq truth
           /\ a # u /\ Shown(a, k, n, u) # {} => Manages(a, k, n)
      /\ Raised \notin BatchResolve(k, n, u) =>
           {p \in truth : Rights(p) > 0} \subseteq Shown(u, k, n, u)

\* A stored pattern that does not compile breaks the requests of the members of
\* its group, and only the models' and the prompts' group patterns can be one.
OnlyGroupPatternsRaise ==
  \A k \in family, n \in Names, u \in Users :
    Raised \in Resolve(k, n, u) =>
      /\ k \in {"registered_model", "prompt"}
      /\ \E g \in members[u], p \in Broken : patterns[<<k, <<"group", g>>, p>>] # NoRow

\* Answers r are no worse than answers s.
NoWorse(r, s) ==
  /\ \A p \in r : \E q \in s : Rights(p) >= Rights(q)
  /\ \A q \in s : \E p \in r : Rights(p) >= Rights(q)

\* Whatever changes in the tables is a permission that gets stronger.
Promotion ==
  /\ UNCHANGED members
  /\ \A r \in DOMAIN rows : rows'[r] # rows[r] =>
       NoRow \notin {rows[r], rows'[r]} /\ Rights(rows'[r]) >= Rights(rows[r])
  /\ \A e \in DOMAIN patterns : patterns'[e] # patterns[e] =>
       /\ NoRow \notin {patterns[e], patterns'[e]}
       /\ patterns'[e].priority = patterns[e].priority
       /\ Rights(patterns'[e].permission) >= Rights(patterns[e].permission)

\* A row or a pattern that gets a stronger permission takes nothing from anyone,
\* of any kind, whichever sources answer (the walk of utils/permissions.py over
\* sources that disagree, and the comparison of the groups' rows).
PromotionRaises ==
  [][Promotion => \A k \in family, n \in Names, u \in Users :
                    NoWorse(Resolve(k, n, u)', Resolve(k, n, u))]_vars

\* The kinds whose managers may write a table, and of which resource.
Governing(t, n) ==
  CASE t = "scorer" -> {<<"experiment", ExperimentOf[n]>>}
    [] t = "experiment" -> {<<"experiment", n>>}
    [] t = "registered_model" -> {<<"registered_model", n>>, <<"prompt", n>>}
    [] OTHER -> {}

\* Without an administrator, rights spread only from those who have them: a row
\* changes only while some user manages the resource it is about, and neither
\* a gateway's row nor a pattern ever does (dependencies.py).
OnlyManagersWrite ==
  [][~staffed =>
       /\ UNCHANGED patterns
       /\ \A r \in DOMAIN rows : rows'[r] # rows[r] =>
            \E u \in Users, m \in Governing(r[1], r[2]) : "MANAGE" \in Resolve(m[1], m[2], u)]_vars
=============================================================================
