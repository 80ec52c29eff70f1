---------------------------- MODULE WorkspaceAccess ----------------------------
(***************************************************************************)
(* Who may do what in a workspace, and the cache that remembers it.        *)
(*                                                                         *)
(* A workspace permission comes from four sources, asked one transaction   *)
(* at a time on a miss of the cache (utils/workspace_cache.py).  Whoever   *)
(* holds MANAGE writes the rows of users and groups and deletes the        *)
(* workspace (routers/workspace_permissions.py, the hooks around MLflow's  *)
(* workspace API); administrators write patterns and create workspaces.    *)
(* A user's row invalidates one entry after its commit, a pattern, a       *)
(* creation and a deletion clear the cache, a group's row and a login do   *)
(* neither.  A login also creates workspaces, past the hooks.  Requests    *)
(* run on the threads of every replica.                                    *)
(***************************************************************************)
EXTENDS Naturals, FiniteSets, Sequences

CONSTANTS
  Users,        \* users that are not administrators
  Admin,        \* an administrator: passes every check without a lookup
  Groups,
  Workspaces,   \* names of workspaces
  Levels,       \* the permissions that are granted
  Patterns,     \* entries of the pattern tables: priority, names, permission
  SourceOrder,  \* config.PERMISSION_SOURCE_ORDER
  LoginLevel,   \* config.OIDC_WORKSPACE_DEFAULT_PERMISSION
  NoRow,        \* a source, or a lookup, that finds nothing
  Miss,         \* a cache lookup that finds nothing
  Caches,       \* one per process (local) or one in all (redis)
  Requests,     \* threads
  MaxWrites,    \* bound on the writes of a behaviour
  MaxFaults     \* bound on the sources that fail

Sources == {"user", "group", "regex", "group-regex"}

\* permissions.py: the number a permission is compared by.
Priority == [l \in {"READ", "USE", "EDIT", "MANAGE", "NO_PERMISSIONS"} |->
               CASE l = "READ" -> 1 [] l = "USE" -> 2 [] l = "EDIT" -> 3
                 [] l = "MANAGE" -> 4 [] OTHER -> 100]

ASSUME WorkspaceAssumption ==
  /\ Levels \subseteq DOMAIN Priority
  /\ "MANAGE" \in Levels /\ LoginLevel \in Levels
  /\ NoRow \notin Levels /\ Miss \notin Levels
  /\ Patterns \subseteq [priority : Nat, names : SUBSET Workspaces, permission : Levels]
  /\ SourceOrder \in Seq(Sources)
  /\ Admin \notin Users
  /\ (Users \cup {Admin}) \cap Groups = {}
  /\ MaxWrites \in Nat /\ MaxFaults \in Nat

People == Users \cup {Admin}
Subjects == People \cup Groups

\* can_manage and can_read of a permission; a bug could compare the numbers.
CanManageByNumber(l) == Priority[l] >= Priority["MANAGE"]
CanManage(l) == l = "MANAGE"
CanRead(l) == l # "NO_PERMISSIONS"

VARIABLES
  exists,     \* the workspaces MLflow has
  rows,       \* the permission of each subject in each workspace
  patterns,   \* the pattern entries of each subject
  members,    \* the groups of each user
  cache,      \* per process, the permission stored for a user and workspace
  req,        \* the state of each request
  writes,     \* number of writes so far
  faults,     \* number of sources that failed so far
  doubtful,   \* history: requests that a write overtook, a source failed,
              \* or a stale entry answered
  unreached,  \* history: entries gone stale that no clear will visit
  left        \* history: rows written for no workspace, or not wiped with it

tables == <<rows, patterns, members>>
history == <<doubtful, unreached, left>>
vars == <<exists, rows, patterns, members, cache, req, writes, faults,
          doubtful, unreached, left>>

Key == Users \X Workspaces

Idle == [pc |-> "idle"]
Lookups == {"sources", "group-patterns", "store", "decide"}
Stages == Lookups \cup {"reader", "manager", "invalidate", "grant", "wipe-users",
                        "wipe-groups", "flush"}
Request == [pc : Stages, cache : Caches, user : People, workspace : Workspaces,
            pos : 1 .. Len(SourceOrder) + 1, groups : SUBSET Groups,
            result : Levels \cup {NoRow}, todo : SUBSET Key]

At(s, pc) == [s EXCEPT !.pc = pc]
KeyOf(s) == <<s.user, s.workspace>>

-----------------------------------------------------------------------------
(* What the sources answer *)

\* Of several permissions the one with the highest number.
Strongest(ls) ==
  IF ls = {} THEN NoRow ELSE CHOOSE l \in ls : \A m \in ls : Priority[m] <= Priority[l]

GroupRow(u, w) == Strongest({rows[<<g, w>>] : g \in members[u]} \ {NoRow})

\* Only the matches of the smallest priority count.
FirstTier(ps, w) ==
  LET hits == {p \in ps : w \in p.names} IN
    Strongest({p.permission : p \in {q \in hits : \A o \in hits : q.priority <= o.priority}})

PatternsOf(gs) == UNION {patterns[g] : g \in gs}

Answer(s, u, w) ==
  CASE s = "user" -> rows[<<u, w>>]
    [] s = "group" -> GroupRow(u, w)
    [] s = "regex" -> FirstTier(patterns[u], w)
    [] s = "group-regex" -> FirstTier(PatternsOf(members[u]), w)

Answers(k) == [s \in Sources |-> Answer(s, k[1], k[2])]

\* No source before position i answers.
NothingBefore(k, i) == \A j \in 1 .. (i - 1) : Answers(k)[SourceOrder[j]] = NoRow

\* What an undisturbed lookup finds.
Holds(k, l) ==
  \/ \E i \in DOMAIN SourceOrder :
       NothingBefore(k, i) /\ l # NoRow /\ l = Answers(k)[SourceOrder[i]]
  \/ NothingBefore(k, Len(SourceOrder) + 1) /\ l = NoRow

\* Process c has yet to remove the entry of k.
Due(c, k) ==
  \E q \in Requests :
    /\ req[q].pc \in {"invalidate", "grant", "wipe-users", "wipe-groups", "flush"}
    /\ req[q].cache = c
    /\ k \in req[q].todo

-----------------------------------------------------------------------------
Init ==
  /\ exists \in SUBSET Workspaces
  /\ rows = [sw \in Subjects \X Workspaces |-> NoRow]
  /\ patterns = [s \in Users \cup Groups |-> {}]
  /\ members \in [Users -> SUBSET Groups]
  /\ cache = [c \in Caches |-> [k \in Key |-> Miss]]
  /\ req = [q \in Requests |-> Idle]
  /\ writes = 0 /\ faults = 0
  /\ doubtful = {} /\ unreached = {} /\ left = {}

-----------------------------------------------------------------------------
(* The lookup: get_workspace_permission_cached *)

Untouched == UNCHANGED <<exists, rows, patterns, members, writes, left>>
Reads == Untouched /\ UNCHANGED faults

\* A request about a workspace: an entry answers, or the sources are asked.
Begin(q, c, u, w) ==
  /\ req[q] = Idle
  /\ LET hit == cache[c][<<u, w>>] IN
     /\ req' = [req EXCEPT ![q] =
          [pc |-> IF hit = Miss THEN "sources" ELSE "decide", cache |-> c, user |-> u,
           workspace |-> w, pos |-> 1, groups |-> {},
           result |-> IF hit = Miss THEN NoRow ELSE hit, todo |-> {}]]
     /\ doubtful' = IF hit # Miss /\ (<<c, <<u, w>>>> \in unreached \/ Due(c, <<u, w>>))
                    THEN doubtful \cup {q} ELSE doubtful
  /\ UNCHANGED <<cache, unreached>> /\ Reads

Asks(q, s) == req[q].pc = "sources" /\ req[q].pos \in DOMAIN SourceOrder
                /\ SourceOrder[req[q].pos] = s

NextSource(r) == [r EXCEPT !.pc = "sources", !.pos = @ + 1, !.groups = {}]
Found(r, answer) == [r EXCEPT !.pc = "store", !.result = answer, !.groups = {}]

\* The walk goes on to the next source, or has its answer.
Told(q, answer) ==
  req' = [req EXCEPT ![q] = IF answer = NoRow THEN NextSource(@) ELSE Found(@, answer)]

AskUserRow(q) ==
  /\ Asks(q, "user") /\ Told(q, rows[KeyOf(req[q])])
  /\ UNCHANGED <<cache, doubtful, unreached>> /\ Reads

AskGroupRows(q) ==
  /\ Asks(q, "group") /\ Told(q, GroupRow(req[q].user, req[q].workspace))
  /\ UNCHANGED <<cache, doubtful, unreached>> /\ Reads

AskUserPatterns(q) ==
  /\ Asks(q, "regex") /\ Told(q, FirstTier(patterns[req[q].user], req[q].workspace))
  /\ UNCHANGED <<cache, doubtful, unreached>> /\ Reads

\* The groups' patterns take two transactions: the groups first ...
AskGroups(q) ==
  /\ Asks(q, "group-regex")
  /\ IF members[req[q].user] = {} THEN Told(q, NoRow)
     ELSE req' = [req EXCEPT ![q] =
            [@ EXCEPT !.pc = "group-patterns", !.groups = members[req[q].user]]]
  /\ UNCHANGED <<cache, doubtful, unreached>> /\ Reads

\* ... and their patterns.
AskGroupPatterns(q) ==
  /\ req[q].pc = "group-patterns"
  /\ Told(q, FirstTier(PatternsOf(req[q].groups), req[q].workspace))
  /\ UNCHANGED <<cache, doubtful, unreached>> /\ Reads

\* Every resolver catches what its source raises and answers None.
SourceFails(q) ==
  /\ \/ req[q].pc = "group-patterns"
     \/ req[q].pc = "sources" /\ req[q].pos \in DOMAIN SourceOrder
  /\ Told(q, NoRow)
  /\ faults < MaxFaults /\ faults' = faults + 1
  /\ doubtful' = doubtful \cup {q}
  /\ UNCHANGED <<cache, unreached>> /\ Untouched

\* None is not cached: the request is refused, the workspace filtered out.
NothingFound(q) ==
  /\ req[q].pc = "sources" /\ req[q].pos = Len(SourceOrder) + 1
  /\ req' = [req EXCEPT ![q] = Idle]
  /\ doubtful' = doubtful \ {q}
  /\ UNCHANGED <<cache, unreached>> /\ Reads

Store(q) ==
  /\ req[q].pc = "store"
  /\ LET entry == <<req[q].cache, KeyOf(req[q])>> IN
     /\ cache' = [cache EXCEPT ![entry[1]] = [@ EXCEPT ![entry[2]] = req[q].result]]
     /\ unreached' = IF q \in doubtful THEN unreached \cup {entry} ELSE unreached \ {entry}
  /\ req' = [req EXCEPT ![q] = At(@, "decide")]
  /\ UNCHANGED doubtful /\ Reads

\* MANAGE lets a request write, READ and more let it see.
Decide(q) ==
  /\ req[q].pc = "decide"
  /\ req' = [req EXCEPT ![q] = IF CanManage(@.result) THEN At(@, "manager")
                               ELSE IF CanRead(@.result) THEN At(@, "reader") ELSE Idle]
  /\ doubtful' = IF req'[q] = Idle THEN doubtful \ {q} ELSE doubtful
  /\ UNCHANGED <<cache, unreached>> /\ Reads

\* An administrator's request is not looked up.
AdminRequest(q, c, w) ==
  /\ req[q] = Idle
  /\ req' = [req EXCEPT ![q] =
       [pc |-> "manager", cache |-> c, user |-> Admin, workspace |-> w, pos |-> 1,
        groups |-> {}, result |-> "MANAGE", todo |-> {}]]
  /\ UNCHANGED <<cache, doubtful, unreached>> /\ Reads

\* The answer is sent: a list, an update that is MLflow's own, an error.
Finish(q) ==
  /\ req[q].pc \in {"reader", "manager"}
  /\ req' = [req EXCEPT ![q] = Idle]
  /\ doubtful' = doubtful \ {q}
  /\ UNCHANGED <<cache, unreached>> /\ Reads

-----------------------------------------------------------------------------
(* Writes *)

\* The keys for which some source answers differently after the step.
Affected ==
  {k \in Key : \E s \in Sources : Answer(s, k[1], k[2])' # Answer(s, k[1], k[2])}

\* Requests that have looked up a key of K and not yet acted on it.
Using(K) ==
  {q \in Requests : req[q].pc \in Lookups \cup {"reader", "manager"}
                      /\ KeyOf(req[q]) \in K}

\* The bookkeeping of a committed write: process c will remove the entries of
\* the keys in todo, and nothing removes the other entries it makes stale.
Committed(q, c, todo) ==
  /\ doubtful' = (doubtful \cup Using(Affected)) \ {q}
  /\ unreached' = unreached \cup
       {e \in Caches \X Affected : ~(e[1] = c /\ e[2] \in todo)}
  /\ UNCHANGED <<cache, faults>>

Counted == writes < MaxWrites /\ writes' = writes + 1

\* A row written for a workspace that MLflow does not have stays behind.
Noted(s, w, l) ==
  left' = IF w \in exists \/ l = NoRow THEN left ELSE left \cup {<<s, w>>}

\* One row is created (there is none yet), changed or deleted (there is one).
CreateRow(s, w, l) == rows[<<s, w>>] = NoRow /\ l # NoRow /\ rows' = [rows EXCEPT ![<<s, w>>] = l]
ChangeRow(s, w, l) == rows[<<s, w>>] # NoRow /\ l # NoRow /\ rows' = [rows EXCEPT ![<<s, w>>] = l]
DeleteRow(s, w) == rows[<<s, w>>] # NoRow /\ rows' = [rows EXCEPT ![<<s, w>>] = NoRow]

\* After a user's row is written the entry of that user and workspace is to go;
\* a bug could forget it.
ForgetToInvalidate(q, v) == [req EXCEPT ![q] = Idle]
ThenInvalidate(q, v) ==
  LET w == req[q].workspace IN
    [req EXCEPT ![q] = [@ EXCEPT !.pc = "invalidate", !.todo = {<<v, w>>} \cap Key]]

\* A manager's request about the row of person v; the row's new value is l.
UserRowWritten(q, v, l) ==
  /\ Counted /\ Noted(v, req[q].workspace, l)
  /\ req' = ThenInvalidate(q, v)
  /\ UNCHANGED <<exists, patterns, members>>
  /\ Committed(q, req[q].cache, {<<v, req[q].workspace>>})

CreateUserPermission(q, v, l) ==
  /\ req[q].pc = "manager"
  /\ CreateRow(v, req[q].workspace, l)
  /\ UserRowWritten(q, v, l)

UpdateUserPermission(q, v, l) ==
  /\ req[q].pc = "manager"
  /\ ChangeRow(v, req[q].workspace, l)
  /\ UserRowWritten(q, v, l)

DeleteUserPermission(q, v) ==
  /\ req[q].pc = "manager"
  /\ DeleteRow(v, req[q].workspace)
  /\ UserRowWritten(q, v, NoRow)

\* The row of a group: the entries of its members wait for their TTL.
GroupRowWritten(q, g, l) ==
  /\ Counted /\ Noted(g, req[q].workspace, l)
  /\ req' = [req EXCEPT ![q] = Idle]
  /\ UNCHANGED <<exists, patterns, members>>
  /\ Committed(q, req[q].cache, {})

CreateGroupPermission(q, g, l) ==
  /\ req[q].pc = "manager"
  /\ CreateRow(g, req[q].workspace, l)
  /\ GroupRowWritten(q, g, l)

UpdateGroupPermission(q, g, l) ==
  /\ req[q].pc = "manager"
  /\ ChangeRow(g, req[q].workspace, l)
  /\ GroupRowWritten(q, g, l)

DeleteGroupPermission(q, g) ==
  /\ req[q].pc = "manager"
  /\ DeleteRow(g, req[q].workspace)
  /\ GroupRowWritten(q, g, NoRow)

\* A handler that is to clear its process's cache at the end.
ThenFlush(q, pc) == [req EXCEPT ![q] = [@ EXCEPT !.pc = pc, !.todo = Key]]

\* An administrator creates, changes or deletes a pattern of a user or group.
PatternsWritten(q, s, ps) ==
  /\ req[q].pc = "manager" /\ req[q].user = Admin
  /\ Counted
  /\ patterns' = [patterns EXCEPT ![s] = ps]
  /\ req' = ThenFlush(q, "flush")
  /\ UNCHANGED <<exists, rows, members, left>>
  /\ Committed(q, req[q].cache, Key)

\* What one route can make of the entries ps.
OneEntryOff(ps) ==
  {ps \cup {p} : p \in Patterns} \cup {ps \ {p} : p \in ps}
    \cup {(ps \ {p}) \cup {o} : p \in ps, o \in Patterns}

WriteUserPattern(q, v) == \E ps \in OneEntryOff(patterns[v]) : PatternsWritten(q, v, ps)
WriteGroupPattern(q, g) == \E ps \in OneEntryOff(patterns[g]) : PatternsWritten(q, g, ps)

\* MLflow creates the workspace; the hook then grants MANAGE to the creator ...
CreateWorkspace(q) ==
  /\ req[q].pc = "manager" /\ req[q].user = Admin
  /\ req[q].workspace \notin exists
  /\ Counted
  /\ exists' = exists \cup {req[q].workspace}
  /\ req' = ThenFlush(q, "grant")
  /\ UNCHANGED <<tables, cache, faults, history>>

\* ... unless there is a row already or the store fails, which is only logged.
GrantCreator(q) ==
  /\ req[q].pc = "grant"
  /\ \/ CreateRow(req[q].user, req[q].workspace, "MANAGE")
          /\ Noted(req[q].user, req[q].workspace, "MANAGE")
     \/ UNCHANGED <<rows, left>>
  /\ req' = [req EXCEPT ![q] = At(@, "flush")]
  /\ UNCHANGED <<exists, patterns, members, writes>>
  /\ Committed(q, req[q].cache, Key)

\* MLflow deletes the workspace; the hook then wipes its rows.
DeleteWorkspace(q) ==
  /\ req[q].pc = "manager"
  /\ req[q].workspace \in exists
  /\ Counted
  /\ exists' = exists \ {req[q].workspace}
  /\ req' = ThenFlush(q, "wipe-users")
  /\ doubtful' = doubtful \ {q}
  /\ UNCHANGED <<tables, cache, faults, unreached, left>>

\* delete_all_for_workspace; a bug could wipe the rows of one subject only.
WithoutOwnRow(S, u, w) == [rows EXCEPT ![<<u, w>>] = NoRow]
WithoutRows(S, u, w) == [sw \in DOMAIN rows |-> IF sw[1] \in S /\ sw[2] = w THEN NoRow ELSE rows[sw]]

\* One transaction for the rows of the subjects S, then the next stage.
Wipe(q, S, next) ==
  /\ rows' = WithoutRows(S, req[q].user, req[q].workspace)
  /\ left' = left \ (S \X {req[q].workspace})
  /\ req' = [req EXCEPT ![q] = At(@, next)]
  /\ UNCHANGED <<exists, patterns, members, writes>>
  /\ Committed(q, req[q].cache, Key)

WipeUsers(q) == req[q].pc = "wipe-users" /\ Wipe(q, People, "wipe-groups")
WipeGroups(q) == req[q].pc = "wipe-groups" /\ Wipe(q, Groups, "flush")

\* A failing wipe is logged; the rest of it is skipped.
WipeFails(q) ==
  /\ req[q].pc \in {"wipe-users", "wipe-groups"}
  /\ left' = left \cup {sw \in DOMAIN rows : sw[2] = req[q].workspace /\ rows[sw] # NoRow}
  /\ req' = [req EXCEPT ![q] = At(@, "flush")]
  /\ UNCHANGED <<exists, tables, cache, writes, faults, doubtful, unreached>>

Without(r, B) == [r EXCEPT !.todo = @ \ B]

\* invalidate_workspace_permission and flush_workspace_cache: one entry, or all
\* at once (local) or in batches (redis).
Remove(q, B) ==
  /\ req[q].pc \in {"invalidate", "flush"}
  /\ B \subseteq req[q].todo
  /\ B = {} => req[q].todo = {}
  /\ LET c == req[q].cache IN
     /\ cache' = [cache EXCEPT ![c] = [k \in Key |-> IF k \in B THEN Miss ELSE cache[c][k]]]
     /\ unreached' = unreached \ ({c} \X B)
  /\ req' = [req EXCEPT ![q] = IF @.todo = B THEN Idle ELSE Without(@, B)]
  /\ UNCHANGED doubtful /\ Reads

\* A login replaces the groups of a user; what is being looked up for the user
\* may combine old groups with new patterns.
SetGroups(u, gs) ==
  /\ Counted
  /\ members' = [members EXCEPT ![u] = gs]
  /\ doubtful' = doubtful \cup Using({u} \X Workspaces)
  /\ UNCHANGED <<exists, rows, patterns, cache, req, faults, left>>
  /\ unreached' = unreached \cup (Caches \X Affected)

\* A login finds a workspace in the user's claims: it is created if it does not
\* exist and can be, and the user gets a row if there is none and the store
\* takes it.  No hook runs and no entry goes.
LoginAssigns(u, w) ==
  /\ Counted
  /\ exists' \in {exists, exists \cup {w}}
  /\ \/ /\ CreateRow(u, w, LoginLevel)
        /\ left' = IF w \in exists' THEN left ELSE left \cup {<<u, w>>}
     \/ exists' # exists /\ UNCHANGED <<rows, left>>
  /\ UNCHANGED <<patterns, members, cache, req, faults>>
  /\ doubtful' = doubtful \cup Using(Affected)
  /\ unreached' = unreached \cup (Caches \X Affected)

\* delete_user: the rows, patterns and memberships of a user go together.
DeleteUser(u) ==
  /\ Counted
  /\ rows' = [sw \in DOMAIN rows |-> IF sw[1] = u THEN NoRow ELSE rows[sw]]
  /\ patterns' = [patterns EXCEPT ![u] = {}]
  /\ members' = [members EXCEPT ![u] = {}]
  /\ doubtful' = doubtful \cup Using({u} \X Workspaces)
  /\ UNCHANGED <<exists, cache, req, faults, left>>
  /\ unreached' = unreached \cup (Caches \X Affected)

\* An entry's TTL elapses; a bug could keep the entries of managers.
ElapsesUnlessManager(e) == e \notin {Miss, "MANAGE"}
Elapses(e) == e # Miss

Expire(c, k) ==
  /\ Elapses(cache[c][k])
  /\ cache' = [cache EXCEPT ![c] = [@ EXCEPT ![k] = Miss]]
  /\ unreached' = unreached \ {<<c, k>>}
  /\ UNCHANGED <<req, doubtful>> /\ Reads

-----------------------------------------------------------------------------
Lookup(q) ==
  \/ AskUserRow(q) \/ AskGroupRows(q) \/ AskUserPatterns(q)
  \/ AskGroups(q) \/ AskGroupPatterns(q)
  \/ SourceFails(q) \/ NothingFound(q) \/ Store(q) \/ Decide(q)

Change(q) ==
  \/ \E v \in People : \/ \E l \in Levels : CreateUserPermission(q, v, l)
                       \/ \E l \in Levels : UpdateUserPermission(q, v, l)
                       \/ DeleteUserPermission(q, v)
  \/ \E g \in Groups : \/ \E l \in Levels : CreateGroupPermission(q, g, l)
                       \/ \E l \in Levels : UpdateGroupPermission(q, g, l)
                       \/ DeleteGroupPermission(q, g)
  \/ \E v \in Users : WriteUserPattern(q, v)
  \/ \E g \in Groups : WriteGroupPattern(q, g)
  \/ CreateWorkspace(q)
  \/ DeleteWorkspace(q)

Aftermath(q) ==
  \/ GrantCreator(q)
  \/ WipeUsers(q) \/ WipeGroups(q) \/ WipeFails(q)
  \/ \E B \in SUBSET Key : Remove(q, B)

Next ==
  \/ \E q \in Requests, c \in Caches, w \in Workspaces :
       (\E u \in Users : Begin(q, c, u, w)) \/ AdminRequest(q, c, w)
  \/ \E q \in Requests : Lookup(q) \/ Change(q) \/ Aftermath(q) \/ Finish(q)
  \/ \E u \in Users : \/ \E gs \in SUBSET Groups : SetGroups(u, gs)
                      \/ \E w \in Workspaces : LoginAssigns(u, w)
                      \/ DeleteUser(u)
  \/ \E c \in Caches, k \in Key : Expire(c, k)

Spec == Init /\ [][Next]_vars

\* Requests that have started run on; an entry's TTL elapses.
Fairness ==
  /\ \A q \in Requests : WF_vars(Lookup(q) \/ Aftermath(q) \/ Finish(q))
  /\ \A c \in Caches, k \in Key : WF_vars(Expire(c, k))

FairSpec == Spec /\ Fairness

-----------------------------------------------------------------------------
(* Properties *)

\* The variables' types; None is never stored.
TypeOK ==
  /\ exists \subseteq Workspaces
  /\ rows \in [Subjects \X Workspaces -> Levels \cup {NoRow}]
  /\ patterns \in [Users \cup Groups -> SUBSET Patterns]
  /\ members \in [Users -> SUBSET Groups]
  /\ cache \in [Caches -> [Key -> Levels \cup {Miss}]]
  /\ req \in [Requests -> {Idle} \cup Request]
  /\ writes \in 0 .. MaxWrites /\ faults \in 0 .. MaxFaults
  /\ doubtful \subseteq Requests
  /\ unreached \subseteq Caches \X Key
  /\ left \subseteq Subjects \X Workspaces

\* An entry is what a lookup finds now, unless its process is about to remove
\* it, a write that removes nothing came after it, or a lookup stored it that a
\* write overtook or a source failed (get_workspace_permission_cached against
\* the invalidations of the routes and hooks).
EntriesCurrent ==
  \A c \in Caches, k \in Key :
    \/ cache[c][k] = Miss
    \/ <<c, k>> \in unreached
    \/ Due(c, k)
    \/ Holds(k, cache[c][k])

\* A request about to write as a manager, or to show as a reader, has that right
\* now, whichever source it comes from, unless something known put it in doubt
\* between its lookup and its act (check_workspace_manage_permission).
ManagersManage ==
  \A q \in Requests \ doubtful :
    /\ req[q].pc = "manager" /\ req[q].user # Admin => Holds(KeyOf(req[q]), "MANAGE")
    /\ req[q].pc = "reader" =>
         \E l \in Levels \ {"NO_PERMISSIONS"} : Holds(KeyOf(req[q]), l)

\* A workspace that is gone, with its deletion over, has no rows that would give
\* rights in the next one of its name, but those written while it was gone and
\* those a failed wipe left (_cascade_delete_workspace_permissions).
NothingLeftBehind ==
  \A sw \in Subjects \X Workspaces :
    \/ rows[sw] = NoRow
    \/ sw[2] \in exists
    \/ sw \in left
    \/ \E q \in Requests : req[q].pc \in {"wipe-users", "wipe-groups"} /\ req[q].workspace = sw[2]

\* Once writes and failures stop, every entry is right for good: the TTL repairs what no
\* invalidation reached.
EventuallyCurrent ==
  <>[](\A c \in Caches, k \in Key : cache[c][k] = Miss \/ Holds(k, cache[c][k]))

-----------------------------------------------------------------------------
(* What the documentation says, and the code does not keep *)

\* docs/workspaces.md: the cache is flushed when workspace permissions are
\* created, updated or deleted.  A request that has written a row goes on to
\* remove entries.
FlushedOnChange ==
  [][\A q \in Requests :
       req[q].pc = "manager" /\ rows' # rows /\ req'[q] # req[q]
         => req'[q].pc \in {"invalidate", "flush"}]_vars

\* utils/workspace_cache.py (D-08): of the matches of one priority the most
\* permissive one counts.
MostPermissiveMatch ==
  \A u \in Users, w \in Workspaces : \A p \in patterns[u] :
    w \in p.names /\ (\A o \in patterns[u] : w \in o.names => p.priority <= o.priority)
      /\ CanManage(p.permission) => FirstTier(patterns[u], w) = "MANAGE"
=============================================================================
