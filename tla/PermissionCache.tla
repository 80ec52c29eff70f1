--------------------------- MODULE PermissionCache ---------------------------
(***************************************************************************)
(* The permission-resolution cache of mlflow-oidc-auth.                    *)
(*                                                                         *)
(* A request asks resolve_permission() (utils/permissions.py) what a user  *)
(* may do with a resource.  A miss walks the permission sources one        *)
(* database transaction at a time, falls back to the workspace permission  *)
(* or to the configured default, and stores the answer.  Permission writes *)
(* commit first and clear the cache afterwards (sqlalchemy_store.py); some *)
(* writes never clear it.  All of these interleave: requests run on the    *)
(* threads of every replica.                                               *)
(*                                                                         *)
(* The database is abstracted to what each source answers for a user and a *)
(* resource.                                                               *)
(***************************************************************************)
EXTENDS Naturals, Sequences

CONSTANTS
  Users,          \* usernames
  Resources,      \* resources of one type; for scorers, <<experiment, scorer>>
  Slots,          \* what a cache key retains of a resource
  SlotOf,         \* [Resources -> Slots], the resource part of the cache key
  Sources,        \* the permission sources in use
  SourceOrder,    \* config.PERMISSION_SOURCE_ORDER, a sequence of sources
  Permissions,    \* permission levels
  Default,        \* config.DEFAULT_MLFLOW_PERMISSION
  NoPermissions,  \* the level that denies everything
  NoRow,          \* a source's RESOURCE_DOES_NOT_EXIST
  Workspaces,     \* workspaces a request may name; {} when the feature is off
  NoWorkspace,    \* a request that names no workspace
  Miss,           \* a cache lookup that finds nothing
  Replicas,       \* caches: one per process (local) or one in all (redis)
  Requests,       \* threads that resolve a permission
  Writers,        \* threads that change permissions
  Settled,        \* bound: users with requests and grants; others are names to rename to
  MaxCovered,     \* bound: writes whose store method clears the cache
  MaxUncovered    \* bound: writes that leave the cache alone

ASSUME ConstantsAssumption ==
  /\ Sources \subseteq {"user", "group", "regex", "group-regex"}
  /\ Settled \subseteq Users
  /\ SlotOf \in [Resources -> Slots]
  /\ SourceOrder \in Seq(Sources)
  /\ {Default, NoPermissions} \subseteq Permissions
  /\ NoRow \notin Permissions
  /\ NoWorkspace \notin Workspaces
  /\ MaxCovered \in Nat /\ MaxUncovered \in Nat

VARIABLES
  db,         \* what each source answers for a user and a resource
  wsAnswer,   \* what get_workspace_permission_cached answers
  cache,      \* per replica, the stored result of each key
  req,        \* the state of each request thread
  wr,         \* the state of each writer thread
  covered,    \* number of writes committed by methods that clear the cache
  uncovered,  \* number of writes committed by methods that do not
  overtaken,  \* history: requests whose lookup a committed write overtook
  unreached   \* history: entries that went stale and that no clear will visit

dbVars == <<db, wsAnswer>>
history == <<overtaken, unreached>>
vars == <<db, wsAnswer, cache, req, wr, covered, uncovered, overtaken, unreached>>

-----------------------------------------------------------------------------
(* Values *)

Answer == Permissions \cup {NoRow}
Kinds == Sources \cup {"fallback", "workspace", "workspace-deny"}
Result == [permission : Permissions, kind : Kinds]
Key == Users \X Slots
RequestWorkspace == Workspaces \cup {NoWorkspace}

Fallback == [permission |-> Default, kind |-> "fallback"]
Deny == [permission |-> NoPermissions, kind |-> "workspace-deny"]

InFlight == {"sources", "workspace", "store"}

Idle == [pc |-> "idle"]

Resolving ==
  [pc : {"done"} \cup InFlight, replica : Replicas, user : Users,
   resource : Resources, workspace : RequestWorkspace,
   pos : 1 .. Len(SourceOrder) + 1, result : Result]

(* A request on its way, at a new phase, position and result.              *)
Moved(s, phase, i, res) ==
  [pc |-> phase, replica |-> s.replica, user |-> s.user, resource |-> s.resource,
   workspace |-> s.workspace, pos |-> i, result |-> res]

Clearing == [pc : {"clearing"}, replica : Replicas, todo : SUBSET Key]
Wiping == [pc : {"wiping"}, resource : Resources]

(* _make_cache_key, and the key a bug that drops the username would use.   *)
CacheKeyWithoutUser(u, r) == <<CHOOSE v \in Users : TRUE, SlotOf[r]>>
CacheKey(u, r) == <<u, SlotOf[r]>>

KeyOf(q) == CacheKey(req[q].user, req[q].resource)

(* The walk of get_permission_from_store_or_default: no source before      *)
(* position i of the configured order answers for this row.                *)
NothingBefore(row, i) == \A j \in 1 .. (i - 1) : row[SourceOrder[j]] = NoRow

(* res is what a complete walk of this row makes, with answer a in the     *)
(* request's workspace w.  A workspace lookup that fails answers None, as  *)
(* one that finds no row does, so a denial is always possible there.       *)
WalkResult(row, w, a, res) ==
  \/ \E i \in DOMAIN SourceOrder :
       /\ NothingBefore(row, i)
       /\ row[SourceOrder[i]] # NoRow
       /\ res = [permission |-> row[SourceOrder[i]], kind |-> SourceOrder[i]]
  \/ /\ NothingBefore(row, Len(SourceOrder) + 1)
     /\ \/ w = NoWorkspace /\ res = Fallback
        \/ w # NoWorkspace /\ res = Deny
        \/ w # NoWorkspace /\ a # NoRow /\ res = [permission |-> a, kind |-> "workspace"]

WorkspaceAnswer(u, w) == IF w = NoWorkspace THEN NoRow ELSE wsAnswer[<<u, w>>]

(* What an undisturbed lookup of resource r by user u in workspace w       *)
(* returns now.                                                            *)
Resolves(u, r, w, res) == WalkResult(db[<<u, r>>], w, WorkspaceAnswer(u, w), res)

(* A clear of replica p is under way and has yet to visit key k.           *)
ClearDue(p, k) ==
  \E x \in Writers : wr[x].pc = "clearing" /\ wr[x].replica = p /\ k \in wr[x].todo

-----------------------------------------------------------------------------
Init ==
  /\ db = [ur \in Users \X Resources |-> [s \in Sources |-> NoRow]]
  /\ wsAnswer = [uw \in Users \X Workspaces |-> NoRow]
  /\ cache = [p \in Replicas |-> [k \in Key |-> Miss]]
  /\ req = [q \in Requests |-> Idle]
  /\ wr = [x \in Writers |-> Idle]
  /\ covered = 0
  /\ uncovered = 0
  /\ overtaken = {}
  /\ unreached = {}

-----------------------------------------------------------------------------
(* resolve_permission, one action per access to shared state *)

(* cache.get: a hit is the answer, a miss starts the walk of the sources.  *)
Begin(q, p, u, r, w) ==
  /\ req[q] = Idle
  /\ LET hit == cache[p][CacheKey(u, r)] IN
     req' = [req EXCEPT ![q] =
       [pc |-> IF hit = Miss THEN "sources" ELSE "done", replica |-> p, user |-> u,
        resource |-> r, workspace |-> w, pos |-> 1,
        result |-> IF hit = Miss THEN Fallback ELSE hit]]
  /\ UNCHANGED <<dbVars, cache, wr, covered, uncovered, history>>

(* One source is asked: its permission ends the walk.                      *)
SourceAnswers(q) ==
  LET pos == req[q].pos
      answer == db[<<req[q].user, req[q].resource>>][SourceOrder[pos]]
  IN /\ req[q].pc = "sources"
     /\ pos \in DOMAIN SourceOrder
     /\ answer # NoRow
     /\ req' = [req EXCEPT ![q] =
          Moved(@, "store", pos, [permission |-> answer, kind |-> SourceOrder[pos]])]
     /\ UNCHANGED <<dbVars, cache, wr, covered, uncovered, history>>

(* RESOURCE_DOES_NOT_EXIST: the loop goes on to the next source.           *)
SourceHasNoRow(q) ==
  /\ req[q].pc = "sources"
  /\ req[q].pos \in DOMAIN SourceOrder
  /\ db[<<req[q].user, req[q].resource>>][SourceOrder[req[q].pos]] = NoRow
  /\ req' = [req EXCEPT ![q] = Moved(@, "sources", @.pos + 1, @.result)]
  /\ UNCHANGED <<dbVars, cache, wr, covered, uncovered, history>>

(* The walk is over after the last source; an off-by-one skips that source.*)
AllButLastAsked(pos) == pos >= Len(SourceOrder)
AllAsked(pos) == pos = Len(SourceOrder) + 1

(* Every source was asked: the default, or the workspace's permission.     *)
SourcesExhausted(q) ==
  /\ req[q].pc = "sources"
  /\ AllAsked(req[q].pos)
  /\ req' = [req EXCEPT ![q] =
       Moved(@, IF @.workspace = NoWorkspace THEN "store" ELSE "workspace", @.pos, Fallback)]
  /\ UNCHANGED <<dbVars, cache, wr, covered, uncovered, history>>

(* What a workspace lookup that finds answer a can make of it: with no     *)
(* permission there, or when the lookup fails, the request is denied.      *)
WorkspaceResultsUnchecked(a) == {[permission |-> a, kind |-> "workspace"]}
WorkspaceResults(a) ==
  {Deny} \cup {[permission |-> b, kind |-> "workspace"] : b \in {a} \ {NoRow}}

(* The workspace fallback.                                                 *)
ReadWorkspace(q) ==
  /\ req[q].pc = "workspace"
  /\ \E res \in WorkspaceResults(wsAnswer[<<req[q].user, req[q].workspace>>]) :
       req' = [req EXCEPT ![q] = Moved(@, "store", @.pos, res)]
  /\ UNCHANGED <<dbVars, cache, wr, covered, uncovered, history>>

(* Any other database error propagates: nothing is stored.                 *)
LookupFails(q) ==
  /\ req[q].pc = "sources"
  /\ req[q].pos \in DOMAIN SourceOrder
  /\ req' = [req EXCEPT ![q] = Idle]
  /\ overtaken' = overtaken \ {q}
  /\ UNCHANGED <<dbVars, cache, wr, covered, uncovered, unreached>>

(* cache.set *)
Store(q) ==
  /\ req[q].pc = "store"
  /\ cache' = [cache EXCEPT ![req[q].replica] = [@ EXCEPT ![KeyOf(q)] = req[q].result]]
  /\ req' = [req EXCEPT ![q] = Moved(@, "done", @.pos, @.result)]
  /\ unreached' = IF q \in overtaken
                  THEN unreached \cup {<<req[q].replica, KeyOf(q)>>}
                  ELSE unreached \ {<<req[q].replica, KeyOf(q)>>}
  /\ overtaken' = overtaken \ {q}
  /\ UNCHANGED <<dbVars, wr, covered, uncovered>>

(* The caller has acted on the answer.                                     *)
Finish(q) ==
  /\ req[q].pc = "done"
  /\ req' = [req EXCEPT ![q] = Idle]
  /\ UNCHANGED <<dbVars, cache, wr, covered, uncovered, history>>

-----------------------------------------------------------------------------
(* Writes *)

(* The requests whose lookup concerns one of the users and resources K.    *)
LookingUp(K) ==
  {q \in Requests : req[q].pc \in InFlight /\ <<req[q].user, req[q].resource>> \in K}

(* The cache keys under which results for K are stored.                    *)
KeysOf(K) == {CacheKey(ur[1], ur[2]) : ur \in K}

(* After its commit a listed method clears the cache of its own replica,   *)
(* key by key for what follows; one missing from the list just returns.    *)
ReturnWithoutFlush(p) == Idle
FlushLeft(p, K) == [pc |-> "clearing", replica |-> p, todo |-> K]
FlushAfter(p) == FlushLeft(p, Key)

(* A method of _PERMISSION_CUD_METHODS: its transaction gives source s new *)
(* answers for the users and resources in K, and the wrapper then starts   *)
(* to clear the cache of its own replica.  What other replicas hold for K  *)
(* no clear will visit.                                                    *)
CommitCovered(x, p, s, K, f) ==
  /\ wr[x] = Idle
  /\ covered < MaxCovered
  /\ db' = [ur \in Users \X Resources |->
              IF ur \in K THEN [db[ur] EXCEPT ![s] = f[ur]] ELSE db[ur]]
  /\ wr' = [wr EXCEPT ![x] = FlushAfter(p)]
  /\ covered' = covered + 1
  /\ overtaken' = overtaken \cup LookingUp(K)
  /\ unreached' = unreached \cup ((Replicas \ {p}) \X KeysOf(K))
  /\ UNCHANGED <<wsAnswer, cache, req, uncovered>>

(* cache.clear: the local backend empties the cache at once, redis scans   *)
(* and deletes batch by batch.                                             *)
ClearBatch(x, B) ==
  /\ wr[x].pc = "clearing"
  /\ B \subseteq wr[x].todo
  /\ LET p == wr[x].replica
         rest == wr[x].todo \ B
     IN /\ cache' = [cache EXCEPT ![p] = [k \in Key |-> IF k \in B THEN Miss ELSE cache[p][k]]]
        /\ unreached' = unreached \ ({p} \X B)
        /\ wr' = [wr EXCEPT ![x] = IF rest = {} THEN Idle ELSE FlushLeft(p, rest)]
  /\ UNCHANGED <<dbVars, req, covered, uncovered, overtaken>>

(* A write outside the list: nothing clears what any replica holds for K.  *)
NothingCleared(K) ==
  /\ overtaken' = overtaken \cup LookingUp(K)
  /\ unreached' = unreached \cup (Replicas \X KeysOf(K))
  /\ UNCHANGED <<cache, req>>

Uncovered(K) ==
  /\ uncovered < MaxUncovered
  /\ uncovered' = uncovered + 1
  /\ NothingCleared(K)

(* Source s loses every row about resource r.                              *)
WithoutRows(r, s) ==
  [ur \in Users \X Resources |->
     IF ur[2] = r THEN [db[ur] EXCEPT ![s] = NoRow] ELSE db[ur]]

(* wipe_experiment_permissions: one transaction removes the user rows ...  *)
WipeUserRows(x, r) ==
  /\ wr[x] = Idle
  /\ Uncovered(Users \X {r})
  /\ db' = WithoutRows(r, "user")
  /\ wr' = [wr EXCEPT ![x] = [pc |-> "wiping", resource |-> r]]
  /\ UNCHANGED <<wsAnswer, covered>>

(* ... and a second one the group rows.                                    *)
WipeGroupRows(x) ==
  /\ wr[x].pc = "wiping"
  /\ NothingCleared(Users \X {wr[x].resource})
  /\ db' = WithoutRows(wr[x].resource, "group")
  /\ wr' = [wr EXCEPT ![x] = Idle]
  /\ UNCHANGED <<wsAnswer, covered, uncovered>>

(* delete_user removes every row of the user in one transaction.           *)
DeleteUser(u) ==
  /\ Uncovered({u} \X Resources)
  /\ db' = [ur \in Users \X Resources |->
              IF ur[1] = u THEN [s \in Sources |-> NoRow] ELSE db[ur]]
  /\ wsAnswer' = [uw \in Users \X Workspaces |->
                    IF uw[1] = u THEN NoRow ELSE wsAnswer[uw]]
  /\ UNCHANGED <<wr, covered>>

(* rename_user: the rows follow the user to a name that had none.          *)
RenameUser(u, v) ==
  /\ u # v
  /\ \A r \in Resources, s \in Sources : db[<<v, r>>][s] = NoRow
  /\ Uncovered({u, v} \X Resources)
  /\ db' = [ur \in Users \X Resources |->
              IF ur[1] = v THEN db[<<u, ur[2]>>]
              ELSE IF ur[1] = u THEN db[<<v, ur[2]>>] ELSE db[ur]]
  /\ UNCHANGED <<wsAnswer, wr, covered>>

(* The workspace permission of a user changes, by a write or because the   *)
(* workspace cache learns of an earlier one; the permission cache is left  *)
(* alone.                                                                  *)
SetWorkspaceAnswer(u, w, a) ==
  /\ Uncovered({u} \X Resources)
  /\ wsAnswer' = [wsAnswer EXCEPT ![<<u, w>>] = a]
  /\ UNCHANGED <<db, wr, covered>>

(* Every entry has a TTL; a bug could keep some kinds of result forever.   *)
HasTTLUnlessFallback(e) == e # Miss /\ e.kind # "fallback"
HasTTL(e) == e # Miss

(* TTL expiry, or eviction from a full cache.                              *)
Expire(p, k) ==
  /\ HasTTL(cache[p][k])
  /\ cache' = [cache EXCEPT ![p] = [@ EXCEPT ![k] = Miss]]
  /\ unreached' = unreached \ {<<p, k>>}
  /\ UNCHANGED <<dbVars, req, wr, covered, uncovered, overtaken>>

-----------------------------------------------------------------------------
Lookup(q) ==
  \/ SourceAnswers(q)
  \/ SourceHasNoRow(q)
  \/ SourcesExhausted(q)
  \/ ReadWorkspace(q)
  \/ LookupFails(q)
  \/ Store(q)
  \/ Finish(q)

Next ==
  \/ \E q \in Requests, p \in Replicas, u \in Settled, r \in Resources,
        w \in RequestWorkspace : Begin(q, p, u, r, w)
  \/ \E q \in Requests : Lookup(q)
  \/ \E x \in Writers, p \in Replicas, s \in Sources,
        K \in SUBSET (Settled \X Resources) :
        \E f \in [K -> Answer] : CommitCovered(x, p, s, K, f)
  \/ \E x \in Writers, B \in SUBSET Key : ClearBatch(x, B)
  \/ \E x \in Writers, r \in Resources : WipeUserRows(x, r)
  \/ \E x \in Writers : WipeGroupRows(x)
  \/ \E u \in Settled : DeleteUser(u)
  \/ \E u, v \in Users : RenameUser(u, v)
  \/ \E u \in Settled, w \in Workspaces, a \in Answer : SetWorkspaceAnswer(u, w, a)
  \/ \E p \in Replicas, k \in Key : Expire(p, k)

Spec == Init /\ [][Next]_vars

(* Request threads and clearing writers run on; an entry's TTL elapses.    *)
Fairness ==
  /\ \A q \in Requests : WF_vars(Lookup(q))
  /\ \A x \in Writers : WF_vars(\E B \in SUBSET Key : B # {} /\ ClearBatch(x, B))
  /\ \A p \in Replicas, k \in Key : WF_vars(Expire(p, k))

FairSpec == Spec /\ Fairness

-----------------------------------------------------------------------------
(* Properties *)

(* The variables' types; only requests with a workspace look one up.       *)
TypeOK ==
  /\ db \in [Users \X Resources -> [Sources -> Answer]]
  /\ wsAnswer \in [Users \X Workspaces -> Answer]
  /\ cache \in [Replicas -> [Key -> Result \cup {Miss}]]
  /\ req \in [Requests -> {Idle} \cup Resolving]
  /\ \A q \in Requests : req[q].pc = "workspace" => req[q].workspace \in Workspaces
  /\ wr \in [Writers -> {Idle} \cup Clearing \cup Wiping]
  /\ covered \in 0 .. MaxCovered
  /\ uncovered \in 0 .. MaxUncovered
  /\ overtaken \subseteq Requests
  /\ unreached \subseteq Replicas \X Key

(* An entry is what a lookup for its user and one of the resources sharing *)
(* its key returns now, in some workspace: the key names neither.          *)
EntryCurrent(k, e) ==
  \E r \in Resources, w \in RequestWorkspace : SlotOf[r] = k[2] /\ Resolves(k[1], r, w, e)

(* A cached result is stale for one of three causes only: its replica is   *)
(* still clearing, a write no clear serves came after it, or it was stored *)
(* by a lookup that a write overtook (commit-then-flush of                 *)
(* _wrap_with_cache_flush against get/resolve/set of resolve_permission).  *)
Coherent ==
  \A p \in Replicas, k \in Key :
    \/ cache[p][k] = Miss
    \/ <<p, k>> \in unreached
    \/ ClearDue(p, k)
    \/ EntryCurrent(k, cache[p][k])

(* What a lookup has read so far still holds unless a write overtook it:   *)
(* the sources it passed over answer nothing, and the result it is about   *)
(* to store is the current one for its own resource and workspace.         *)
WalkHolds ==
  \A q \in Requests \ overtaken :
    LET row == db[<<req[q].user, req[q].resource>>] IN
    /\ req[q].pc = "sources" => NothingBefore(row, req[q].pos)
    /\ req[q].pc = "workspace" => NothingBefore(row, Len(SourceOrder) + 1)
    /\ req[q].pc = "store" =>
          Resolves(req[q].user, req[q].resource, req[q].workspace, req[q].result)

(* Once writes stop, every cache ends up coherent for good: the TTL repairs*)
(* what the clears did not reach.                                          *)
EventuallyCoherent ==
  <>[](\A p \in Replicas, k \in Key :
         cache[p][k] = Miss \/ EntryCurrent(k, cache[p][k]))

-----------------------------------------------------------------------------
(* What the documentation says, and the code does not keep *)

AtRest == (\A q \in Requests : req[q] = Idle) /\ (\A x \in Writers : wr[x] = Idle)

(* sqlalchemy_store.py says that flushing after every listed write ensures *)
(* that stale permissions are never served: with nothing in progress, an   *)
(* entry is what a lookup would return.                                    *)
NoStaleEntryAtRest ==
  AtRest => \A p \in Replicas, k \in Key :
              cache[p][k] = Miss \/ EntryCurrent(k, cache[p][k])

(* sqlalchemy_store.py leaves user management out of the flush because it  *)
(* does not change what resolution returns: with nothing in progress, an   *)
(* entry that reports a source's permission still has a row in that source.*)
NoEntryOutlivesItsRow ==
  AtRest => \A p \in Replicas, k \in Key :
              cache[p][k] # Miss /\ cache[p][k].kind \in Sources =>
                \E r \in Resources :
                  SlotOf[r] = k[2] /\ db[<<k[1], r>>][cache[p][k].kind] # NoRow

(* effective_scorer_permission says it uses scorer-specific sources: an    *)
(* answer that reports a source's permission was found for that resource.  *)
AnswerHasItsOwnRow ==
  \A q \in Requests :
    req[q].pc = "done" /\ req[q].result.kind \in Sources =>
      db[<<req[q].user, req[q].resource>>][req[q].result.kind] # NoRow

(* docs/workspaces.md: without a permission in the request's workspace the *)
(* fallback denies.                                                        *)
FallbackIsOfOwnWorkspace ==
  \A q \in Requests :
    req[q].pc = "done" /\ req[q].result.kind = "workspace" =>
      /\ req[q].workspace # NoWorkspace
      /\ wsAnswer[<<req[q].user, req[q].workspace>>] # NoRow
=============================================================================
